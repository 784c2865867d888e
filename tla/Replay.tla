------------------------------- MODULE Replay --------------------------------
(***************************************************************************)
(* Replay of one recording: the action loop of Executor                     *)
(* (browser/executor.py) and the RecoveryEngine with its strategies         *)
(* (recovery/) that it calls when an action fails.  JobPool models the jobs *)
(* that replays run in.                                                     *)
(*                                                                          *)
(* The page is the set of selectors that resolve to exactly one element now:*)
(* the recorded one, the recorded one inside some iframe, one that the LLM  *)
(* proposes.  It changes by itself at any time.  What an action was meant   *)
(* to do on the page is done not at all, half (a field cleared, not filled) *)
(* or in full.                                                              *)
(***************************************************************************)
EXTENDS Naturals, Sequences, FiniteSets

CONSTANTS
    NActions,   \* actions of the recording
    MaxDepth    \* RecoveryContext.max_depth

ASSUME ReplayAssumption ==
    /\ NActions \in Nat
    /\ MaxDepth \in Nat

VARIABLES
    kind,       \* what each action is
    wired,      \* RecoveryContext has an LLM backend
    found,      \* the page: selectors that resolve uniquely
    pc,         \* where run() is
    index,      \* the action being executed
    mode,       \* FailureMode of its attempt
    left,       \* strategies the engine has still to try
    tried,      \* history: strategies tried, per action
    claim,      \* the selector a strategy claims success with
    verified,   \* history: actions whose recovery the verifier confirmed
    effect,     \* what each action has done on the page
    outcome,    \* status of each ActionExecution
    events,     \* events emitted, per action
    status      \* status in run_finished and RunResult

fixed == <<kind, wired>>
vars == <<kind, wired, found, pc, index, mode, left, tried, claim, verified, effect,
          outcome, events, status>>

-----------------------------------------------------------------------------
Action == 1..NActions
Kind == {"navigate", "click", "input", "unselected"}
Selector == {"recorded", "framed", "fresh"}
NoSelector == "none"
Mode == {"not_found", "not_interactable", "navigation_failed", "timeout", "unknown"}

\* The roster, sorted by cost_tier.
Position == [wait_and_retry |-> 1, scroll_into_view |-> 2, dismiss_modal |-> 3,
             frame_switch |-> 4, llm_reselect |-> 5]
Strategy == DOMAIN Position

CostTier == [wait_and_retry |-> 0, scroll_into_view |-> 1, dismiss_modal |-> 2,
             frame_switch |-> 2, llm_reselect |-> 5]

\* No failure is ever classified as an unexpected modal.
ApplicableModes ==
    [wait_and_retry   |-> {"timeout", "not_interactable"},
     scroll_into_view |-> {"not_interactable"},
     dismiss_modal    |-> {"not_interactable"},
     frame_switch     |-> {"not_found"},
     llm_reselect     |-> {"not_found", "not_interactable", "unknown"}]

Applicable(m) == {s \in Strategy : m \in ApplicableModes[s]}

\* The strategy whose turn it is.
Current == CHOOSE s \in left : \A t \in left : Position[s] <= Position[t]

\* original.selector
Recorded(a) == IF kind[a] \in {"click", "input"} THEN "recorded" ELSE NoSelector

PC == {"starting", "next", "resolving", "dispatching", "filling", "failing",
       "recovering", "attempting", "verifying", "done", "raised"}

Event == {"started", "succeeded", "failed", "recovery_started", "recovery_failed",
          "recovery_succeeded"}

TypeOK ==
    /\ kind \in [Action -> Kind]
    /\ wired \in BOOLEAN
    /\ found \in SUBSET Selector
    /\ pc \in PC
    /\ index \in 0..NActions
    /\ mode \in Mode
    /\ left \in SUBSET Strategy
    /\ tried \in [Action -> Seq(Strategy)]
    /\ claim \in Selector \union {NoSelector}
    /\ verified \in SUBSET Action
    /\ effect \in [Action -> {"none", "half", "full"}]
    /\ outcome \in [Action -> {"pending", "success", "failed", "recovered"}]
    /\ events \in [Action -> Seq(Event)]
    /\ status \in {"running", "success", "failed"}

Init ==
    /\ kind \in [Action -> Kind]
    /\ wired \in BOOLEAN
    /\ found = {}
    /\ pc = "starting"
    /\ index = 0
    /\ mode = "unknown"
    /\ left = {}
    /\ tried = [a \in Action |-> <<>>]
    /\ claim = NoSelector
    /\ verified = {}
    /\ effect = [a \in Action |-> "none"]
    /\ outcome = [a \in Action |-> "pending"]
    /\ events = [a \in Action |-> <<>>]
    /\ status = "running"

Emit(e) == events' = [events EXCEPT ![index] = Append(@, e)]
Do(x) == effect' = [effect EXCEPT ![index] = x]
Settle(o) == outcome' = [outcome EXCEPT ![index] = o]

-----------------------------------------------------------------------------
(* The page *)

\* Scripts, timers, the network and what the replay itself does change the page.
PageChanges ==
    /\ pc \notin {"done", "raised"}
    /\ found' \in SUBSET Selector
    /\ UNCHANGED <<fixed, pc, index, mode, left, tried, claim, verified, effect,
                   outcome, events, status>>

-----------------------------------------------------------------------------
(* Executor.run and _execute_one *)

\* run_started
Start ==
    /\ pc = "starting"
    /\ pc' = "next"
    /\ UNCHANGED <<fixed, found, index, mode, left, tried, claim, verified, effect,
                   outcome, events, status>>

\* The next action: action_started.
Begin ==
    /\ pc = "next"
    /\ index < NActions
    /\ index' = index + 1
    /\ events' = [events EXCEPT ![index + 1] = Append(@, "started")]
    /\ pc' = IF kind[index + 1] = "navigate" THEN "dispatching" ELSE "resolving"
    /\ UNCHANGED <<fixed, found, mode, left, tried, claim, verified, effect, outcome, status>>

\* _resolve_selector finds one element.
Resolve ==
    /\ pc = "resolving"
    /\ Recorded(index) \in found
    /\ pc' = "dispatching"
    /\ UNCHANGED <<fixed, found, index, mode, left, tried, claim, verified, effect,
                   outcome, events, status>>

\* _classify_failure
Fail(m) ==
    /\ mode' = m
    /\ pc' = "failing"

\* There is no selector, or no strategy of it is unique.
Unresolved ==
    /\ pc = "resolving"
    /\ Recorded(index) \notin found
    /\ Fail("not_found")
    /\ UNCHANGED <<fixed, found, index, left, tried, claim, verified, effect, outcome,
                   events, status>>

\* With clear_first an INPUT clears the field first, with a call of its own.
Clear ==
    /\ pc = "dispatching"
    /\ kind[index] = "input"
    /\ Do("half")
    /\ pc' = "filling"
    /\ UNCHANGED <<fixed, found, index, mode, left, tried, claim, verified, outcome,
                   events, status>>

\* goto, click, select_option, press, hover or fill succeeds: action_succeeded.
Dispatch ==
    /\ pc \in {"dispatching", "filling"}
    /\ Do("full")
    /\ Settle("success")
    /\ Emit("succeeded")
    /\ pc' = "next"
    /\ UNCHANGED <<fixed, found, index, mode, left, tried, claim, verified, status>>

\* Mutant: an error of the dispatch is swallowed.
DispatchSwallows ==
    /\ pc \in {"dispatching", "filling"}
    /\ Settle("success")
    /\ Emit("succeeded")
    /\ pc' = "next"
    /\ UNCHANGED <<fixed, found, index, mode, left, tried, claim, verified, effect, status>>

\* It raises, before it has done anything or after (a click whose navigation
\* times out).
DispatchFails ==
    /\ pc \in {"dispatching", "filling"}
    /\ \E m \in Mode \ {"not_found"} : Fail(m)
    /\ \/ UNCHANGED effect
       \/ Do("full")
       \/ kind[index] = "input" /\ Do("half")
    /\ UNCHANGED <<fixed, found, index, left, tried, claim, verified, outcome, events, status>>

\* What _attempt_recovery hands to the engine's loop.
AttemptRecovery == IF 0 < MaxDepth THEN Applicable(mode) ELSE {}

\* _record_failure: artifacts as far as they can be had, then action_failed.
RecordFailure ==
    /\ pc = "failing"
    /\ Emit("failed")
    /\ left' = AttemptRecovery
    /\ pc' = "recovering"
    /\ UNCHANGED <<fixed, found, index, mode, tried, claim, verified, effect, outcome, status>>

-----------------------------------------------------------------------------
(* RecoveryEngine.attempt *)

\* The next strategy: recovery_started.
TryStrategy ==
    /\ pc = "recovering"
    /\ left # {}
    /\ tried' = [tried EXCEPT ![index] = Append(@, Current)]
    /\ Emit("recovery_started")
    /\ pc' = "attempting"
    /\ UNCHANGED <<fixed, found, index, mode, left, claim, verified, effect, outcome, status>>

\* A strategy can only judge what it can see: no selector, no LLM.
Inapplicable(s) ==
    \/ s \in {"scroll_into_view", "frame_switch"} /\ Recorded(index) = NoSelector
    \/ s = "llm_reselect" /\ ~wired

\* decision.applicable is FALSE: no event.
StrategyDeclines ==
    /\ pc = "attempting"
    /\ Inapplicable(Current)
    /\ left' = left \ {Current}
    /\ pc' = "recovering"
    /\ UNCHANGED <<fixed, found, index, mode, tried, claim, verified, effect, outcome,
                   events, status>>

\* Mutant: there is no timeout, a strategy that does not succeed hangs.
StrategyHangs ==
    /\ FALSE
    /\ UNCHANGED vars

\* It does not succeed, raises, or takes longer than its timeout.
StrategyFails ==
    /\ pc = "attempting"
    /\ ~Inapplicable(Current)
    /\ left' = left \ {Current}
    /\ Emit("recovery_failed")
    /\ pc' = "recovering"
    /\ UNCHANGED <<fixed, found, index, mode, tried, claim, verified, effect, outcome, status>>

\* What a strategy can claim, if it succeeds: waiting proves nothing,
WaitAndRetry == {NoSelector}

\* nor does closing a dialog,
DismissModal == {NoSelector}

\* the element that was scrolled to was there,
ScrollIntoView == {NoSelector : x \in found \intersect {"recorded"}}

\* as was the one in the iframe,
FrameSwitch == found \intersect {"framed"}

\* and the LLM, or its cached answer, may say anything.
LLMReselect == {"fresh"}

Claims ==
    [wait_and_retry   |-> WaitAndRetry,
     scroll_into_view |-> ScrollIntoView,
     dismiss_modal    |-> DismissModal,
     frame_switch     |-> FrameSwitch,
     llm_reselect     |-> LLMReselect]

\* decision.succeeded, perhaps with a new selector.
StrategySucceeds ==
    /\ pc = "attempting"
    /\ ~Inapplicable(Current)
    /\ claim' \in Claims[Current]
    /\ pc' = "verifying"
    /\ UNCHANGED <<fixed, found, index, mode, left, tried, verified, effect, outcome,
                   events, status>>

VerifierSelector == IF claim # NoSelector THEN claim ELSE Recorded(index)

Recovered ==
    /\ Emit("recovery_succeeded")
    /\ Settle("recovered")
    /\ left' = {}
    /\ claim' = NoSelector
    /\ pc' = "next"

\* The verifier resolves the selector: recovery_succeeded.  The action itself is
\* not executed again.
VerifyAccepts ==
    /\ pc = "verifying"
    /\ VerifierSelector \in found
    /\ verified' = verified \union {index}
    /\ Recovered
    /\ UNCHANGED <<fixed, found, index, mode, tried, effect, status>>

\* Mutant: nothing is verified.
VerifySkips ==
    /\ pc = "verifying"
    /\ Recovered
    /\ UNCHANGED <<fixed, found, index, mode, tried, verified, effect, status>>

\* Without a selector there is nothing to verify.
NothingToVerify ==
    /\ pc = "verifying"
    /\ VerifierSelector = NoSelector
    /\ Recovered
    /\ UNCHANGED <<fixed, found, index, mode, tried, verified, effect, status>>

VerifyRejects ==
    /\ pc = "verifying"
    /\ VerifierSelector # NoSelector
    /\ VerifierSelector \notin found
    /\ Emit("recovery_failed")
    /\ left' = left \ {Current}
    /\ claim' = NoSelector
    /\ pc' = "recovering"
    /\ UNCHANGED <<fixed, found, index, mode, tried, verified, effect, outcome, status>>

\* Every strategy declined or failed: the action has failed, the run goes on.
GiveUp ==
    /\ pc = "recovering"
    /\ left = {}
    /\ Settle("failed")
    /\ pc' = "next"
    /\ UNCHANGED <<fixed, found, index, mode, left, tried, claim, verified, effect,
                   events, status>>

-----------------------------------------------------------------------------
\* run_finished, RunResult
Finish ==
    /\ pc = "next"
    /\ index = NActions
    /\ status' = IF \E a \in Action : outcome[a] = "failed" THEN "failed" ELSE "success"
    /\ pc' = "done"
    /\ UNCHANGED <<fixed, found, index, mode, left, tried, claim, verified, effect,
                   outcome, events>>

\* The job is cancelled, or an error that nobody handles leaves run().
Raise ==
    /\ pc \notin {"done", "raised"}
    /\ pc' = "raised"
    /\ UNCHANGED <<fixed, found, index, mode, left, tried, claim, verified, effect,
                   outcome, events, status>>

-----------------------------------------------------------------------------
Execute ==
    \/ Start \/ Begin \/ Resolve \/ Unresolved \/ Clear \/ Dispatch \/ DispatchFails
    \/ RecordFailure \/ Finish

Recover ==
    \/ TryStrategy \/ StrategyDeclines \/ StrategyFails \/ StrategySucceeds
    \/ VerifyAccepts \/ NothingToVerify \/ VerifyRejects \/ GiveUp

Next == Execute \/ Recover \/ Raise \/ PageChanges

Spec == Init /\ [][Next]_vars

\* Playwright's calls have timeouts, and so has every strategy.
FairSpec == Spec /\ WF_vars(Execute \/ Recover)

-----------------------------------------------------------------------------
(* Properties. *)

\* A recovery counts only if the verifier has seen the new or the recorded
\* selector resolve, after the strategy claimed success; actions without any
\* selector are the exception.
RecoveryIsVerified ==
    \A a \in Action : outcome[a] = "recovered" =>
        \/ a \in verified
        \/ Recorded(a) = NoSelector /\ tried[a][Len(tried[a])] # "llm_reselect"

Count(s, e) == Cardinality({i \in 1..Len(s) : s[i] = e})

\* Cheap strategies come first, none is tried twice, and an action is given up
\* only after all the strategies for its failure.
CheapestFirst ==
    \A a \in Action :
        /\ \A i, j \in 1..Len(tried[a]) :
              i < j => /\ CostTier[tried[a][i]] <= CostTier[tried[a][j]]
                       /\ tried[a][i] # tried[a][j]
        /\ outcome[a] = "failed" /\ MaxDepth > 0 =>
              \E m \in Mode : {tried[a][i] : i \in 1..Len(tried[a])} = Applicable(m)

\* The event stream of an action tells its outcome: one start, one verdict, then
\* the strategies one after the other, and recovery_succeeded as the last word
\* if and only if the action was recovered.
EventsTellOutcome ==
    \A a \in Action : LET ev == events[a] IN
        /\ outcome[a] = "pending" \/ ev[1] = "started"
        /\ Count(ev, "started") <= 1
        /\ Count(ev, "succeeded") + Count(ev, "failed") <= 1
        /\ Count(ev, "recovery_started") = Len(tried[a])
        /\ \A i \in 1..Len(ev) : ev[i] \in {"recovery_failed", "recovery_succeeded"} =>
              ev[i - 1] = "recovery_started"
        /\ outcome[a] = "success" <=> ev # <<>> /\ ev[Len(ev)] = "succeeded"
        /\ outcome[a] = "recovered" <=> ev # <<>> /\ ev[Len(ev)] = "recovery_succeeded"
        /\ outcome[a] = "failed" => Count(ev, "failed") = 1

\* A run that finishes has settled every action and is reported as failed if and
\* only if one of them failed for good; and what a run counts as successful, it
\* did, whatever cleared, half filled or raised on the way.
StatusTellsOutcomes ==
    /\ \A a \in Action : outcome[a] = "success" => effect[a] = "full"
    /\ pc = "done" =>
          /\ \A a \in Action : outcome[a] # "pending"
          /\ status = "failed" <=> \E a \in Action : outcome[a] = "failed"

\* Whoever watches a run or reads its result is told what happened: the page, the
\* outcomes, the event stream and the status agree, at whatever point an action
\* failed, was taken up by the engine, or was given up.
ToldAsItHappened == EventsTellOutcome /\ StatusTellsOutcomes

\* A run ends, however the page behaves.
RunEnds == <>(pc \in {"done", "raised"})

-----------------------------------------------------------------------------
(* The inductive invariant that the properties follow from. *)

Executing == {"resolving", "dispatching", "filling", "failing"}
Recovering == {"recovering", "attempting", "verifying"}

\* The loop settles the actions one after the other, and knows nothing of those to come.
ProgressOK ==
    /\ pc = "starting" => index = 0
    /\ pc \in Executing \cup Recovering => index \in Action /\ outcome[index] = "pending"
    /\ pc # "raised" => \A a \in Action : a < index => outcome[a] # "pending"
    /\ pc \in {"next", "done"} => \A a \in Action : a = index => outcome[a] # "pending"
    /\ \A a \in Action : a > index => /\ outcome[a] = "pending"
                                      /\ tried[a] = <<>> /\ events[a] = <<>>
    /\ pc = "done" =>
          /\ index = NActions
          /\ status = "failed" <=> \E a \in Action : outcome[a] = "failed"

\* Only what is not settled yet changes on the page.
EffectOK == \A a \in Action : outcome[a] = "success" => effect[a] = "full"

\* The strategies in s come in the order of the roster.
InOrder(s) == \A i, j \in 1..Len(s) : i < j => Position[s[i]] < Position[s[j]]

Members(s) == {s[i] : i \in 1..Len(s)}

\* The first n strategies of s come before all of rest.
Precede(s, n, rest) == \A i \in 1..n, t \in rest : Position[s[i]] < Position[t]

\* The strategies that were tried and those left are the applicable ones, cut
\* in two where the engine is; the one at work is still among those left.
RosterOK ==
    /\ \A a \in Action : InOrder(tried[a])
    /\ \A a \in Action : outcome[a] = "failed" /\ MaxDepth > 0 =>
            \E m \in Mode : Members(tried[a]) = Applicable(m)
    /\ pc \in Executing => tried[index] = <<>>
    /\ pc \in Recovering => Members(tried[index]) \cup left = AttemptRecovery
    /\ pc = "recovering" => Precede(tried[index], Len(tried[index]), left)
    /\ pc \in {"attempting", "verifying"} =>
            /\ left # {} /\ tried[index] # <<>>
            /\ tried[index][Len(tried[index])] = Current
            /\ Precede(tried[index], Len(tried[index]) - 1, left)
    /\ pc = "verifying" /\ Current = "llm_reselect" => claim = "fresh"

\* The events ev of an action with outcome o for which n strategies were tried
Tells(ev, n, o) ==
    /\ ev # <<>> /\ ev[1] = "started"
    /\ \A i \in 2..Len(ev) : /\ ev[i] # "started"
                             /\ ev[i] \in {"succeeded", "failed"} => i = 2
    /\ \A i \in 1..Len(ev) : ev[i] \in {"recovery_failed", "recovery_succeeded"} =>
            i > 1 /\ ev[i - 1] = "recovery_started"
    /\ Count(ev, "recovery_started") = n
    /\ o = "success" <=> ev[Len(ev)] = "succeeded"
    /\ o = "recovered" <=> ev[Len(ev)] = "recovery_succeeded"
    /\ o = "failed" => Len(ev) > 1 /\ ev[2] = "failed"

EventsOK ==
    /\ \A a \in Action : a <= index => Tells(events[a], Len(tried[a]), outcome[a])
    /\ pc \in Executing => events[index] = <<"started">>
    /\ pc \in Recovering => Len(events[index]) > 1 /\ events[index][2] = "failed"
    /\ pc \in {"attempting", "verifying"} =>
            events[index][Len(events[index])] = "recovery_started"

ReplayInv ==
    /\ TypeOK
    /\ ProgressOK
    /\ EffectOK
    /\ RosterOK
    /\ EventsOK
    /\ RecoveryIsVerified

=============================================================================
