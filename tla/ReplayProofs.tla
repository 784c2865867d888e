---------------------------- MODULE ReplayProofs -----------------------------
(* Proofs about Replay: what the statuses, the recovery and the events say.  *)
EXTENDS Replay, FiniteSetTheorems, TLAPS

-----------------------------------------------------------------------------
(* The roster. *)

LEMMA StrategyNames ==
    Strategy = {"wait_and_retry", "scroll_into_view", "dismiss_modal", "frame_switch",
                "llm_reselect"}
BY DEF Strategy, Position

LEMMA PositionType == ASSUME NEW s \in Strategy PROVE Position[s] \in 1..5
BY StrategyNames DEF Position

\* No two strategies have the same place, and a later place never costs less.
LEMMA PlacesDiffer ==
    ASSUME NEW s \in Strategy, NEW t \in Strategy, Position[s] = Position[t]
    PROVE  s = t
BY StrategyNames DEF Position

LEMMA LaterCostsMore ==
    ASSUME NEW s \in Strategy, NEW t \in Strategy, Position[s] < Position[t]
    PROVE  CostTier[s] <= CostTier[t]
BY StrategyNames DEF Position, CostTier

\* There is a first one in every nonempty set of strategies.
LEMMA FirstExists ==
    ASSUME NEW S \in SUBSET Strategy, S # {}
    PROVE  \E s \in S : \A t \in S : Position[s] <= Position[t]
<1>1. CASE "wait_and_retry" \in S
  BY <1>1, StrategyNames DEF Position
<1>2. CASE "wait_and_retry" \notin S /\ "scroll_into_view" \in S
  BY <1>2, StrategyNames DEF Position
<1>3. CASE /\ {"wait_and_retry", "scroll_into_view"} \cap S = {}
           /\ "dismiss_modal" \in S
  BY <1>3, StrategyNames DEF Position
<1>4. CASE /\ {"wait_and_retry", "scroll_into_view", "dismiss_modal"} \cap S = {}
           /\ "frame_switch" \in S
  BY <1>4, StrategyNames DEF Position
<1>5. CASE {"wait_and_retry", "scroll_into_view", "dismiss_modal", "frame_switch"} \cap S = {}
  <2>1. S = {"llm_reselect"}
    BY <1>5, StrategyNames
  <2> QED
    BY <2>1 DEF Position
<1> QED
  <2>1. S \in SUBSET Strategy
    OBVIOUS
  <2> QED
    BY <1>1, <1>2, <1>3, <1>4, <1>5, <2>1

\* The strategy whose turn it is comes strictly before the others that are left.
LEMMA CurrentIsFirst ==
    ASSUME left \in SUBSET Strategy, left # {}
    PROVE  /\ Current \in left
           /\ \A t \in left \ {Current} : Position[Current] < Position[t]
<1>1. Current \in left /\ \A t \in left : Position[Current] <= Position[t]
  BY FirstExists DEF Current
<1> QED
  BY <1>1, PositionType, PlacesDiffer

-----------------------------------------------------------------------------
(* Events are counted as they are emitted. *)

LEMMA CountAppend ==
    ASSUME NEW s \in Seq(Event), NEW x \in Event, NEW e
    PROVE  /\ Count(s, e) \in Nat
           /\ Count(Append(s, x), e) = IF x = e THEN Count(s, e) + 1 ELSE Count(s, e)
<1> DEFINE n == Len(s)
           S == {i \in 1..n : s[i] = e}
           T == {i \in 1..Len(Append(s, x)) : Append(s, x)[i] = e}
<1>1. n \in Nat /\ Len(Append(s, x)) = n + 1
  OBVIOUS
<1>2. Append(s, x)[n + 1] = x /\ \A i \in 1..n : Append(s, x)[i] = s[i]
  OBVIOUS
<1>3. IsFiniteSet(S) /\ Cardinality(S) \in Nat
  <2>1. IsFiniteSet(1..n)
    BY <1>1, FS_Interval
  <2>2. IsFiniteSet(S)
    BY <2>1, FS_Subset
  <2> QED
    BY <2>2, FS_CardinalityType
<1>4. T = IF x = e THEN S \cup {n + 1} ELSE S
  BY <1>1, <1>2
<1>5. n + 1 \notin S
  BY <1>1
<1>6. Cardinality(S \cup {n + 1}) = Cardinality(S) + 1
  BY <1>3, <1>5, FS_AddElement
<1>7. Count(s, e) = Cardinality(S) /\ Count(Append(s, x), e) = Cardinality(T)
  BY DEF Count
<1> HIDE DEF S, T
<1> QED
  BY <1>3, <1>4, <1>6, <1>7

\* One event alone is counted once.
LEMMA CountOne ==
    ASSUME NEW x \in Event, NEW e
    PROVE  Count(<<x>>, e) = IF x = e THEN 1 ELSE 0
<1>1. Count(<< >>, e) = 0
  <2>1. {i \in 1..Len(<< >>) : << >>[i] = e} = {}
    OBVIOUS
  <2> QED
    BY <2>1, FS_EmptySet DEF Count
<1>2. Append(<< >>, x) = <<x>> /\ << >> \in Seq(Event)
  OBVIOUS
<1>3. Count(Append(<< >>, x), e) = IF x = e THEN Count(<< >>, e) + 1 ELSE Count(<< >>, e)
  BY <1>2, CountAppend
<1> QED
  BY <1>1, <1>2, <1>3

-----------------------------------------------------------------------------
(* What the events of one action tell, event by event. *)

LEMMA TellsStarted == Tells(<<"started">>, 0, "pending")
<1>1. Count(<<"started">>, "recovery_started") = 0
  BY CountOne DEF Event
<1> QED
  BY <1>1 DEF Tells

\* What an event that is appended to ev leaves as it was.
LEMMA Appended ==
    ASSUME NEW ev \in Seq(Event), NEW x \in Event, ev # <<>>
    PROVE  /\ Append(ev, x) \in Seq(Event) /\ Append(ev, x) # <<>>
           /\ Len(ev) \in Nat /\ Len(ev) >= 1
           /\ Len(Append(ev, x)) = Len(ev) + 1
           /\ Append(ev, x)[Len(ev) + 1] = x
           /\ \A i \in 1..Len(ev) : Append(ev, x)[i] = ev[i]
OBVIOUS

LEMMA TellsVerdict ==
    ASSUME NEW x \in {"succeeded", "failed"}
    PROVE  LET ev == Append(<<"started">>, x)
           IN  /\ Tells(ev, 0, IF x = "succeeded" THEN "success" ELSE "pending")
               /\ Len(ev) = 2 /\ ev[2] = x
<1> DEFINE ev == Append(<<"started">>, x)
<1>1. <<"started">> \in Seq(Event) /\ x \in Event
  BY DEF Event
<1>2. Count(ev, "recovery_started") = 0
  <2>1. Count(ev, "recovery_started") =
            IF x = "recovery_started" THEN Count(<<"started">>, "recovery_started") + 1
            ELSE Count(<<"started">>, "recovery_started")
    BY <1>1, CountAppend
  <2>2. Count(<<"started">>, "recovery_started") = 0
    BY CountOne DEF Event
  <2> QED
    BY <2>1, <2>2
<1>3. Len(ev) = 2 /\ ev # <<>> /\ ev[1] = "started" /\ ev[2] = x
  BY <1>1, Appended
<1> HIDE DEF ev
<1>4. Tells(ev, 0, IF x = "succeeded" THEN "success" ELSE "pending")
  BY <1>2, <1>3 DEF Tells
<1> QED
  BY <1>3, <1>4 DEF ev

LEMMA TellsRecovery ==
    ASSUME NEW ev \in Seq(Event), NEW n \in Nat, Tells(ev, n, "pending"),
           NEW x \in {"recovery_started", "recovery_failed", "recovery_succeeded"},
           x # "recovery_started" => ev[Len(ev)] = "recovery_started"
    PROVE  LET more == Append(ev, x)
           IN  /\ Tells(more, IF x = "recovery_started" THEN n + 1 ELSE n,
                              IF x = "recovery_succeeded" THEN "recovered" ELSE "pending")
               /\ more \in Seq(Event) /\ Len(more) > Len(ev) /\ more[Len(more)] = x
               /\ Len(ev) > 1 => more[2] = ev[2]
<1> DEFINE more == Append(ev, x)
<1>1. x \in Event /\ ev # <<>>
  BY DEF Event, Tells
<1>2. /\ more \in Seq(Event) /\ more # <<>>
      /\ Len(ev) \in Nat /\ Len(ev) >= 1
      /\ Len(more) = Len(ev) + 1
      /\ more[Len(ev) + 1] = x
      /\ \A i \in 1..Len(ev) : more[i] = ev[i]
  BY <1>1, Appended
<1>3. Count(more, "recovery_started") = IF x = "recovery_started" THEN n + 1 ELSE n
  <2>1. Count(ev, "recovery_started") = n
    BY DEF Tells
  <2> QED
    BY <1>1, <2>1, CountAppend
<1> HIDE DEF more
<1>4. more[1] = "started"
  BY <1>2 DEF Tells
<1>5. \A i \in 2..Len(more) : /\ more[i] # "started"
                              /\ more[i] \in {"succeeded", "failed"} => i = 2
  BY <1>2 DEF Tells
<1>6. \A i \in 1..Len(more) : more[i] \in {"recovery_failed", "recovery_succeeded"} =>
            i > 1 /\ more[i - 1] = "recovery_started"
  <2> SUFFICES ASSUME NEW i \in 1..Len(more),
                      more[i] \in {"recovery_failed", "recovery_succeeded"}
               PROVE  i > 1 /\ more[i - 1] = "recovery_started"
    OBVIOUS
  <2>1. CASE i = Len(ev) + 1
    BY <1>2, <2>1
  <2>2. CASE i \in 1..Len(ev)
    <3>1. ev[i] \in {"recovery_failed", "recovery_succeeded"}
      BY <1>2, <2>2
    <3>2. i > 1 /\ ev[i - 1] = "recovery_started"
      BY <3>1, <2>2 DEF Tells
    <3> QED
      BY <3>2, <2>2, <1>2
  <2> QED
    BY <2>1, <2>2, <1>2
<1>7. Tells(more, IF x = "recovery_started" THEN n + 1 ELSE n,
                  IF x = "recovery_succeeded" THEN "recovered" ELSE "pending")
  BY <1>2, <1>3, <1>4, <1>5, <1>6 DEF Tells
<1>8. Len(ev) > 1 => more[2] = ev[2]
  BY <1>2
<1> QED
  BY <1>2, <1>7, <1>8 DEF more

\* An action that is given up has a failed attempt.
LEMMA TellsGivenUp ==
    ASSUME NEW ev, NEW n, Tells(ev, n, "pending"), Len(ev) > 1, ev[2] = "failed"
    PROVE  Tells(ev, n, "failed")
BY DEF Tells

-----------------------------------------------------------------------------
(* Types. *)

\* Only strategies can be applicable.
LEMMA ApplicableType == AttemptRecovery \in SUBSET Strategy
BY DEF AttemptRecovery, Applicable

LEMMA ClaimType ==
    ASSUME left \in SUBSET Strategy, left # {}
    PROVE  /\ Claims[Current] \in SUBSET (Selector \cup {NoSelector})
           /\ Current = "llm_reselect" => Claims[Current] = {"fresh"}
<1> PICK s \in Strategy : s = Current
  BY CurrentIsFirst
<1>1. /\ Claims[s] \in SUBSET (Selector \cup {NoSelector})
      /\ s = "llm_reselect" => Claims[s] = {"fresh"}
  BY StrategyNames DEF Claims, WaitAndRetry, ScrollIntoView, DismissModal, FrameSwitch,
                       LLMReselect, Selector, NoSelector
<1> QED
  BY <1>1

LEMMA TypeStep ==
    ASSUME TypeOK, ProgressOK, RosterOK, Next
    PROVE  TypeOK'
<1> USE ReplayAssumption DEF TypeOK, fixed, PC, Emit, Do, Settle
<1>0. pc \in Executing \cup Recovering => index \in Action
  BY DEF ProgressOK
<1>1. CASE PageChanges
  BY <1>1 DEF PageChanges
<1>2. CASE Raise
  BY <1>2 DEF Raise
<1>3. CASE Start
  BY <1>3 DEF Start
<1>4. CASE Begin
  <2>1. index + 1 \in Action
    BY <1>4 DEF Begin, Action
  <2>2. index' \in 0..NActions /\ pc' \in PC
    BY <1>4 DEF Begin
  <2>3. events' \in [Action -> Seq(Event)]
    BY <1>4, <2>1 DEF Begin, Event
  <2> QED
    BY <1>4, <2>2, <2>3 DEF Begin
<1>5. CASE Resolve
  BY <1>5 DEF Resolve
<1>6. CASE Unresolved
  BY <1>6 DEF Unresolved, Fail, Mode
<1>7. CASE Clear
  BY <1>7 DEF Clear
<1>8. CASE Dispatch
  <2>1. events' \in [Action -> Seq(Event)]
    BY <1>8, <1>0 DEF Dispatch, Event, Executing, Recovering
  <2> QED
    BY <1>8, <2>1 DEF Dispatch
<1>9. CASE DispatchFails
  <2>1. mode' \in Mode /\ pc' \in PC
    BY <1>9 DEF DispatchFails, Fail
  <2>2. effect' \in [Action -> {"none", "half", "full"}]
    BY <1>9 DEF DispatchFails
  <2> QED
    BY <1>9, <2>1, <2>2 DEF DispatchFails
<1>10. CASE RecordFailure
  <2>1. events' \in [Action -> Seq(Event)]
    BY <1>10, <1>0 DEF RecordFailure, Event, Executing, Recovering
  <2> QED
    BY <1>10, <2>1, ApplicableType DEF RecordFailure
<1>11. CASE Finish
  BY <1>11 DEF Finish
<1>12. CASE TryStrategy
  <2>1. events' \in [Action -> Seq(Event)]
    BY <1>12, <1>0 DEF TryStrategy, Event, Executing, Recovering
  <2>2. Current \in Strategy
    BY <1>12, CurrentIsFirst DEF TryStrategy
  <2>3. tried' \in [Action -> Seq(Strategy)]
    BY <1>12, <1>0, <2>2 DEF TryStrategy, Recovering
  <2> QED
    BY <1>12, <2>1, <2>3 DEF TryStrategy
<1>13. CASE StrategyDeclines
  BY <1>13 DEF StrategyDeclines
<1>14. CASE StrategyFails
  <2>1. events' \in [Action -> Seq(Event)]
    BY <1>14, <1>0 DEF StrategyFails, Event, Executing, Recovering
  <2> QED
    BY <1>14, <2>1 DEF StrategyFails
<1>15. CASE StrategySucceeds
  <2>1. claim' \in Selector \cup {NoSelector}
    BY <1>15, ClaimType DEF StrategySucceeds, RosterOK
  <2> QED
    BY <1>15, <2>1 DEF StrategySucceeds
<1>16. CASE VerifyAccepts
  <2>1. index \in Action
    BY <1>16, <1>0 DEF VerifyAccepts, Recovering
  <2>2. events' \in [Action -> Seq(Event)]
    BY <1>16, <1>0 DEF VerifyAccepts, Recovered, Event, Executing, Recovering
  <2> QED
    BY <1>16, <2>1, <2>2 DEF VerifyAccepts, Recovered
<1>17. CASE NothingToVerify
  <2>1. events' \in [Action -> Seq(Event)]
    BY <1>17, <1>0 DEF NothingToVerify, Recovered, Event, Executing, Recovering
  <2> QED
    BY <1>17, <2>1 DEF NothingToVerify, Recovered
<1>18. CASE VerifyRejects
  <2>1. events' \in [Action -> Seq(Event)]
    BY <1>18, <1>0 DEF VerifyRejects, Event, Executing, Recovering
  <2> QED
    BY <1>18, <2>1 DEF VerifyRejects
<1>19. CASE GiveUp
  BY <1>19 DEF GiveUp
<1> QED
  BY <1>1, <1>2, <1>3, <1>4, <1>5, <1>6, <1>7, <1>8, <1>9, <1>10, <1>11, <1>12, <1>13,
     <1>14, <1>15, <1>16, <1>17, <1>18, <1>19 DEF Next, Execute, Recover

-----------------------------------------------------------------------------
(* The loop goes from action to action. *)

\* A step within the action at hand keeps to it, and settles it when it goes on.
LEMMA SameAction ==
    ASSUME TypeOK, ProgressOK,
           pc \in Executing \cup Recovering, index' = index,
           pc' \in Executing \cup Recovering \cup {"next"},
           \A a \in Action : a # index => /\ outcome'[a] = outcome[a]
                                         /\ tried'[a] = tried[a] /\ events'[a] = events[a],
           IF pc' = "next" THEN outcome'[index] # "pending" ELSE outcome'[index] = "pending"
    PROVE  ProgressOK'
<1>1. index \in Action /\ index \in Nat
  BY ReplayAssumption DEF ProgressOK, TypeOK, Action
<1>2. pc' # "starting" /\ pc' # "done"
  BY DEF Executing, Recovering
<1>3. \A a \in Action : a < index \/ a > index => a # index
  BY <1>1 DEF Action
<1>4. \A a \in Action : a < index => outcome'[a] # "pending"
  BY <1>3 DEF ProgressOK, Executing, Recovering
<1>5. \A a \in Action : a > index =>
            outcome'[a] = "pending" /\ tried'[a] = <<>> /\ events'[a] = <<>>
  BY <1>3 DEF ProgressOK
<1>6. pc' \in Executing \cup Recovering => pc' # "next"
  BY DEF Executing, Recovering
<1> QED
  BY <1>1, <1>2, <1>4, <1>5, <1>6 DEF ProgressOK

LEMMA ProgressStep ==
    ASSUME TypeOK, ProgressOK, RosterOK, Next
    PROVE  ProgressOK'
<1> USE DEF Emit, Do, Settle
<1>0. /\ pc \in Executing \cup Recovering => index \in Action /\ outcome[index] = "pending"
      /\ index \in Nat
  BY ReplayAssumption DEF ProgressOK, TypeOK
<1>1. CASE PageChanges
  BY <1>1 DEF PageChanges, ProgressOK
<1>2. CASE Raise
  BY <1>2 DEF Raise, ProgressOK, Executing, Recovering
<1>3. CASE Start
  BY <1>3, <1>0 DEF Start, ProgressOK, Action, Executing, Recovering
<1>4. CASE Begin
  <2>1. /\ pc' \in Executing /\ pc' \notin {"starting", "next", "done"}
        /\ index' = index + 1 /\ index' \in Action
    BY <1>4, <1>0, ReplayAssumption DEF Begin, Executing, Action
  <2>2. outcome' = outcome /\ tried' = tried
    BY <1>4 DEF Begin
  <2>3. \A a \in Action : a > index' => events'[a] = events[a]
    BY <1>4, <1>0 DEF Begin, TypeOK, Action
  <2>4. outcome'[index'] = "pending"
    BY <2>1, <2>2, <1>0 DEF ProgressOK
  <2>5. \A a \in Action : a < index' => outcome'[a] # "pending"
    BY <1>4, <1>0, <2>1, <2>2 DEF Begin, ProgressOK, Action
  <2>6. \A a \in Action : a > index' =>
            outcome'[a] = "pending" /\ tried'[a] = <<>> /\ events'[a] = <<>>
    BY <1>0, <2>1, <2>2, <2>3 DEF ProgressOK, Action
  <2> QED
    BY <2>1, <2>4, <2>5, <2>6 DEF ProgressOK
<1>5. CASE Finish
  <2>1. /\ pc = "next" /\ pc' = "done" /\ index' = NActions
        /\ status' = "failed" <=> \E a \in Action : outcome[a] = "failed"
    BY <1>5 DEF Finish
  <2>2. UNCHANGED <<index, outcome, tried, events>>
    BY <1>5 DEF Finish
  <2> QED
    BY <2>1, <2>2 DEF ProgressOK, Executing, Recovering
<1>6. CASE Resolve \/ Unresolved \/ Clear \/ DispatchFails \/ StrategyDeclines \/ StrategySucceeds
  <2>1. UNCHANGED <<index, outcome, tried, events>>
    BY <1>6 DEF Resolve, Unresolved, Clear, DispatchFails, StrategyDeclines, StrategySucceeds
  <2>2. pc \in Executing \cup Recovering /\ pc' \in Executing \cup Recovering /\ pc' # "next"
    BY <1>6 DEF Resolve, Unresolved, Clear, DispatchFails, StrategyDeclines, StrategySucceeds,
                Fail, Executing, Recovering
  <2> QED
    BY <1>0, <2>1, <2>2, SameAction
<1>7. CASE RecordFailure \/ TryStrategy \/ StrategyFails \/ VerifyRejects
  <2>1. UNCHANGED <<index, outcome>>
    BY <1>7 DEF RecordFailure, TryStrategy, StrategyFails, VerifyRejects
  <2>2. \A a \in Action : a # index => tried'[a] = tried[a] /\ events'[a] = events[a]
    BY <1>7 DEF RecordFailure, TryStrategy, StrategyFails, VerifyRejects, TypeOK
  <2>3. pc \in Executing \cup Recovering /\ pc' \in Executing \cup Recovering /\ pc' # "next"
    BY <1>7 DEF RecordFailure, TryStrategy, StrategyFails, VerifyRejects, Executing, Recovering
  <2> QED
    BY <1>0, <2>1, <2>2, <2>3, SameAction
<1>8. CASE Dispatch \/ VerifyAccepts \/ NothingToVerify \/ GiveUp
  <2>1. pc \in Executing \cup Recovering /\ pc' = "next" /\ index' = index
    BY <1>8 DEF Dispatch, VerifyAccepts, NothingToVerify, GiveUp, Recovered, Executing, Recovering
  <2>2. \A a \in Action : a # index => /\ outcome'[a] = outcome[a]
                                       /\ tried'[a] = tried[a] /\ events'[a] = events[a]
    BY <1>8 DEF Dispatch, VerifyAccepts, NothingToVerify, GiveUp, Recovered, TypeOK
  <2>3. outcome'[index] \in {"success", "recovered", "failed"}
    BY <1>8, <1>0, <2>1 DEF Dispatch, VerifyAccepts, NothingToVerify, GiveUp, Recovered, TypeOK
  <2>4. outcome'[index] # "pending"
    BY <2>3
  <2> QED
    BY <2>1, <2>2, <2>4, SameAction
<1> QED
  BY <1>1, <1>2, <1>3, <1>4, <1>5, <1>6, <1>7, <1>8 DEF Next, Execute, Recover

-----------------------------------------------------------------------------
(* What is settled is true. *)

LEMMA EffectStep ==
    ASSUME TypeOK, ProgressOK, EffectOK, Next
    PROVE  EffectOK'
<1> USE DEF Emit, Do, Settle
<1>0. pc \in Executing \cup Recovering => index \in Action /\ outcome[index] = "pending"
  BY DEF ProgressOK
<1>1. CASE UNCHANGED <<outcome, effect>>
  BY <1>1 DEF EffectOK
<1>2. CASE Clear \/ DispatchFails
  <2>1. \A a \in Action : a # index => effect'[a] = effect[a]
    BY <1>2 DEF Clear, DispatchFails, TypeOK
  <2>2. outcome' = outcome /\ pc \in Executing
    BY <1>2 DEF Clear, DispatchFails, Executing
  <2> QED
    BY <1>0, <2>1, <2>2 DEF EffectOK
<1>3. CASE Dispatch
  <2>1. \A a \in Action : a # index => effect'[a] = effect[a] /\ outcome'[a] = outcome[a]
    BY <1>3 DEF Dispatch, TypeOK
  <2>2. effect'[index] = "full"
    BY <1>3, <1>0 DEF Dispatch, TypeOK, Executing
  <2> QED
    BY <2>1, <2>2 DEF EffectOK
<1>4. CASE VerifyAccepts \/ NothingToVerify \/ GiveUp
  <2>1. effect' = effect /\ pc \in Recovering
    BY <1>4 DEF VerifyAccepts, NothingToVerify, GiveUp, Recovering
  <2>2. \A a \in Action : a # index => outcome'[a] = outcome[a]
    BY <1>4 DEF VerifyAccepts, NothingToVerify, GiveUp, Recovered, TypeOK
  <2>3. outcome'[index] # "success"
    BY <1>4, <1>0, <2>1 DEF VerifyAccepts, NothingToVerify, GiveUp, Recovered, TypeOK
  <2> QED
    BY <2>1, <2>2, <2>3 DEF EffectOK
<1>5. CASE \/ PageChanges \/ Raise \/ Start \/ Begin \/ Resolve \/ Unresolved
           \/ RecordFailure \/ Finish \/ TryStrategy \/ StrategyDeclines \/ StrategyFails
           \/ StrategySucceeds \/ VerifyRejects
  BY <1>1, <1>5 DEF PageChanges, Raise, Start, Begin, Resolve, Unresolved, RecordFailure,
                    Finish, TryStrategy, StrategyDeclines, StrategyFails, StrategySucceeds,
                    VerifyRejects
<1> QED
  BY <1>2, <1>3, <1>4, <1>5 DEF Next, Execute, Recover

LEMMA VerifiedStep ==
    ASSUME TypeOK, ProgressOK, RosterOK, RecoveryIsVerified, Next
    PROVE  RecoveryIsVerified'
<1> USE DEF Emit, Do, Settle
<1>0. pc \in Executing \cup Recovering => index \in Action /\ outcome[index] = "pending"
  BY DEF ProgressOK
<1>1. CASE UNCHANGED <<kind, outcome, verified, tried>>
  BY <1>1 DEF RecoveryIsVerified, Recorded
\* Of an action whose outcome is unchanged everything that counts is unchanged.
<1>2. ASSUME kind' = kind, verified \subseteq verified',
             \A a \in Action : a # index =>
                outcome'[a] = outcome[a] /\ tried'[a] = tried[a],
             index \in Action => \/ outcome'[index] # "recovered"
                                 \/ index \in verified'
                                 \/ /\ Recorded(index) = NoSelector
                                    /\ tried'[index][Len(tried'[index])] # "llm_reselect"
      PROVE  RecoveryIsVerified'
  <2> SUFFICES ASSUME NEW a \in Action, outcome'[a] = "recovered"
               PROVE  \/ a \in verified'
                      \/ Recorded(a) = NoSelector /\ tried'[a][Len(tried'[a])] # "llm_reselect"
    BY <1>2 DEF RecoveryIsVerified, Recorded
  <2>1. CASE a = index
    BY <1>2, <2>1
  <2>2. CASE a # index
    BY <1>2, <2>2 DEF RecoveryIsVerified
  <2> QED
    BY <2>1, <2>2
<1>3. CASE TryStrategy
  <2>1. index \in Action /\ outcome'[index] # "recovered"
    BY <1>3, <1>0 DEF TryStrategy, Recovering
  <2>2. kind' = kind /\ verified' = verified
    BY <1>3 DEF TryStrategy, fixed
  <2>3. \A a \in Action : a # index => outcome'[a] = outcome[a] /\ tried'[a] = tried[a]
    BY <1>3 DEF TryStrategy, TypeOK
  <2> QED
    BY <1>2, <2>1, <2>2, <2>3
<1>4. CASE Dispatch \/ GiveUp
  <2>1. index \in Action
    BY <1>4, <1>0 DEF Dispatch, GiveUp, Executing, Recovering
  <2>2. outcome'[index] # "recovered"
    BY <1>4, <2>1 DEF Dispatch, GiveUp, TypeOK
  <2>3. kind' = kind /\ verified' = verified
    BY <1>4 DEF Dispatch, GiveUp, fixed
  <2>4. \A a \in Action : a # index => outcome'[a] = outcome[a] /\ tried'[a] = tried[a]
    BY <1>4 DEF Dispatch, GiveUp, TypeOK
  <2> QED
    BY <1>2, <2>2, <2>3, <2>4
<1>5. CASE VerifyAccepts
  <2>1. kind' = kind /\ verified \subseteq verified' /\ index \in verified'
    BY <1>5 DEF VerifyAccepts, fixed
  <2>2. \A a \in Action : a # index => outcome'[a] = outcome[a] /\ tried'[a] = tried[a]
    BY <1>5 DEF VerifyAccepts, Recovered, TypeOK
  <2> QED
    BY <1>2, <2>1, <2>2
<1>6. CASE NothingToVerify
  <2>1. kind' = kind /\ verified' = verified /\ tried' = tried
    BY <1>6 DEF NothingToVerify, fixed
  <2>2. \A a \in Action : a # index => outcome'[a] = outcome[a]
    BY <1>6 DEF NothingToVerify, Recovered, TypeOK
  <2>3. claim = NoSelector /\ Recorded(index) = NoSelector
    BY <1>6 DEF NothingToVerify, VerifierSelector
  <2>4. tried[index][Len(tried[index])] # "llm_reselect"
    BY <1>6, <2>3 DEF NothingToVerify, RosterOK, NoSelector
  <2> QED
    BY <1>2, <2>1, <2>2, <2>3, <2>4
<1>7. CASE \/ PageChanges \/ Raise \/ Start \/ Begin \/ Resolve \/ Unresolved \/ Clear
           \/ DispatchFails \/ RecordFailure \/ Finish \/ StrategyDeclines \/ StrategyFails
           \/ StrategySucceeds \/ VerifyRejects
  BY <1>1, <1>7 DEF PageChanges, Raise, Start, Begin, Resolve, Unresolved, Clear,
                    DispatchFails, RecordFailure, Finish, StrategyDeclines, StrategyFails,
                    StrategySucceeds, VerifyRejects, fixed
<1> QED
  BY <1>3, <1>4, <1>5, <1>6, <1>7 DEF Next, Execute, Recover

-----------------------------------------------------------------------------
(* The strategies come in the order of the roster. *)

LEMMA TriedAppend ==
    ASSUME NEW s \in Seq(Strategy), NEW c \in Strategy, NEW rest \in SUBSET Strategy,
           InOrder(s), c \in rest, Precede(s, Len(s), rest)
    PROVE  LET more == Append(s, c)
           IN  /\ InOrder(more) /\ more # <<>> /\ more[Len(more)] = c
               /\ Precede(more, Len(more) - 1, rest)
               /\ Members(more) = Members(s) \cup {c}
<1> DEFINE n == Len(s)
           more == Append(s, c)
<1>1. /\ n \in Nat /\ Len(more) = n + 1 /\ more[n + 1] = c /\ more # <<>>
      /\ \A i \in 1..n : more[i] = s[i] /\ s[i] \in Strategy
  OBVIOUS
<1> HIDE DEF more
<1>2. \A i \in 1..n : Position[s[i]] < Position[c]
  BY DEF Precede
<1>3. InOrder(more)
  BY <1>1, <1>2, PositionType DEF InOrder
<1>4. Precede(more, n, rest)
  BY <1>1 DEF Precede
<1>5. Members(more) = Members(s) \cup {c}
  BY <1>1 DEF Members
<1> QED
  BY <1>1, <1>3, <1>4, <1>5 DEF more

\* When the strategy at work is done with, the cut moves past it.
LEMMA CutMoves ==
    ASSUME TypeOK, ProgressOK, RosterOK, pc \in {"attempting", "verifying"}
    PROVE  /\ Members(tried[index]) \cup (left \ {Current}) = AttemptRecovery
           /\ Precede(tried[index], Len(tried[index]), left \ {Current})
<1>1. index \in Action /\ tried[index] \in Seq(Strategy) /\ left \in SUBSET Strategy
  BY DEF ProgressOK, TypeOK, Recovering
<1> DEFINE s == tried[index]
<1>2. /\ left # {} /\ s # <<>> /\ s[Len(s)] = Current
      /\ Precede(s, Len(s) - 1, left) /\ Members(s) \cup left = AttemptRecovery
  BY DEF RosterOK, Recovering
<1>3. Len(s) \in Nat /\ Len(s) >= 1
  BY <1>1, <1>2
<1>4. Current \in left /\ \A t \in left \ {Current} : Position[Current] < Position[t]
  BY <1>1, <1>2, CurrentIsFirst
<1>5. Current \in Members(s)
  BY <1>2, <1>3 DEF Members
<1>6. \A i \in 1..Len(s) : i = Len(s) \/ i \in 1..(Len(s) - 1)
  BY <1>3
<1>7. Precede(s, Len(s), left \ {Current})
  BY <1>2, <1>4, <1>6 DEF Precede
<1> QED
  BY <1>2, <1>5, <1>7

LEMMA RosterStep ==
    ASSUME TypeOK, ProgressOK, RosterOK, Next
    PROVE  RosterOK'
<1> USE DEF Emit, Do, Settle
<1>0. pc \in Executing \cup Recovering => index \in Action /\ outcome[index] = "pending"
  BY DEF ProgressOK
\* Without a strategy at work, what was tried is in order as it was.
<1>1. ASSUME UNCHANGED <<tried, outcome>>
      PROVE  /\ \A a \in Action : InOrder(tried'[a])
             /\ \A a \in Action : outcome'[a] = "failed" /\ MaxDepth > 0 =>
                    \E m \in Mode : Members(tried'[a]) = Applicable(m)
  BY <1>1 DEF RosterOK
<1>2. CASE PageChanges
  <2>1. UNCHANGED <<pc, index, mode, left, tried, claim, outcome>>
    BY <1>2 DEF PageChanges
  <2>2. Current' = Current /\ AttemptRecovery' = AttemptRecovery
    BY <2>1 DEF Current, AttemptRecovery
  <2> QED
    BY <2>1, <2>2 DEF RosterOK
<1>3. CASE Raise \/ Finish \/ Start
  <2>1. UNCHANGED <<tried, outcome>> /\ pc' \in {"raised", "done", "next"}
    BY <1>3 DEF Raise, Finish, Start
  <2> QED
    BY <1>1, <2>1 DEF RosterOK, Executing, Recovering
<1>4. CASE Begin \/ Resolve \/ Unresolved \/ Clear \/ DispatchFails
  <2>1. UNCHANGED <<tried, outcome>>
    BY <1>4 DEF Begin, Resolve, Unresolved, Clear, DispatchFails
  <2>2. pc' \in Executing
    BY <1>4 DEF Begin, Resolve, Unresolved, Clear, DispatchFails, Fail, Executing
  <2>3. tried[index'] = <<>>
    <3>1. CASE Begin
      <4>1. index \in Nat /\ index' = index + 1 /\ index' \in Action
        BY <3>1, ReplayAssumption DEF Begin, TypeOK, Action
      <4> QED
        BY <4>1 DEF ProgressOK
    <3>2. CASE Resolve \/ Unresolved \/ Clear \/ DispatchFails
      <4>1. index' = index /\ pc \in Executing
        BY <3>2 DEF Resolve, Unresolved, Clear, DispatchFails, Executing
      <4> QED
        BY <4>1 DEF RosterOK
    <3> QED
      BY <1>4, <3>1, <3>2
  <2>4. pc' \notin Recovering /\ pc' \notin {"recovering", "attempting", "verifying"}
    BY <2>2 DEF Executing, Recovering
  <2> QED
    BY <1>1, <2>1, <2>3, <2>4 DEF RosterOK
<1>5. CASE RecordFailure
  <2>1. UNCHANGED <<tried, outcome, index, mode>> /\ left' = AttemptRecovery
        /\ pc = "failing" /\ pc' = "recovering"
    BY <1>5 DEF RecordFailure
  <2>2. tried[index] = <<>>
    BY <2>1 DEF RosterOK, Executing
  <2>3. Members(<<>>) = {} /\ Precede(<<>>, Len(<<>>), left')
    BY DEF Members, Precede
  <2>4. AttemptRecovery' = AttemptRecovery
    BY <2>1 DEF AttemptRecovery
  <2>5. Members(tried'[index']) \cup left' = AttemptRecovery'
    BY <2>1, <2>2, <2>3, <2>4
  <2>6. Precede(tried'[index'], Len(tried'[index']), left')
    BY <2>1, <2>2, <2>3
  <2> QED
    BY <1>1, <2>1, <2>5, <2>6 DEF RosterOK, Executing
<1>6. CASE TryStrategy
  <2>1. UNCHANGED <<outcome, index, mode, left>> /\ left # {}
        /\ pc = "recovering" /\ pc' = "attempting" /\ index \in Action
    BY <1>6, <1>0 DEF TryStrategy, Recovering
  <2> DEFINE s == tried[index]
             more == Append(s, Current)
  <2>2. tried'[index] = more /\ \A a \in Action : a # index => tried'[a] = tried[a]
    BY <1>6, <2>1 DEF TryStrategy, TypeOK
  <2>3. /\ s \in Seq(Strategy) /\ InOrder(s) /\ left \in SUBSET Strategy
        /\ Precede(s, Len(s), left) /\ Members(s) \cup left = AttemptRecovery
    BY <2>1 DEF TypeOK, RosterOK, Recovering
  <2>4. Current \in left
    BY <2>1, <2>3, CurrentIsFirst
  <2>5. /\ InOrder(more) /\ more # <<>> /\ more[Len(more)] = Current
        /\ Precede(more, Len(more) - 1, left)
        /\ Members(more) = Members(s) \cup {Current}
    BY <2>3, <2>4, TriedAppend
  <2>6. Current' = Current /\ AttemptRecovery' = AttemptRecovery
    BY <2>1 DEF Current, AttemptRecovery
  <2> HIDE DEF more
  <2>7. \A a \in Action : InOrder(tried'[a])
    BY <2>2, <2>5 DEF RosterOK
  <2>8. \A a \in Action : outcome'[a] = "failed" /\ MaxDepth > 0 =>
            \E m \in Mode : Members(tried'[a]) = Applicable(m)
    BY <1>0, <2>1, <2>2 DEF RosterOK, Recovering
  <2>9. Members(tried'[index']) \cup left' = AttemptRecovery'
    BY <2>1, <2>2, <2>3, <2>4, <2>5, <2>6
  <2> QED
    BY <2>1, <2>2, <2>5, <2>6, <2>7, <2>8, <2>9 DEF RosterOK, Executing
<1>7. CASE StrategyDeclines \/ StrategyFails \/ VerifyRejects
  <2>1. UNCHANGED <<tried, outcome, index, mode>> /\ left' = left \ {Current}
        /\ pc \in {"attempting", "verifying"} /\ pc' = "recovering"
    BY <1>7 DEF StrategyDeclines, StrategyFails, VerifyRejects
  <2>2. AttemptRecovery' = AttemptRecovery
    BY <2>1 DEF AttemptRecovery
  <2> QED
    BY <1>1, <2>1, <2>2, CutMoves DEF RosterOK, Executing
<1>8. CASE StrategySucceeds
  <2>1. UNCHANGED <<tried, outcome, index, mode, left>> /\ claim' \in Claims[Current]
        /\ pc = "attempting" /\ pc' = "verifying"
    BY <1>8 DEF StrategySucceeds
  <2>2. Current' = Current /\ AttemptRecovery' = AttemptRecovery
    BY <2>1 DEF Current, AttemptRecovery
  <2>3. Current = "llm_reselect" => claim' = "fresh"
    BY <2>1, ClaimType DEF TypeOK, RosterOK
  <2> QED
    BY <1>1, <2>1, <2>2, <2>3 DEF RosterOK, Executing, Recovering
<1>9. CASE Dispatch \/ VerifyAccepts \/ NothingToVerify
  <2>1. tried' = tried /\ pc' = "next" /\ index \in Action
    BY <1>9, <1>0 DEF Dispatch, VerifyAccepts, NothingToVerify, Recovered, Executing, Recovering
  <2>2. outcome'[index] # "failed" /\ \A a \in Action : a # index => outcome'[a] = outcome[a]
    BY <1>9, <2>1 DEF Dispatch, VerifyAccepts, NothingToVerify, Recovered, TypeOK
  <2>3. \A a \in Action : outcome'[a] = "failed" /\ MaxDepth > 0 =>
            \E m \in Mode : Members(tried'[a]) = Applicable(m)
    BY <2>1, <2>2 DEF RosterOK
  <2> QED
    BY <2>1, <2>3 DEF RosterOK, Executing, Recovering
<1>10. CASE GiveUp
  <2>1. tried' = tried /\ pc = "recovering" /\ pc' = "next" /\ left = {} /\ index \in Action
    BY <1>10, <1>0 DEF GiveUp, Recovering
  <2>2. \A a \in Action : a # index => outcome'[a] = outcome[a]
    BY <1>10 DEF GiveUp, TypeOK
  <2>3. MaxDepth > 0 => Members(tried[index]) = Applicable(mode) /\ mode \in Mode
    BY <2>1, ReplayAssumption DEF RosterOK, Recovering, AttemptRecovery, TypeOK
  <2>4. \A a \in Action : outcome'[a] = "failed" /\ MaxDepth > 0 =>
            \E m \in Mode : Members(tried'[a]) = Applicable(m)
    BY <2>1, <2>2, <2>3 DEF RosterOK
  <2> QED
    BY <2>1, <2>4 DEF RosterOK, Executing, Recovering
<1> QED
  BY <1>2, <1>3, <1>4, <1>5, <1>6, <1>7, <1>8, <1>9, <1>10 DEF Next, Execute, Recover

-----------------------------------------------------------------------------
(* The events tell the outcome. *)

LEMMA EventsStep ==
    ASSUME TypeOK, ProgressOK, RosterOK, EventsOK, Next
    PROVE  EventsOK'
<1> USE DEF Emit, Do, Settle
<1> DEFINE ev == events[index]
           n == Len(tried[index])
<1>0. pc \in Executing \cup Recovering =>
        /\ index \in Action /\ index <= index /\ outcome[index] = "pending"
        /\ ev \in Seq(Event) /\ n \in Nat /\ Tells(ev, n, "pending")
  BY ReplayAssumption DEF ProgressOK, EventsOK, TypeOK
\* The events of the other actions tell what they told.
<1>1. ASSUME index' = index,
             \A a \in Action : a # index =>
                /\ events'[a] = events[a] /\ tried'[a] = tried[a] /\ outcome'[a] = outcome[a],
             index \in Action => Tells(events'[index], Len(tried'[index]), outcome'[index])
      PROVE  \A a \in Action : a <= index' => Tells(events'[a], Len(tried'[a]), outcome'[a])
  BY <1>1 DEF EventsOK
<1>2. ASSUME UNCHANGED <<index, events, tried, outcome>>
      PROVE  \A a \in Action : a <= index' => Tells(events'[a], Len(tried'[a]), outcome'[a])
  BY <1>2 DEF EventsOK
<1>3. CASE PageChanges \/ Raise \/ Finish \/ Start
  <2>1. UNCHANGED <<index, events, tried, outcome>>
    BY <1>3 DEF PageChanges, Raise, Finish, Start
  <2>2. pc' = pc \/ pc' \in {"raised", "done", "next"}
    BY <1>3 DEF PageChanges, Raise, Finish, Start
  <2> QED
    BY <1>2, <2>1, <2>2 DEF EventsOK, Executing, Recovering
<1>4. CASE Begin
  <2>1. index \in Nat /\ index' = index + 1 /\ index' \in Action /\ pc' \in Executing
    BY <1>4, ReplayAssumption DEF Begin, TypeOK, Action, Executing
  <2>2. UNCHANGED <<tried, outcome>>
    BY <1>4 DEF Begin
  <2>3. events[index'] = <<>> /\ tried[index'] = <<>> /\ outcome[index'] = "pending"
    BY <2>1 DEF ProgressOK
  <2>4. /\ events'[index'] = Append(<<>>, "started")
        /\ \A a \in Action : a # index' => events'[a] = events[a]
    BY <1>4, <2>1, <2>3 DEF Begin, TypeOK
  <2>5. Append(<<>>, "started") = <<"started">> /\ Len(<<>>) = 0
    OBVIOUS
  <2>6. Tells(events'[index'], Len(tried'[index']), outcome'[index'])
    BY <2>2, <2>3, <2>4, <2>5, TellsStarted
  <2>7. \A a \in Action : a <= index' => a = index' \/ (a <= index /\ a # index')
    BY <2>1 DEF Action
  <2>8. \A a \in Action : a <= index' => Tells(events'[a], Len(tried'[a]), outcome'[a])
    BY <2>2, <2>4, <2>6, <2>7 DEF EventsOK
  <2> QED
    BY <2>1, <2>4, <2>5, <2>8 DEF EventsOK, Executing, Recovering
<1>5. CASE Resolve \/ Unresolved \/ Clear \/ DispatchFails
  <2>1. UNCHANGED <<index, events, tried, outcome>>
    BY <1>5 DEF Resolve, Unresolved, Clear, DispatchFails
  <2>2. pc \in Executing /\ pc' \in Executing
    BY <1>5 DEF Resolve, Unresolved, Clear, DispatchFails, Fail, Executing
  <2> QED
    BY <1>2, <2>1, <2>2 DEF EventsOK, Executing, Recovering
<1>6. CASE Dispatch
  <2>1. index' = index /\ tried' = tried /\ pc \in Executing /\ pc' = "next" /\ index \in Action
    BY <1>6, <1>0 DEF Dispatch, Executing
  <2>2. ev = <<"started">> /\ tried[index] = <<>>
    BY <2>1 DEF EventsOK, RosterOK
  <2>3. /\ events'[index] = Append(ev, "succeeded") /\ outcome'[index] = "success"
        /\ \A a \in Action : a # index => events'[a] = events[a] /\ outcome'[a] = outcome[a]
    BY <1>6, <2>1 DEF Dispatch, TypeOK
  <2>4. Tells(Append(<<"started">>, "succeeded"), 0, "success")
    BY TellsVerdict
  <2>5. Tells(events'[index], Len(tried'[index]), outcome'[index])
    BY <2>1, <2>2, <2>3, <2>4
  <2> QED
    BY <1>1, <2>1, <2>3, <2>5 DEF EventsOK, Executing, Recovering
<1>7. CASE RecordFailure
  <2>1. /\ index' = index /\ tried' = tried /\ outcome' = outcome
        /\ pc \in Executing /\ pc' = "recovering" /\ index \in Action
    BY <1>7, <1>0 DEF RecordFailure, Executing
  <2>2. ev = <<"started">> /\ tried[index] = <<>> /\ outcome[index] = "pending"
    BY <2>1, <1>0 DEF EventsOK, RosterOK
  <2>3. /\ events'[index] = Append(ev, "failed")
        /\ \A a \in Action : a # index => events'[a] = events[a]
    BY <1>7, <2>1 DEF RecordFailure, TypeOK
  <2> DEFINE more == Append(<<"started">>, "failed")
  <2>4. Tells(more, 0, "pending") /\ Len(more) = 2 /\ more[2] = "failed"
    BY TellsVerdict
  <2>5. Tells(events'[index], Len(tried'[index]), outcome'[index])
    BY <2>1, <2>2, <2>3, <2>4
  <2> QED
    BY <1>1, <2>1, <2>2, <2>3, <2>4, <2>5 DEF EventsOK, Executing, Recovering
<1>8. CASE TryStrategy
  <2>1. /\ index' = index /\ outcome' = outcome /\ pc \in Recovering /\ pc' = "attempting"
        /\ index \in Action /\ outcome[index] = "pending"
    BY <1>8, <1>0 DEF TryStrategy, Recovering
  <2> DEFINE more == Append(ev, "recovery_started")
  <2>2. /\ Tells(more, n + 1, "pending") /\ Len(more) > Len(ev)
        /\ more[Len(more)] = "recovery_started"
        /\ Len(ev) > 1 => more[2] = ev[2]
        /\ more \in Seq(Event)
    BY <1>0, <2>1, TellsRecovery
  <2>3. events'[index] = more /\ Len(tried'[index]) = n + 1
    <3>1. tried[index] \in Seq(Strategy) /\ tried'[index] = Append(tried[index], Current)
      BY <1>8, <2>1 DEF TryStrategy, TypeOK
    <3> QED
      BY <1>8, <2>1, <3>1 DEF TryStrategy, TypeOK
  <2>4. \A a \in Action : a # index => events'[a] = events[a] /\ tried'[a] = tried[a]
    BY <1>8 DEF TryStrategy, TypeOK
  <2>5. Len(ev) > 1 /\ ev[2] = "failed" /\ Len(ev) \in Nat /\ Len(more) \in Nat
    BY <1>0, <2>1, <2>2 DEF EventsOK
  <2> HIDE DEF more
  <2>6. Tells(events'[index], Len(tried'[index]), outcome'[index])
    BY <2>1, <2>2, <2>3
  <2>7. Len(more) > 1 /\ more[2] = "failed"
    BY <2>2, <2>5
  <2> QED
    BY <1>1, <2>1, <2>2, <2>3, <2>4, <2>6, <2>7 DEF EventsOK, Executing
<1>9. CASE StrategyDeclines \/ StrategySucceeds
  <2>1. UNCHANGED <<index, events, tried, outcome>>
        /\ pc = "attempting" /\ pc' \in {"recovering", "verifying"}
    BY <1>9 DEF StrategyDeclines, StrategySucceeds
  <2> QED
    BY <1>2, <2>1 DEF EventsOK, Executing, Recovering
<1>10. CASE StrategyFails \/ VerifyRejects
  <2>1. /\ index' = index /\ outcome' = outcome /\ tried' = tried
        /\ pc \in {"attempting", "verifying"} /\ pc' = "recovering"
    BY <1>10 DEF StrategyFails, VerifyRejects
  <2>2. pc \in Recovering /\ index \in Action /\ outcome[index] = "pending"
    BY <1>0, <2>1 DEF Recovering
  <2> DEFINE more == Append(ev, "recovery_failed")
  <2>3. ev[Len(ev)] = "recovery_started" /\ Len(ev) > 1 /\ ev[2] = "failed"
    BY <2>1, <2>2 DEF EventsOK
  <2>4. /\ Tells(more, n, "pending") /\ Len(more) > Len(ev)
        /\ more[2] = ev[2] /\ more \in Seq(Event)
    BY <1>0, <2>2, <2>3, TellsRecovery
  <2>5. events'[index] = more /\ \A a \in Action : a # index => events'[a] = events[a]
    BY <1>10, <2>2 DEF StrategyFails, VerifyRejects, TypeOK
  <2>6. Len(more) > 1
    BY <1>0, <2>2, <2>3, <2>4
  <2> HIDE DEF more
  <2>7. Tells(events'[index], Len(tried'[index]), outcome'[index])
    BY <2>1, <2>2, <2>4, <2>5
  <2> QED
    BY <1>1, <2>1, <2>3, <2>4, <2>5, <2>6, <2>7 DEF EventsOK, Executing
<1>11. CASE VerifyAccepts \/ NothingToVerify
  <2>1. index' = index /\ tried' = tried /\ pc = "verifying" /\ pc' = "next"
    BY <1>11 DEF VerifyAccepts, NothingToVerify, Recovered
  <2>2. pc \in Recovering /\ index \in Action
    BY <1>0, <2>1 DEF Recovering
  <2>3. ev[Len(ev)] = "recovery_started"
    BY <2>1 DEF EventsOK
  <2>4. Tells(Append(ev, "recovery_succeeded"), n, "recovered")
    BY <1>0, <2>2, <2>3, TellsRecovery
  <2>5. /\ events'[index] = Append(ev, "recovery_succeeded") /\ outcome'[index] = "recovered"
        /\ \A a \in Action : a # index => events'[a] = events[a] /\ outcome'[a] = outcome[a]
    BY <1>11, <2>2 DEF VerifyAccepts, NothingToVerify, Recovered, TypeOK
  <2>6. Tells(events'[index], Len(tried'[index]), outcome'[index])
    BY <2>1, <2>4, <2>5
  <2> QED
    BY <1>1, <2>1, <2>5, <2>6 DEF EventsOK, Executing, Recovering
<1>12. CASE GiveUp
  <2>1. index' = index /\ tried' = tried /\ events' = events /\ pc = "recovering" /\ pc' = "next"
    BY <1>12 DEF GiveUp
  <2>2. pc \in Recovering /\ index \in Action
    BY <1>0, <2>1 DEF Recovering
  <2>3. outcome'[index] = "failed" /\ \A a \in Action : a # index => outcome'[a] = outcome[a]
    BY <1>12, <2>2 DEF GiveUp, TypeOK
  <2>4. Tells(ev, n, "failed")
    BY <1>0, <2>2, TellsGivenUp DEF EventsOK
  <2>5. Tells(events'[index], Len(tried'[index]), outcome'[index])
    BY <2>1, <2>3, <2>4
  <2> QED
    BY <1>1, <2>1, <2>3, <2>5 DEF EventsOK, Executing, Recovering
<1> QED
  BY <1>3, <1>4, <1>5, <1>6, <1>7, <1>8, <1>9, <1>10, <1>11, <1>12 DEF Next, Execute, Recover

-----------------------------------------------------------------------------
(* The invariant, and what follows from it. *)

LEMMA ReplayInvInit == ASSUME Init PROVE ReplayInv
<1> USE ReplayAssumption
<1>1. TypeOK
  BY DEF Init, TypeOK, PC, Mode, Selector, NoSelector, Strategy, Event
<1>2. ProgressOK
  BY DEF Init, ProgressOK, Executing, Recovering, Action
<1>3. EffectOK
  BY DEF Init, EffectOK
<1>4. RosterOK
  <2>1. InOrder(<<>>)
    BY DEF InOrder
  <2> QED
    BY <2>1 DEF Init, RosterOK, Executing, Recovering
<1>5. EventsOK
  BY DEF Init, EventsOK, Executing, Recovering, Action
<1>6. RecoveryIsVerified
  BY DEF Init, RecoveryIsVerified
<1> QED
  BY <1>1, <1>2, <1>3, <1>4, <1>5, <1>6 DEF ReplayInv

LEMMA ReplayInvStep == ASSUME ReplayInv, [Next]_vars PROVE ReplayInv'
<1>1. CASE Next
  BY <1>1, TypeStep, ProgressStep, EffectStep, RosterStep, EventsStep, VerifiedStep DEF ReplayInv
<1>2. CASE UNCHANGED vars
  <2> USE <1>2 DEF vars
  <2>1. TypeOK'
    BY DEF ReplayInv, TypeOK
  <2>2. ProgressOK'
    BY DEF ReplayInv, ProgressOK
  <2>3. EffectOK'
    BY DEF ReplayInv, EffectOK
  <2>4. RosterOK'
    BY DEF ReplayInv, RosterOK, Current, AttemptRecovery
  <2>5. EventsOK'
    BY DEF ReplayInv, EventsOK
  <2>6. RecoveryIsVerified'
    BY DEF ReplayInv, RecoveryIsVerified, Recorded
  <2> QED
    BY <2>1, <2>2, <2>3, <2>4, <2>5, <2>6 DEF ReplayInv
<1> QED
  BY <1>1, <1>2

\* The loop, the roster and the events of a replay stay in the invariant.
THEOREM ReplayInvariant == Spec => []ReplayInv
BY ReplayInvInit, ReplayInvStep, PTL DEF Spec

\* A recovery counts only if the verifier has seen the selector resolve, or if
\* there is no selector and no LLM answer to verify (recovery/engine.py:157).
THEOREM RecoveriesAreVerified == Spec => []RecoveryIsVerified
<1>1. ReplayInv => RecoveryIsVerified
  BY DEF ReplayInv
<1> QED
  BY <1>1, ReplayInvariant, PTL

\* What counts as successful took place, and a finished run has settled every
\* action and is reported as failed if and only if one of them failed (browser/executor.py:214-240).
THEOREM StatusIsTrue == Spec => []StatusTellsOutcomes
<1>1. ReplayInv => StatusTellsOutcomes
  <2> SUFFICES ASSUME ReplayInv PROVE StatusTellsOutcomes
    OBVIOUS
  <2>1. \A a \in Action : outcome[a] = "success" => effect[a] = "full"
    BY DEF ReplayInv, EffectOK
  <2>2. ASSUME pc = "done"
        PROVE  /\ \A a \in Action : outcome[a] # "pending"
               /\ status = "failed" <=> \E a \in Action : outcome[a] = "failed"
    <3>1. /\ index = NActions /\ \A a \in Action : a < index => outcome[a] # "pending"
          /\ \A a \in Action : a = index => outcome[a] # "pending"
          /\ status = "failed" <=> \E a \in Action : outcome[a] = "failed"
      BY <2>2 DEF ReplayInv, ProgressOK
    <3>2. \A a \in Action : a < NActions \/ a = NActions
      BY ReplayAssumption DEF Action
    <3> QED
      BY <3>1, <3>2
  <2> QED
    BY <2>1, <2>2 DEF StatusTellsOutcomes
<1> QED
  BY <1>1, ReplayInvariant, PTL

\* Cheap strategies come first, none twice, and all that apply before the action
\* is given up (recovery/engine.py:60, 89, 98).
THEOREM CheapOnesComeFirst == Spec => []CheapestFirst
<1>1. ReplayInv => CheapestFirst
  <2> SUFFICES ASSUME ReplayInv, NEW a \in Action
               PROVE  /\ \A i, j \in 1..Len(tried[a]) :
                            i < j => /\ CostTier[tried[a][i]] <= CostTier[tried[a][j]]
                                     /\ tried[a][i] # tried[a][j]
                      /\ outcome[a] = "failed" /\ MaxDepth > 0 =>
                            \E m \in Mode :
                                {tried[a][i] : i \in 1..Len(tried[a])} = Applicable(m)
    BY DEF CheapestFirst
  <2>1. tried[a] \in Seq(Strategy) /\ InOrder(tried[a])
    BY DEF ReplayInv, TypeOK, RosterOK
  <2>2. ASSUME NEW i \in 1..Len(tried[a]), NEW j \in 1..Len(tried[a]), i < j
        PROVE  CostTier[tried[a][i]] <= CostTier[tried[a][j]] /\ tried[a][i] # tried[a][j]
    <3>1. tried[a][i] \in Strategy /\ tried[a][j] \in Strategy
      BY <2>1
    <3>2. Position[tried[a][i]] < Position[tried[a][j]]
      BY <2>1, <2>2 DEF InOrder
    <3>3. tried[a][i] # tried[a][j]
      BY <3>1, <3>2, PositionType
    <3> QED
      BY <3>1, <3>2, <3>3, LaterCostsMore
  <2> QED
    BY <2>2 DEF ReplayInv, RosterOK, Members
<1> QED
  BY <1>1, ReplayInvariant, PTL

\* An event that can be at one place only is counted at most once.
LEMMA CountedOnce ==
    ASSUME NEW s, NEW e, NEW k, \A i \in 1..Len(s) : s[i] = e => i = k
    PROVE  Count(s, e) = IF k \in 1..Len(s) /\ s[k] = e THEN 1 ELSE 0
<1> DEFINE S == {i \in 1..Len(s) : s[i] = e}
<1>1. S = IF k \in 1..Len(s) /\ s[k] = e THEN {k} ELSE {}
  OBVIOUS
<1>2. Cardinality({k}) = 1 /\ Cardinality({}) = 0
  BY FS_Singleton, FS_EmptySet
<1> QED
  BY <1>1, <1>2 DEF Count

\* The events of an action are one start, one verdict, and the strategies one
\* after the other, with recovery_succeeded as the last word exactly when the
\* action is recovered (browser/executor.py:306-350, recovery/engine.py:98-184).
THEOREM EventsAreTrue == Spec => []EventsTellOutcome
<1>1. ReplayInv => EventsTellOutcome
  <2> SUFFICES ASSUME ReplayInv, NEW a \in Action, NEW ev, ev = events[a]
               PROVE  /\ outcome[a] = "pending" \/ ev[1] = "started"
                      /\ Count(ev, "started") <= 1
                      /\ Count(ev, "succeeded") + Count(ev, "failed") <= 1
                      /\ Count(ev, "recovery_started") = Len(tried[a])
                      /\ \A i \in 1..Len(ev) :
                            ev[i] \in {"recovery_failed", "recovery_succeeded"} =>
                                ev[i - 1] = "recovery_started"
                      /\ outcome[a] = "success" <=> ev # <<>> /\ ev[Len(ev)] = "succeeded"
                      /\ outcome[a] = "recovered" <=>
                            ev # <<>> /\ ev[Len(ev)] = "recovery_succeeded"
                      /\ outcome[a] = "failed" => Count(ev, "failed") = 1
    BY DEF EventsTellOutcome
  <2>1. CASE a <= index
    <3>1. Tells(ev, Len(tried[a]), outcome[a]) /\ ev \in Seq(Event)
      BY <2>1 DEF ReplayInv, EventsOK, TypeOK
    <3>2. Len(ev) \in Nat /\ Len(ev) >= 1 /\ ev # <<>> /\ ev[1] = "started"
      BY <3>1 DEF Tells
    <3>3. \A i \in 1..Len(ev) : i = 1 \/ i \in 2..Len(ev)
      BY <3>2
    <3>4. \A i \in 1..Len(ev) : /\ ev[i] = "started" => i = 1
                                /\ ev[i] \in {"succeeded", "failed"} => i = 2
      BY <3>1, <3>2, <3>3 DEF Tells
    <3>5. Count(ev, "started") = IF 1 \in 1..Len(ev) /\ ev[1] = "started" THEN 1 ELSE 0
      BY <3>4, CountedOnce
    <3>6. /\ Count(ev, "succeeded") = IF 2 \in 1..Len(ev) /\ ev[2] = "succeeded" THEN 1 ELSE 0
          /\ Count(ev, "failed") = IF 2 \in 1..Len(ev) /\ ev[2] = "failed" THEN 1 ELSE 0
      BY <3>4, CountedOnce
    <3>7. Count(ev, "succeeded") + Count(ev, "failed") <= 1
      BY <3>6
    <3>8. outcome[a] = "failed" => Count(ev, "failed") = 1
      BY <3>1, <3>2, <3>6 DEF Tells
    <3> QED
      BY <3>1, <3>2, <3>5, <3>7, <3>8 DEF Tells
  <2>2. CASE ~(a <= index)
    <3>1. a > index
      BY <2>2, ReplayAssumption DEF ReplayInv, TypeOK, Action
    <3>2. ev = <<>> /\ tried[a] = <<>> /\ outcome[a] = "pending"
      BY <3>1 DEF ReplayInv, ProgressOK
    <3>3. \A e : Count(<<>>, e) = 0
      <4>1. ASSUME NEW e PROVE {i \in 1..Len(<<>>) : <<>>[i] = e} = {}
        OBVIOUS
      <4> QED
        BY <4>1, FS_EmptySet DEF Count
    <3> QED
      BY <3>2, <3>3
  <2> QED
    BY <2>1, <2>2
<1> QED
  BY <1>1, ReplayInvariant, PTL

\* Page, outcomes, events and status of a run agree at every step (browser/executor.py:193-358,
\* recovery/engine.py:98-184).
THEOREM RunsAreToldTruly == Spec => []ToldAsItHappened
<1>1. EventsTellOutcome /\ StatusTellsOutcomes => ToldAsItHappened
  BY DEF ToldAsItHappened
<1> QED
  BY <1>1, StatusIsTrue, EventsAreTrue, PTL

=============================================================================
