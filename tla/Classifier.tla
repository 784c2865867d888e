------------------------------ MODULE Classifier -----------------------------
(***************************************************************************)
(* The hybrid classifier (classifier/llm) as `rpa classify` runs it: one     *)
(* batch, one task per action.  A task asks the heuristic rules, then the   *)
(* response cache, then the daily budget, then, with a permit of the        *)
(* semaphore, the model; it stores the answer in four places at once and    *)
(* merges it with what the rules said.  Cache and budget are in memory: no  *)
(* caller gives the classifier a Redis client.  Money is counted in small   *)
(* units.                                                                   *)
(***************************************************************************)
EXTENDS Integers, Sequences, FiniteSets

CONSTANTS
    Tasks,
    Key,            \* Key[t]: _cache_key of its action
    Rule,           \* Rule[t]: confidence of the heuristic verdict, in %; 0 if no rule fires
    Threshold,      \* classifier_confidence_threshold
    Answers,        \* confidence of the candidates that the model gives
    MaxConcurrency, \* llm_max_concurrency
    MaxAttempts,    \* of ExponentialBackoffRetry
    Cap,            \* llm_daily_budget_usd
    Costs,          \* what a call may cost
    MaxCost,        \* the most of these
    CacheSize,      \* max_size of InMemoryResponseCache
    MaxDays,        \* bound: days
    MaxFailures,    \* bound: stores that fail
    Abstain         \* an answer that the parser makes nothing of

ASSUME ClassifierAssumption ==
    /\ IsFiniteSet(Tasks)
    /\ Cap \in Nat \ {0} /\ MaxCost \in Nat /\ Costs \subseteq 0..MaxCost /\ MaxDays \in Nat \ {0}
    /\ MaxConcurrency \in Nat \ {0} /\ MaxAttempts \in Nat \ {0} /\ CacheSize \in Nat \ {0}
    /\ Rule \in [Tasks -> 0..100]
    /\ Abstain \notin Answers

VARIABLES
    pc,         \* where each task is
    attempts,   \* calls that it has made in its retry loop
    permits,    \* of the semaphore
    response,   \* what the model has answered it, and what that costs
    pending,    \* stores that its answer is on its way to
    verdict,    \* its result
    cache,      \* _store, in order of insertion
    day,
    spend,      \* spend[d]: the counter of day d
    peak,       \* history: the most tasks that were in flight at once
    given,      \* history: <<key, answer>> that the model has given
    broken,     \* history: tasks whose call failed for good
    failures

vars == <<pc, attempts, permits, response, pending, verdict, cache, day, spend, peak, given,
          broken, failures>>

-----------------------------------------------------------------------------
Stores == {"call", "cache", "budget"}   \* "call": the copies in bronze and silver
Steps == {"start", "check", "queued", "calling", "persist", "done"}
Days == 1..MaxDays
Parsed == Answers \cup {Abstain}         \* what the parser can make of a response
Response == [answer : Parsed, cost : Costs \cup {0}]
Entry == [key : {Key[t] : t \in Tasks}, answer : Parsed]
NoResponse == [answer |-> Abstain, cost |-> 0]
Verdict == [source : {"none", "llm", "rule", "error"}, confidence : Answers \cup 0..100]
NoVerdict == [source |-> "none", confidence |-> 0]
Error == [source |-> "error", confidence |-> 0]

TypeOK ==
    /\ pc \in [Tasks -> Steps]
    /\ attempts \in [Tasks -> 0..MaxAttempts]
    /\ permits \in 0..MaxConcurrency
    /\ response \in [Tasks -> Response]
    /\ pending \in [Tasks -> SUBSET Stores]
    /\ verdict \in [Tasks -> Verdict]
    /\ cache \in Seq(Entry)
    /\ day \in Days
    /\ spend \in [Days -> Nat]
    /\ peak \in Nat

Init ==
    /\ pc = [t \in Tasks |-> "start"]
    /\ attempts = [t \in Tasks |-> 0]
    /\ permits = MaxConcurrency
    /\ response = [t \in Tasks |-> NoResponse]
    /\ pending = [t \in Tasks |-> {}]
    /\ verdict = [t \in Tasks |-> NoVerdict]
    /\ cache = <<>>
    /\ day = 1
    /\ spend = [d \in Days |-> 0]
    /\ peak = 0
    /\ given = {}
    /\ broken = {}
    /\ failures = 0

Go(t, step) == pc' = [pc EXCEPT ![t] = step]

Return(t, v) == Go(t, "done") /\ verdict' = [verdict EXCEPT ![t] = v]

-----------------------------------------------------------------------------
\* Mutant: the model is believed whatever it says.
MergeModelWins(t, answer) ==
    IF answer # Abstain THEN [source |-> "llm", confidence |-> answer]
    ELSE [source |-> "rule", confidence |-> Rule[t]]

\* HighestConfidenceMerge; a rule that did not fire is no candidate.
Merge(t, answer) ==
    IF answer # Abstain /\ answer >= Rule[t] THEN [source |-> "llm", confidence |-> answer]
    ELSE [source |-> IF Rule[t] > 0 THEN "rule" ELSE "none", confidence |-> Rule[t]]

\* The rules are sure enough.
BelieveRules(t) ==
    /\ pc[t] = "start"
    /\ Rule[t] >= Threshold
    /\ Return(t, [source |-> "rule", confidence |-> Rule[t]])
    /\ UNCHANGED <<attempts, permits, response, pending, cache, day, spend, peak, given, broken,
                   failures>>

Cached(key) == {i \in DOMAIN cache : cache[i].key = key}
Without(i) == SubSeq(cache, 1, i - 1) \o SubSeq(cache, i + 1, Len(cache))

\* classify of the rules and the lookup: nothing comes between them.
AskCache(t) == pc[t] = "start" /\ Rule[t] < Threshold

CacheHit(t) ==
    /\ AskCache(t)
    /\ \E i \in Cached(Key[t]) : Return(t, Merge(t, cache[i].answer))
    /\ UNCHANGED <<attempts, permits, response, pending, cache, day, spend, peak, given, broken,
                   failures>>

\* No entry, or one that has expired, which goes.
CacheMiss(t) ==
    /\ AskCache(t)
    /\ \/ Cached(Key[t]) = {} /\ UNCHANGED cache
       \/ \E i \in Cached(Key[t]) : cache' = Without(i)
    /\ Go(t, "check")
    /\ UNCHANGED <<attempts, permits, response, pending, verdict, day, spend, peak, given, broken,
                   failures>>

\* The tasks that have passed the check and are not charged yet.
InFlight == {t \in Tasks : pc[t] \in {"queued", "calling"} \/ "budget" \in pending[t]}

Launch(t) ==
    /\ Go(t, "queued")
    /\ peak' = IF Cardinality(InFlight) < peak THEN peak ELSE Cardinality(InFlight) + 1

\* Mutant: the budget is not checked.
CheckNothing(t) ==
    /\ pc[t] = "check"
    /\ Launch(t)
    /\ UNCHANGED <<attempts, permits, response, pending, verdict, cache, day, spend, given,
                   broken, failures>>

\* check_or_raise, before the semaphore
CheckBudget(t) ==
    /\ pc[t] = "check"
    /\ spend[day] < Cap
    /\ Launch(t)
    /\ UNCHANGED <<attempts, permits, response, pending, verdict, cache, day, spend, given,
                   broken, failures>>

\* LLMBudgetExceeded leaves classify; the batch makes an error of it.
BudgetExceeded(t) ==
    /\ pc[t] = "check"
    /\ spend[day] >= Cap
    /\ Return(t, Error)
    /\ UNCHANGED <<attempts, permits, response, pending, cache, day, spend, peak, given, broken,
                   failures>>

-----------------------------------------------------------------------------
(* The call, with its retries, inside the semaphore. *)

Acquire(t) ==
    /\ pc[t] = "queued"
    /\ permits > 0
    /\ permits' = permits - 1
    /\ attempts' = [attempts EXCEPT ![t] = 1]
    /\ Go(t, "calling")
    /\ UNCHANGED <<response, pending, verdict, cache, day, spend, peak, given, broken, failures>>

\* The task leaves the semaphore, and the retry loop.
Release(t) ==
    /\ permits' = permits + 1
    /\ attempts' = [attempts EXCEPT ![t] = 0]

\* The model answers; what the parser makes of it decides nothing here.
Respond(t, r) ==
    /\ pc[t] = "calling"
    /\ Release(t)
    /\ response' = [response EXCEPT ![t] = r]
    /\ pending' = [pending EXCEPT ![t] = Stores]
    /\ given' = given \cup {<<Key[t], r.answer>>}
    /\ Go(t, "persist")
    /\ UNCHANGED <<verdict, cache, day, spend, peak, broken, failures>>

\* A rate limit, a status error or a timeout: the task sleeps and calls again,
\* and holds its permit all the while.
Retry(t) ==
    /\ pc[t] = "calling"
    /\ attempts[t] < MaxAttempts
    /\ attempts' = [attempts EXCEPT ![t] = @ + 1]
    /\ UNCHANGED <<pc, permits, response, pending, verdict, cache, day, spend, peak, given, broken,
                   failures>>

\* Mutant: a call that fails keeps its permit.
CallFailsHolding(t) ==
    /\ pc[t] = "calling"
    /\ Return(t, Error)
    /\ broken' = broken \cup {t}
    /\ UNCHANGED <<attempts, permits, response, pending, cache, day, spend, peak, given, failures>>

\* The last attempt, or a failure that is not retried.
CallFails(t) ==
    /\ pc[t] = "calling"
    /\ Release(t)
    /\ Return(t, Error)
    /\ broken' = broken \cup {t}
    /\ UNCHANGED <<response, pending, cache, day, spend, peak, given, failures>>

-----------------------------------------------------------------------------
(* _persist: a task group of four, each of which catches its own failure. *)

\* The oldest entry makes room for a new key; a known key keeps its place.
CacheWith(key, answer) ==
    IF Cached(key) # {}
    THEN [i \in DOMAIN cache |-> IF i \in Cached(key) THEN [key |-> key, answer |-> answer]
                                 ELSE cache[i]]
    ELSE Append(IF Len(cache) >= CacheSize THEN Tail(cache) ELSE cache,
                [key |-> key, answer |-> answer])

Stored(t, s) == pending' = [pending EXCEPT ![t] = @ \ {s}]

\* write_bronze and write_silver, which nothing here reads
WriteCall(t) ==
    /\ "call" \in pending[t]
    /\ Stored(t, "call")
    /\ UNCHANGED <<pc, attempts, permits, response, verdict, cache, day, spend, peak, given, broken,
                   failures>>

\* An answer that the parser abstains on is cached as any other.
SetCache(t) ==
    /\ "cache" \in pending[t]
    /\ cache' = CacheWith(Key[t], response[t].answer)
    /\ Stored(t, "cache")
    /\ UNCHANGED <<pc, attempts, permits, response, verdict, day, spend, peak, given, broken, failures>>

\* record_spend, on the day on which it happens
RecordSpend(t) ==
    /\ "budget" \in pending[t]
    /\ spend' = [spend EXCEPT ![day] = @ + response[t].cost]
    /\ Stored(t, "budget")
    /\ UNCHANGED <<pc, attempts, permits, response, verdict, cache, day, peak, given, broken, failures>>

StoreFails(t, s) ==
    /\ s \in pending[t]
    /\ failures < MaxFailures
    /\ failures' = failures + 1
    /\ Stored(t, s)
    /\ UNCHANGED <<pc, attempts, permits, response, verdict, cache, day, spend, peak, given, broken>>

\* The task group is over.
Finish(t) ==
    /\ pc[t] = "persist"
    /\ pending[t] = {}
    /\ Return(t, Merge(t, response[t].answer))
    /\ response' = [response EXCEPT ![t] = NoResponse]
    /\ UNCHANGED <<attempts, permits, pending, cache, day, spend, peak, given, broken, failures>>

NewDay ==
    /\ day < MaxDays
    /\ day' = day + 1
    /\ UNCHANGED <<pc, attempts, permits, response, pending, verdict, cache, spend, peak, given,
                   broken, failures>>

-----------------------------------------------------------------------------
TaskStep(t) ==
    \/ BelieveRules(t)
    \/ CacheHit(t) \/ CacheMiss(t)
    \/ CheckBudget(t) \/ BudgetExceeded(t)
    \/ Acquire(t)
    \/ \E answer \in Parsed, cost \in Costs :
            Respond(t, [answer |-> answer, cost |-> cost])
    \/ Retry(t) \/ CallFails(t)
    \/ WriteCall(t) \/ SetCache(t) \/ RecordSpend(t)
    \/ \E s \in Stores : StoreFails(t, s)
    \/ Finish(t)

Next == NewDay \/ \E t \in Tasks : TaskStep(t)

Spec == Init /\ [][Next]_vars

\* Every call ends, by an answer, a failure or request_timeout_s, every sleep
\* ends, and an event loop with a task that can run runs one.
FairSpec == Spec /\ WF_vars(\E t \in Tasks : TaskStep(t))

-----------------------------------------------------------------------------
(* Properties. *)

\* The check and the charge are far apart (cost.py:91, cost.py:103), and the
\* check comes before the semaphore: every task can pass it before any is
\* charged.  A day still costs less than the cap and one call for each of the
\* tasks that were in flight at once, those that began the day before included.
BudgetBound == \A d \in Days : spend[d] < Cap + MaxCost * peak

\* A result is never made up: one from the model is an answer that the model gave
\* to a question with the same key, though perhaps to another task, before or since evicted
\* from the cache; none is less sure than the rules were; and an error means a
\* call that failed for good or a day whose budget was gone.
VerdictSound ==
    \A t \in Tasks : pc[t] = "done" =>
        /\ verdict[t].source = "llm" => <<Key[t], verdict[t].confidence>> \in given
        /\ verdict[t].source # "error" => verdict[t].confidence >= Rule[t]
        /\ verdict[t].source = "error" => t \in broken \/ \E d \in Days : spend[d] >= Cap

\* classify_batch returns a result for every action, whatever calls and stores
\* fail and however few permits there are (hybrid.py:122, classifier.py:135).
BatchCompletes == <>(\A t \in Tasks : pc[t] = "done")

-----------------------------------------------------------------------------
(* The inductive invariant behind the theorems of ClassifierProofs.         *)

Calling == {t \in Tasks : pc[t] = "calling"}

\* The permits left and those held add up, and only a task whose call has been
\* answered has anything to store.
PermitsOK ==
    /\ permits + Cardinality(Calling) = MaxConcurrency
    /\ \A t \in Tasks : pending[t] # {} => pc[t] = "persist"

\* Today's bill and the most that the tasks in flight may still add to it stay
\* within the bound, and nothing has been charged to a day to come.
BillOK ==
    /\ Cardinality(InFlight) <= peak
    /\ spend[day] + MaxCost * Cardinality(InFlight) < Cap + MaxCost * peak
    /\ \A d \in Days : d > day => spend[d] = 0

\* What is cached, or about to be, was given for that key, which is cached once.
AnswersOK ==
    /\ \A i \in 1..Len(cache) : <<cache[i].key, cache[i].answer>> \in given
    /\ \A i, k \in 1..Len(cache) : cache[i].key = cache[k].key => i = k
    /\ \A t \in Tasks : pc[t] = "persist" => <<Key[t], response[t].answer>> \in given

ClassifierInv ==
    /\ TypeOK
    /\ PermitsOK
    /\ BillOK
    /\ AnswersOK
    /\ BudgetBound
    /\ VerdictSound
=============================================================================
