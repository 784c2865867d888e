--------------------------- MODULE ClassifierProofs --------------------------
(***************************************************************************)
(* Theorems about Classifier, for every batch, every cap and every number   *)
(* of permits, attempts, cache entries and days.                            *)
(***************************************************************************)
EXTENDS Classifier, FiniteSetTheorems, SequenceTheorems, TLAPS

-----------------------------------------------------------------------------
(* Arithmetic of the bill. *)

\* One call more costs one call more.
LEMMA OneMore ==
    ASSUME NEW a \in Nat, NEW n \in Nat
    PROVE  a * n \in Nat /\ a * (n + 1) = a * n + a
  OBVIOUS

\* More calls cost no less.
LEMMA MoreCostsMore ==
    ASSUME NEW a \in Nat, NEW m \in Nat, NEW n \in Nat, m <= n
    PROVE  a * m <= a * n
<1>1. PICK k \in Nat : n = m + k
  <2>1. n - m \in Nat /\ n = m + (n - m)
    OBVIOUS
  <2> QED
    BY <2>1
<1>2. a * n = a * m + a * k /\ a * m \in Nat /\ a * k \in Nat
  BY <1>1
<1> QED
  BY <1>2

\* An answer costs no more than MaxCost.
LEMMA CostBounded ==
    ASSUME TypeOK, NEW t \in Tasks
    PROVE  response[t].cost \in Nat /\ response[t].cost <= MaxCost
<1>1. response[t].cost \in Costs \cup {0}
  BY DEF TypeOK, Response
<1>2. \A x \in Costs : x \in 0..MaxCost
  BY ClassifierAssumption
<1>3. MaxCost \in Nat
  BY ClassifierAssumption
<1> QED
  BY <1>1, <1>2, <1>3

-----------------------------------------------------------------------------
(* The cache. *)

\* An entry leaves the cache: the others keep their order, and no key is there
\* twice that was not before.
LEMMA EntryRemoved ==
    ASSUME TypeOK, NEW i \in 1..Len(cache), cache' = Without(i),
           \A k, l \in 1..Len(cache) : cache[k].key = cache[l].key => k = l
    PROVE  /\ cache' \in Seq(Entry)
           /\ \A k \in 1..Len(cache') : \E l \in 1..Len(cache) : cache'[k] = cache[l]
           /\ \A k, l \in 1..Len(cache') : cache'[k].key = cache'[l].key => k = l
<1> DEFINE front == SubSeq(cache, 1, i - 1)
           back == SubSeq(cache, i + 1, Len(cache))
<1>0. /\ Len(cache) \in Nat /\ cache \in Seq(Entry)
      /\ \A k \in 1..Len(cache) : cache[k] \in Entry
  BY LenProperties DEF TypeOK
<1>1. /\ front \in Seq(Entry) /\ Len(front) = i - 1
      /\ \A k \in 1..(i - 1) : front[k] = cache[k]
  <2>1. \A k \in 1..(i - 1) : cache[k] \in Entry
    BY <1>0
  <2>2. /\ front \in Seq(Entry)
        /\ Len(front) = IF 1 <= i - 1 THEN i - 1 - 1 + 1 ELSE 0
        /\ \A k \in 1..(i - 1 - 1 + 1) : front[k] = cache[1 + k - 1]
    BY <1>0, <2>1, SubSeqProperties
  <2> QED
    BY <1>0, <2>2
<1>2. /\ back \in Seq(Entry) /\ Len(back) = Len(cache) - i
      /\ \A k \in 1..(Len(cache) - i) : back[k] = cache[i + k]
  <2>1. \A k \in (i + 1)..Len(cache) : cache[k] \in Entry
    BY <1>0
  <2>2. /\ back \in Seq(Entry)
        /\ Len(back) = IF i + 1 <= Len(cache) THEN Len(cache) - (i + 1) + 1 ELSE 0
        /\ \A k \in 1..(Len(cache) - (i + 1) + 1) : back[k] = cache[i + 1 + k - 1]
    BY <1>0, <2>1, SubSeqProperties
  <2> QED
    BY <1>0, <2>2
<1> HIDE DEF front, back
<1>3. cache' = front \o back
  BY DEF Without, front, back
<1>4. /\ cache' \in Seq(Entry) /\ Len(cache') = Len(cache) - 1
      /\ \A k \in 1..Len(cache') : cache'[k] = cache[IF k < i THEN k ELSE k + 1]
  <2>1. /\ front \o back \in Seq(Entry)
        /\ Len(front \o back) = Len(front) + Len(back)
        /\ \A k \in 1..(Len(front) + Len(back)) :
              (front \o back)[k] = IF k <= Len(front) THEN front[k] ELSE back[k - Len(front)]
    <3>1. front \in Seq(Entry) /\ back \in Seq(Entry)
      BY <1>1, <1>2
    <3> QED
      BY <3>1, ConcatProperties
  <2>2. Len(front) + Len(back) = Len(cache) - 1
    BY <1>0, <1>1, <1>2
  <2>3. ASSUME NEW k \in 1..(Len(cache) - 1)
        PROVE  cache'[k] = cache[IF k < i THEN k ELSE k + 1]
    <3>1. CASE k < i
      BY <1>0, <1>1, <1>3, <2>1, <2>2, <3>1
    <3>2. CASE ~(k < i)
      <4>1. k - (i - 1) \in 1..(Len(cache) - i) /\ i + (k - (i - 1)) = k + 1
        BY <1>0, <3>2
      <4>2. (front \o back)[k] = back[k - (i - 1)]
        BY <1>0, <1>1, <2>1, <2>2, <3>2
      <4> QED
        BY <1>2, <1>3, <3>2, <4>1, <4>2
    <3> QED
      BY <3>1, <3>2
  <2> QED
    BY <1>3, <2>1, <2>2, <2>3
<1>5. \A k \in 1..Len(cache') : (IF k < i THEN k ELSE k + 1) \in 1..Len(cache)
  BY <1>0, <1>4
<1>6. \A k, l \in 1..Len(cache') : cache'[k].key = cache'[l].key => k = l
  <2> SUFFICES ASSUME NEW k \in 1..Len(cache'), NEW l \in 1..Len(cache'),
                      cache'[k].key = cache'[l].key
               PROVE  k = l
    OBVIOUS
  <2>1. (IF k < i THEN k ELSE k + 1) = (IF l < i THEN l ELSE l + 1)
    BY <1>4, <1>5
  <2> QED
    BY <1>0, <1>4, <2>1
<1> QED
  BY <1>4, <1>5, <1>6

\* An answer enters the cache: what is cached is that answer or was cached
\* before, and a key is there once if every key was.
LEMMA EntryStored ==
    ASSUME TypeOK, NEW t \in Tasks, NEW answer \in Parsed, cache' = CacheWith(Key[t], answer),
           \A k, l \in 1..Len(cache) : cache[k].key = cache[l].key => k = l
    PROVE  /\ cache' \in Seq(Entry)
           /\ \A k \in 1..Len(cache') :
                 \/ cache'[k] = [key |-> Key[t], answer |-> answer]
                 \/ \E l \in 1..Len(cache) : cache'[k] = cache[l]
           /\ \A k, l \in 1..Len(cache') : cache'[k].key = cache'[l].key => k = l
<1> DEFINE new == [key |-> Key[t], answer |-> answer]
<1>0. /\ Len(cache) \in Nat /\ cache \in Seq(Entry) /\ DOMAIN cache = 1..Len(cache)
      /\ \A k \in 1..Len(cache) : cache[k] \in Entry
  BY LenProperties DEF TypeOK
<1>3. new \in Entry /\ new.key = Key[t]
  BY DEF Entry
<1> HIDE DEF new
<1>1. CASE Cached(Key[t]) # {}
  <2>1. cache' = [k \in 1..Len(cache) |-> IF k \in Cached(Key[t]) THEN new ELSE cache[k]]
    BY <1>0, <1>3, <1>1 DEF CacheWith, new
  <2>2. cache' \in [1..Len(cache) -> Entry]
    BY <1>0, <1>3, <2>1
  <2>3. cache' \in Seq(Entry)
    BY <1>0, <1>3, <2>2, SeqDef
  <2>4. Len(cache') = Len(cache)
    <3>1. 1..Len(cache') = 1..Len(cache) /\ Len(cache') \in Nat
      BY <2>1, <2>3, LenProperties
    <3> QED
      BY <1>0, <1>3, <3>1
  <2>5. \A k \in 1..Len(cache) : cache'[k].key = cache[k].key
    BY <1>0, <1>3, <2>1 DEF Cached
  <2> QED
    BY <2>1, <2>3, <2>4, <2>5 DEF new
<1>2. CASE Cached(Key[t]) = {}
  <2> DEFINE old == IF Len(cache) >= CacheSize THEN Tail(cache) ELSE cache
  <2>1. /\ old \in Seq(Entry) /\ Len(old) \in Nat
        /\ \E s \in {0, 1} : \A k \in 1..Len(old) : k + s \in 1..Len(cache) /\ old[k] = cache[k + s]
    <3>1. CASE Len(cache) >= CacheSize
      <4>1. cache # <<>>
        BY <1>0, <1>3, <3>1, EmptySeq, ClassifierAssumption
      <4>2. /\ Tail(cache) \in Seq(Entry) /\ Len(Tail(cache)) = Len(cache) - 1
            /\ \A k \in 1..Len(Tail(cache)) : Tail(cache)[k] = cache[k + 1]
        BY <1>0, <1>3, <4>1, HeadTailProperties
      <4>3. Len(cache) > 0
        BY <1>0, <1>3, <3>1, ClassifierAssumption
      <4>4. \A k \in 1..Len(Tail(cache)) : k + 1 \in 1..Len(cache)
        BY <1>0, <1>3, <4>2, <4>3
      <4> QED
        BY <1>0, <1>3, <3>1, <4>2, <4>3, <4>4
    <3>2. CASE ~(Len(cache) >= CacheSize)
      BY <1>0, <1>3, <3>2
    <3> QED
      BY <3>1, <3>2
  <2>2. PICK s \in {0, 1} : \A k \in 1..Len(old) : k + s \in 1..Len(cache) /\ old[k] = cache[k + s]
    BY <2>1
  <2>3. cache' = Append(old, new)
    BY <1>2 DEF CacheWith, new
  <2> HIDE DEF old
  <2>4. /\ cache' \in Seq(Entry) /\ Len(cache') = Len(old) + 1
        /\ \A k \in 1..Len(old) : cache'[k] = old[k]
        /\ cache'[Len(old) + 1] = new
    BY <1>0, <1>3, <2>1, <2>3, AppendProperties
  <2>5. \A k \in 1..Len(old) : cache[k + s].key # Key[t]
    BY <1>0, <1>3, <1>2, <2>2 DEF Cached
  <2>6. \A k \in 1..Len(cache') : k \in 1..Len(old) \/ k = Len(old) + 1
    BY <2>1, <2>4
  <2>7. \A k, l \in 1..Len(cache') : cache'[k].key = cache'[l].key => k = l
    <3> SUFFICES ASSUME NEW k \in 1..Len(cache'), NEW l \in 1..Len(cache'),
                        cache'[k].key = cache'[l].key
                 PROVE  k = l
      OBVIOUS
    <3>1. CASE k \in 1..Len(old) /\ l \in 1..Len(old)
      <4>1. k + s = l + s
        <5>1. /\ k + s \in 1..Len(cache) /\ l + s \in 1..Len(cache)
              /\ cache'[k] = cache[k + s] /\ cache'[l] = cache[l + s]
          BY <2>2, <2>4, <3>1
        <5> QED
          BY <5>1
      <4> QED
        BY <2>1, <4>1
    <3>2. CASE k = Len(old) + 1 \/ l = Len(old) + 1
      BY <1>0, <1>3, <2>2, <2>4, <2>5, <2>6, <3>2
    <3> QED
      BY <2>6, <3>1, <3>2
  <2> QED
    BY <2>2, <2>4, <2>6, <2>7 DEF new
<1> QED
  BY <1>1, <1>2

-----------------------------------------------------------------------------
(* The semaphore. *)

\* Permits are conserved: a task takes one when it begins to call and gives it
\* back when the call is over, however it ends.
LEMMA PermitsStep ==
    ASSUME ClassifierInv, Next
    PROVE  PermitsOK' /\ permits' \in 0..MaxConcurrency
<1> USE DEF Go, Return
<1>0. /\ TypeOK /\ PermitsOK /\ pc \in [Tasks -> Steps] /\ pending \in [Tasks -> SUBSET Stores]
      /\ permits \in 0..MaxConcurrency /\ MaxConcurrency \in Nat
      /\ IsFiniteSet(Calling) /\ Cardinality(Calling) \in Nat
  BY ClassifierAssumption, FS_Subset, FS_CardinalityType DEF ClassifierInv, TypeOK, Calling
<1>1. ASSUME permits' = permits, Calling' = Calling,
             \A u \in Tasks : pending'[u] # {} => pc'[u] = "persist"
      PROVE  PermitsOK' /\ permits' \in 0..MaxConcurrency
  BY <1>0, <1>1 DEF PermitsOK
<1>2. ASSUME NEW t \in Tasks,
             BelieveRules(t) \/ CacheHit(t) \/ CacheMiss(t) \/ CheckBudget(t) \/ BudgetExceeded(t)
      PROVE  PermitsOK' /\ permits' \in 0..MaxConcurrency
  <2>1. permits' = permits /\ pending' = pending /\ \A u \in Tasks \ {t} : pc'[u] = pc[u]
    BY <1>0, <1>2 DEF BelieveRules, CacheHit, CacheMiss, CheckBudget, BudgetExceeded, Launch
  <2>2. pc[t] \in {"start", "check"} /\ pc'[t] \in {"check", "queued", "done"}
    BY <1>0, <1>2 DEF BelieveRules, CacheHit, CacheMiss, CheckBudget, BudgetExceeded, Launch, AskCache
  <2>3. Calling' = Calling
    BY <2>1, <2>2 DEF Calling
  <2> QED
    BY <1>0, <1>1, <2>1, <2>2, <2>3 DEF PermitsOK
<1>3. ASSUME NEW t \in Tasks, Acquire(t)
      PROVE  PermitsOK' /\ permits' \in 0..MaxConcurrency
  <2>1. /\ permits > 0 /\ permits' = permits - 1 /\ pending' = pending
        /\ pc[t] = "queued" /\ pc'[t] = "calling" /\ \A u \in Tasks \ {t} : pc'[u] = pc[u]
    BY <1>0, <1>3 DEF Acquire
  <2>2. Calling' = Calling \union {t} /\ t \notin Calling
    BY <2>1 DEF Calling
  <2>3. Cardinality(Calling') = Cardinality(Calling) + 1
    BY <1>0, <2>2, FS_AddElement
  <2> QED
    BY <1>0, <2>1, <2>3 DEF PermitsOK
<1>4. ASSUME NEW t \in Tasks, CallFails(t) \/ \E r \in Response : Respond(t, r)
      PROVE  PermitsOK' /\ permits' \in 0..MaxConcurrency
  <2>1. /\ permits' = permits + 1
        /\ pc[t] = "calling" /\ pc'[t] # "calling" /\ \A u \in Tasks \ {t} : pc'[u] = pc[u]
    BY <1>0, <1>4 DEF CallFails, Respond, Release
  <2>2. Calling' = Calling \ {t} /\ t \in Calling
    BY <2>1 DEF Calling
  <2>3. Cardinality(Calling') = Cardinality(Calling) - 1 /\ Cardinality(Calling') \in Nat
    BY <1>0, <2>2, FS_RemoveElement, FS_CardinalityType
  <2>4. \A u \in Tasks : pending'[u] # {} => pc'[u] = "persist"
    <3>1. CASE CallFails(t)
      BY <1>0, <2>1, <3>1 DEF CallFails, PermitsOK
    <3>2. CASE \E r \in Response : Respond(t, r)
      BY <1>0, <2>1, <3>2 DEF Respond, PermitsOK
    <3> QED
      BY <1>4, <3>1, <3>2
  <2> QED
    BY <1>0, <2>1, <2>3, <2>4 DEF PermitsOK
<1>5. ASSUME NEW t \in Tasks,
             \/ WriteCall(t) \/ SetCache(t) \/ RecordSpend(t) \/ Retry(t)
             \/ \E s \in Stores : StoreFails(t, s)
      PROVE  PermitsOK' /\ permits' \in 0..MaxConcurrency
  <2>1. permits' = permits /\ pc' = pc /\ \A u \in Tasks : pending'[u] \subseteq pending[u]
    BY <1>0, <1>5 DEF WriteCall, SetCache, RecordSpend, Retry, StoreFails, Stored
  <2> QED
    BY <1>0, <1>1, <2>1 DEF PermitsOK, Calling
<1>6. ASSUME NEW t \in Tasks, Finish(t)
      PROVE  PermitsOK' /\ permits' \in 0..MaxConcurrency
  BY <1>0, <1>1, <1>6 DEF Finish, PermitsOK, Calling
<1>7. ASSUME NewDay
      PROVE  PermitsOK' /\ permits' \in 0..MaxConcurrency
  BY <1>0, <1>1, <1>7 DEF NewDay, PermitsOK, Calling
<1>8. \A answer \in Parsed, cost \in Costs : [answer |-> answer, cost |-> cost] \in Response
  BY DEF Response
<1> QED
  BY <1>2, <1>3, <1>4, <1>5, <1>6, <1>7, <1>8 DEF Next, TaskStep

-----------------------------------------------------------------------------
(* Verdicts and types. *)

\* The result of a merge is a verdict, no less sure than the rules, and one of
\* the model only if the model gave it.
LEMMA MergeSound ==
    ASSUME NEW t \in Tasks, NEW answer \in Parsed
    PROVE  /\ Merge(t, answer) \in Verdict
           /\ Merge(t, answer).source # "error"
           /\ Merge(t, answer).confidence >= Rule[t]
           /\ Merge(t, answer).source = "llm" => Merge(t, answer).confidence = answer
<1>1. Rule[t] \in 0..100
  BY ClassifierAssumption
<1>2. CASE answer # Abstain /\ answer >= Rule[t]
  BY <1>2 DEF Merge, Verdict, Parsed
<1>3. CASE ~(answer # Abstain /\ answer >= Rule[t])
  BY <1>1, <1>3 DEF Merge, Verdict
<1> QED
  BY <1>2, <1>3

\* Types are preserved.
LEMMA TypeStep ==
    ASSUME ClassifierInv, Next
    PROVE  TypeOK'
<1> USE ClassifierAssumption DEF Go, Return, Steps, Stores
<1>0. /\ TypeOK /\ permits' \in 0..MaxConcurrency /\ AnswersOK
      /\ Len(cache) \in Nat /\ DOMAIN cache = 1..Len(cache)
      /\ \A i \in 1..Len(cache) : cache[i].answer \in Parsed
      /\ Error \in Verdict
  <2>1. cache \in Seq(Entry) /\ TypeOK /\ AnswersOK
    BY DEF ClassifierInv, TypeOK
  <2>2. /\ Len(cache) \in Nat /\ DOMAIN cache = 1..Len(cache)
        /\ \A i \in 1..Len(cache) : cache[i] \in Entry
    BY <2>1, LenProperties
  <2>3. \A e \in Entry : e.answer \in Parsed
    BY DEF Entry
  <2>4. Error \in Verdict
    BY DEF Error, Verdict
  <2> QED
    BY <2>1, <2>2, <2>3, <2>4, PermitsStep
<1>1. ASSUME NEW t \in Tasks, BelieveRules(t)
      PROVE  TypeOK'
  <2>1. [source |-> "rule", confidence |-> Rule[t]] \in Verdict
    BY DEF Verdict
  <2> QED
    BY <1>0, <1>1, <2>1 DEF TypeOK, BelieveRules
<1>2. ASSUME NEW t \in Tasks, CacheHit(t)
      PROVE  TypeOK'
  <2>1. PICK i \in 1..Len(cache) : Return(t, Merge(t, cache[i].answer))
    BY <1>0, <1>2 DEF CacheHit, Cached
  <2>2. Merge(t, cache[i].answer) \in Verdict
    BY <1>0, MergeSound
  <2> QED
    BY <1>0, <1>2, <2>1, <2>2 DEF TypeOK, CacheHit
<1>3. ASSUME NEW t \in Tasks, CacheMiss(t)
      PROVE  TypeOK'
  <2>1. cache' \in Seq(Entry)
    <3>1. CASE cache' = cache
      BY <1>0, <3>1 DEF TypeOK
    <3>2. CASE \E i \in Cached(Key[t]) : cache' = Without(i)
      BY <1>0, <3>2, EntryRemoved DEF Cached, AnswersOK
    <3> QED
      BY <1>3, <3>1, <3>2 DEF CacheMiss
  <2> QED
    BY <1>0, <1>3, <2>1 DEF TypeOK, CacheMiss
<1>4. ASSUME NEW t \in Tasks, CheckBudget(t)
      PROVE  TypeOK'
  <2>1. Cardinality(InFlight) \in Nat
    BY FS_Subset, FS_CardinalityType DEF InFlight
  <2>2. peak' \in Nat
    BY <1>0, <1>4, <2>1 DEF TypeOK, CheckBudget, Launch
  <2> QED
    BY <1>0, <1>4, <2>2 DEF TypeOK, CheckBudget, Launch
<1>5. ASSUME NEW t \in Tasks, BudgetExceeded(t)
      PROVE  TypeOK'
  BY <1>0, <1>5 DEF TypeOK, BudgetExceeded
<1>6. ASSUME NEW t \in Tasks, Acquire(t)
      PROVE  TypeOK'
  BY <1>0, <1>6 DEF TypeOK, Acquire
<1>7. ASSUME NEW t \in Tasks, NEW r \in Response, Respond(t, r)
      PROVE  TypeOK'
  BY <1>0, <1>7 DEF TypeOK, Respond, Release
<1>8. ASSUME NEW t \in Tasks, Retry(t)
      PROVE  TypeOK'
  BY <1>0, <1>8 DEF TypeOK, Retry
<1>9. ASSUME NEW t \in Tasks, CallFails(t)
      PROVE  TypeOK'
  BY <1>0, <1>9 DEF TypeOK, CallFails, Release
<1>10. ASSUME NEW t \in Tasks, WriteCall(t)
       PROVE  TypeOK'
  BY <1>0, <1>10 DEF TypeOK, WriteCall, Stored
<1>11. ASSUME NEW t \in Tasks, SetCache(t)
       PROVE  TypeOK'
  <2>1. response[t].answer \in Parsed
    BY <1>0 DEF TypeOK, Response
  <2>2. cache' \in Seq(Entry)
    BY <1>0, <1>11, <2>1, EntryStored DEF SetCache, AnswersOK
  <2> QED
    BY <1>0, <1>11, <2>2 DEF TypeOK, SetCache, Stored
<1>12. ASSUME NEW t \in Tasks, RecordSpend(t)
       PROVE  TypeOK'
  <2>1. response[t].cost \in Nat
    BY <1>0, CostBounded
  <2>2. spend' \in [Days -> Nat]
    BY <1>0, <1>12, <2>1 DEF TypeOK, RecordSpend
  <2> QED
    BY <1>0, <1>12, <2>2 DEF TypeOK, RecordSpend, Stored
<1>13. ASSUME NEW t \in Tasks, NEW s \in Stores, StoreFails(t, s)
       PROVE  TypeOK'
  BY <1>0, <1>13 DEF TypeOK, StoreFails, Stored
<1>14. ASSUME NEW t \in Tasks, Finish(t)
       PROVE  TypeOK'
  <2>1. Merge(t, response[t].answer) \in Verdict /\ NoResponse \in Response
    BY <1>0, MergeSound DEF TypeOK, Response, NoResponse, Parsed
  <2> QED
    BY <1>0, <1>14, <2>1 DEF TypeOK, Finish
<1>15. ASSUME NewDay
       PROVE  TypeOK'
  BY <1>0, <1>15 DEF TypeOK, NewDay, Days
<1>16. \A answer \in Parsed, cost \in Costs : [answer |-> answer, cost |-> cost] \in Response
  BY DEF Response
<1> QED
  BY <1>1, <1>2, <1>3, <1>4, <1>5, <1>6, <1>7, <1>8, <1>9, <1>10, <1>11, <1>12, <1>13, <1>14,
     <1>15, <1>16 DEF Next, TaskStep

-----------------------------------------------------------------------------
(* The bill. *)

\* Who has passed the check is in flight until it is charged, its call or its
\* charge has failed: passing it raises the peak that bounds the bill, a charge
\* moves what one call may cost from the flight to the bill, and a new day begins
\* with an empty bill and the flight of the day before.
LEMMA BillStep ==
    ASSUME ClassifierInv, Next
    PROVE  BillOK' /\ BudgetBound'
<1> USE ClassifierAssumption DEF Go, Return
<1> DEFINE n == Cardinality(InFlight)
<1>0. /\ TypeOK /\ PermitsOK /\ BillOK /\ BudgetBound
      /\ IsFiniteSet(InFlight) /\ n \in Nat /\ peak \in Nat /\ n <= peak
      /\ day \in Days /\ spend \in [Days -> Nat] /\ MaxCost \in Nat /\ Cap \in Nat \ {0}
      /\ \A d \in Days : d \in Nat
  BY FS_Subset, FS_CardinalityType DEF ClassifierInv, TypeOK, InFlight, BillOK, Days
<1>1. /\ MaxCost * n \in Nat /\ MaxCost * peak \in Nat /\ MaxCost * n <= MaxCost * peak
      /\ MaxCost * (n + 1) = MaxCost * n + MaxCost
      /\ n > 0 => MaxCost * (n - 1) = MaxCost * n - MaxCost /\ MaxCost * (n - 1) \in Nat
  <2> HIDE DEF n
  <2>1. /\ MaxCost * n \in Nat /\ MaxCost * peak \in Nat /\ MaxCost * n <= MaxCost * peak
        /\ MaxCost * (n + 1) = MaxCost * n + MaxCost
    BY <1>0, OneMore, MoreCostsMore
  <2>2. ASSUME n > 0
        PROVE  MaxCost * (n - 1) = MaxCost * n - MaxCost /\ MaxCost * (n - 1) \in Nat
    <3>1. n - 1 \in Nat /\ (n - 1) + 1 = n
      BY <1>0, <2>2
    <3>2. MaxCost * (n - 1) \in Nat /\ MaxCost * ((n - 1) + 1) = MaxCost * (n - 1) + MaxCost
      BY <1>0, <3>1, OneMore
    <3> QED
      BY <1>0, <2>1, <3>1, <3>2
  <2> QED
    BY <2>1, <2>2
\* Nothing is charged, and nobody enters the flight.
<1>2. ASSUME day' = day, spend' = spend, peak' = peak, InFlight' \subseteq InFlight
      PROVE  BillOK' /\ BudgetBound'
  <2>1. Cardinality(InFlight') \in Nat /\ Cardinality(InFlight') <= n
    BY <1>0, <1>2, FS_Subset, FS_CardinalityType
  <2> DEFINE m == Cardinality(InFlight')
  <2>2. MaxCost * m \in Nat /\ MaxCost * m <= MaxCost * n
    <3> HIDE DEF m, n
    <3>1. m \in Nat /\ m <= n
      BY <2>1 DEF m, n
    <3> QED
      BY <1>0, <3>1, OneMore, MoreCostsMore
  <2> QED
    BY <1>0, <1>1, <1>2, <2>1, <2>2 DEF BillOK, BudgetBound
<1>3. ASSUME NEW t \in Tasks,
             BelieveRules(t) \/ CacheHit(t) \/ CacheMiss(t) \/ BudgetExceeded(t)
      PROVE  BillOK' /\ BudgetBound'
  <2>1. /\ UNCHANGED <<day, spend, peak, pending>>
        /\ \A u \in Tasks : pc'[u] \in {"queued", "calling"} => pc[u] \in {"queued", "calling"}
    BY <1>0, <1>3 DEF TypeOK, BelieveRules, CacheHit, CacheMiss, BudgetExceeded
  <2> QED
    BY <1>2, <2>1 DEF InFlight
<1>4. ASSUME NEW t \in Tasks, CheckBudget(t)
      PROVE  BillOK' /\ BudgetBound'
  <2>1. /\ UNCHANGED <<day, spend, pending>> /\ spend[day] < Cap
        /\ peak' = IF n < peak THEN peak ELSE n + 1
        /\ pc[t] = "check" /\ pc'[t] = "queued" /\ \A u \in Tasks \ {t} : pc'[u] = pc[u]
    BY <1>0, <1>4 DEF TypeOK, CheckBudget, Launch
  <2>2. InFlight' = InFlight \union {t} /\ t \notin InFlight
    BY <1>0, <2>1 DEF InFlight, PermitsOK
  <2>3. Cardinality(InFlight') = n + 1
    BY <1>0, <2>2, FS_AddElement
  <2>4. peak' \in Nat /\ n + 1 <= peak' /\ peak <= peak'
    BY <1>0, <2>1
  <2>5. /\ MaxCost * peak' \in Nat /\ MaxCost * peak <= MaxCost * peak'
        /\ MaxCost * (n + 1) <= MaxCost * peak' /\ MaxCost * (n + 1) \in Nat
    <3> HIDE DEF n
    <3>0. n + 1 \in Nat
      BY <1>0
    <3>1. MaxCost * peak' \in Nat /\ MaxCost * (n + 1) \in Nat
      BY <1>0, <2>4, <3>0, OneMore
    <3>2. MaxCost * peak <= MaxCost * peak'
      BY <1>0, <2>4, MoreCostsMore
    <3>3. MaxCost * (n + 1) <= MaxCost * peak'
      BY <1>0, <2>4, <3>0, MoreCostsMore
    <3> QED
      BY <3>1, <3>2, <3>3
  <2>6. \A d \in Days : spend[d] < Cap + MaxCost * peak'
    BY <1>0, <1>1, <2>5 DEF BudgetBound
  <2> QED
    BY <1>0, <1>1, <2>1, <2>3, <2>4, <2>5, <2>6 DEF BillOK, BudgetBound
<1>5. ASSUME NEW t \in Tasks,
             \/ Acquire(t) \/ Retry(t) \/ CallFails(t) \/ WriteCall(t) \/ SetCache(t) \/ Finish(t)
             \/ \E s \in Stores : StoreFails(t, s)
      PROVE  BillOK' /\ BudgetBound'
  <2>1. /\ UNCHANGED <<day, spend, peak>>
        /\ \A u \in Tasks : pending'[u] \subseteq pending[u]
    BY <1>0, <1>5 DEF TypeOK, Acquire, Retry, CallFails, WriteCall, SetCache, Finish, StoreFails, Stored
  <2>2. \A u \in Tasks : pc'[u] \in {"queued", "calling"} => pc[u] \in {"queued", "calling"}
    BY <1>0, <1>5 DEF TypeOK, Acquire, Retry, CallFails, WriteCall, SetCache, Finish, StoreFails
  <2> QED
    BY <1>2, <2>1, <2>2 DEF InFlight
<1>6. ASSUME NEW t \in Tasks, NEW r \in Response, Respond(t, r)
      PROVE  BillOK' /\ BudgetBound'
  <2>1. /\ UNCHANGED <<day, spend, peak>>
        /\ pc[t] = "calling" /\ \A u \in Tasks \ {t} : pc'[u] = pc[u] /\ pending'[u] = pending[u]
    BY <1>0, <1>6 DEF TypeOK, Respond
  <2> QED
    BY <1>2, <2>1 DEF InFlight
<1>7. ASSUME NEW t \in Tasks, RecordSpend(t)
      PROVE  BillOK' /\ BudgetBound'
  <2>0. /\ UNCHANGED <<day, peak, pc>> /\ "budget" \in pending[t]
        /\ pending'[t] = pending[t] \ {"budget"} /\ \A u \in Tasks \ {t} : pending'[u] = pending[u]
        /\ spend' = [spend EXCEPT ![day] = @ + response[t].cost]
    BY <1>0, <1>7 DEF TypeOK, RecordSpend, Stored
  <2>1. response[t].cost \in Nat /\ response[t].cost <= MaxCost
    BY <1>0, CostBounded
  <2>2. InFlight' = InFlight \ {t} /\ t \in InFlight
    BY <1>0, <2>0 DEF InFlight, PermitsOK
  <2>3. n > 0 /\ Cardinality(InFlight') = n - 1
    <3>1. n # 0
      BY <1>0, <2>2, FS_EmptySet
    <3>2. Cardinality(InFlight \ {t}) = n - 1
      BY <1>0, <2>2, FS_RemoveElement
    <3> QED
      BY <1>0, <2>2, <3>1, <3>2
  <2>4. /\ spend'[day] = spend[day] + response[t].cost
        /\ \A d \in Days : d # day => spend'[d] = spend[d]
    BY <1>0, <2>0
  <2>5. spend'[day] + MaxCost * (n - 1) < Cap + MaxCost * peak
    <3> HIDE DEF n
    <3> QED
      BY <1>0, <1>1, <2>1, <2>3, <2>4 DEF BillOK, n
  <2>6. \A d \in Days : spend'[d] < Cap + MaxCost * peak
    <3>1. spend[day] + response[t].cost \in Nat
      BY <1>0, <2>1
    <3>2. spend'[day] < Cap + MaxCost * peak
      <4> HIDE DEF n
      <4> QED
        BY <1>0, <1>1, <2>3, <2>4, <2>5, <3>1
    <3> QED
      BY <2>4, <3>2, <1>0 DEF BudgetBound
  <2>7. \A d \in Days : d > day => spend'[d] = 0
    BY <1>0, <2>4 DEF BillOK
  <2> QED
    BY <1>0, <2>0, <2>3, <2>5, <2>6, <2>7 DEF BillOK, BudgetBound
<1>8. ASSUME NewDay
      PROVE  BillOK' /\ BudgetBound'
  <2>1. /\ UNCHANGED <<pc, pending, spend, peak>> /\ day' = day + 1 /\ day' \in Days
    BY <1>0, <1>8 DEF NewDay, Days
  <2>2. InFlight' = InFlight
    BY <2>1 DEF InFlight
  <2>3. spend[day'] = 0
    BY <1>0, <2>1 DEF BillOK
  <2>4. BudgetBound' /\ Cardinality(InFlight') <= peak'
    BY <1>0, <2>1, <2>2 DEF BudgetBound
  <2>5. spend'[day'] + MaxCost * Cardinality(InFlight') < Cap + MaxCost * peak'
    <3>1. 0 + MaxCost * n < Cap + MaxCost * peak
      <4> HIDE DEF n
      <4> QED
        BY <1>0, <1>1
    <3> QED
      BY <2>1, <2>2, <2>3, <3>1
  <2>6. \A d \in Days : d > day' => spend'[d] = 0
    BY <1>0, <2>1 DEF BillOK
  <2> QED
    BY <2>4, <2>5, <2>6 DEF BillOK
<1>9. \A answer \in Parsed, cost \in Costs : [answer |-> answer, cost |-> cost] \in Response
  BY DEF Response
<1> QED
  BY <1>3, <1>4, <1>5, <1>6, <1>7, <1>8, <1>9 DEF Next, TaskStep

-----------------------------------------------------------------------------
(* Answers and verdicts. *)

\* What is cached was given for its key: an answer is given before it is stored,
\* and nothing that was given is forgotten.
LEMMA AnswersStep ==
    ASSUME ClassifierInv, Next
    PROVE  AnswersOK' /\ given \subseteq given'
<1> USE DEF Go, Return
<1>0. TypeOK /\ PermitsOK /\ AnswersOK
  BY DEF ClassifierInv
<1>1. ASSUME given' = given, cache' = cache,
             \A u \in Tasks : pc'[u] = "persist" => pc[u] = "persist" /\ response'[u] = response[u]
      PROVE  AnswersOK' /\ given \subseteq given'
  BY <1>0, <1>1 DEF AnswersOK
<1>2. ASSUME NEW t \in Tasks,
             \/ BelieveRules(t) \/ CacheHit(t) \/ CheckBudget(t) \/ BudgetExceeded(t) \/ Acquire(t)
             \/ Retry(t) \/ CallFails(t) \/ WriteCall(t) \/ RecordSpend(t)
             \/ \E s \in Stores : StoreFails(t, s)
      PROVE  AnswersOK' /\ given \subseteq given'
  <2>1. given' = given /\ cache' = cache /\ response' = response
    BY <1>2 DEF BelieveRules, CacheHit, CheckBudget, BudgetExceeded, Acquire, Retry, CallFails,
                WriteCall, RecordSpend, StoreFails
  <2>2. \A u \in Tasks : pc'[u] = "persist" => pc[u] = "persist"
    BY <1>0, <1>2 DEF TypeOK, BelieveRules, CacheHit, CheckBudget, BudgetExceeded, Acquire, Retry,
                      CallFails, WriteCall, RecordSpend, StoreFails, Launch
  <2> QED
    BY <1>1, <2>1, <2>2
<1>3. ASSUME NEW t \in Tasks, Finish(t)
      PROVE  AnswersOK' /\ given \subseteq given'
  <2>1. \A u \in Tasks : pc'[u] = "persist" => pc[u] = "persist" /\ response'[u] = response[u]
    BY <1>0, <1>3 DEF TypeOK, Finish
  <2> QED
    BY <1>1, <1>3, <2>1 DEF Finish
<1>4. ASSUME NEW t \in Tasks, CacheMiss(t)
      PROVE  AnswersOK' /\ given \subseteq given'
  <2>1. given' = given /\ response' = response /\ \A u \in Tasks : pc'[u] = "persist" => pc[u] = "persist"
    BY <1>0, <1>4 DEF TypeOK, CacheMiss
  <2>2. CASE cache' = cache
    BY <1>1, <2>1, <2>2
  <2>3. CASE \E i \in Cached(Key[t]) : cache' = Without(i)
    <3>1. PICK i \in 1..Len(cache) : cache' = Without(i)
      BY <1>0, <2>3, LenProperties DEF Cached, TypeOK
    <3>2. /\ \A k \in 1..Len(cache') : \E l \in 1..Len(cache) : cache'[k] = cache[l]
          /\ \A k, l \in 1..Len(cache') : cache'[k].key = cache'[l].key => k = l
      BY <1>0, <3>1, EntryRemoved DEF AnswersOK
    <3> QED
      BY <1>0, <2>1, <3>2 DEF AnswersOK
  <2> QED
    BY <1>4, <2>2, <2>3 DEF CacheMiss
<1>5. ASSUME NEW t \in Tasks, SetCache(t)
      PROVE  AnswersOK' /\ given \subseteq given'
  <2>1. given' = given /\ response' = response /\ pc' = pc /\ pc[t] = "persist"
    BY <1>0, <1>5 DEF SetCache, PermitsOK
  <2>2. response[t].answer \in Parsed
    BY <1>0 DEF TypeOK, Response
  <2>3. /\ \A k \in 1..Len(cache') :
              \/ cache'[k] = [key |-> Key[t], answer |-> response[t].answer]
              \/ \E l \in 1..Len(cache) : cache'[k] = cache[l]
        /\ \A k, l \in 1..Len(cache') : cache'[k].key = cache'[l].key => k = l
    BY <1>0, <1>5, <2>2, EntryStored DEF SetCache, AnswersOK
  <2>4. <<Key[t], response[t].answer>> \in given
    BY <1>0, <2>1 DEF AnswersOK
  <2>5. \A k \in 1..Len(cache') : <<cache'[k].key, cache'[k].answer>> \in given
    <3> SUFFICES ASSUME NEW k \in 1..Len(cache')
                 PROVE  <<cache'[k].key, cache'[k].answer>> \in given
      OBVIOUS
    <3>1. CASE cache'[k] = [key |-> Key[t], answer |-> response[t].answer]
      BY <2>4, <3>1
    <3>2. CASE \E l \in 1..Len(cache) : cache'[k] = cache[l]
      BY <1>0, <3>2 DEF AnswersOK
    <3> QED
      BY <2>3, <3>1, <3>2
  <2> QED
    BY <1>0, <2>1, <2>3, <2>5 DEF AnswersOK
<1>6. ASSUME NEW t \in Tasks, NEW r \in Response, Respond(t, r)
      PROVE  AnswersOK' /\ given \subseteq given'
  <2>1. /\ given' = given \cup {<<Key[t], r.answer>>} /\ cache' = cache
        /\ response'[t] = r
        /\ \A u \in Tasks \ {t} : pc'[u] = pc[u] /\ response'[u] = response[u]
    BY <1>0, <1>6 DEF TypeOK, Respond
  <2> QED
    BY <1>0, <2>1 DEF AnswersOK
<1>7. ASSUME NewDay
      PROVE  AnswersOK' /\ given \subseteq given'
  BY <1>1, <1>7 DEF NewDay
<1>8. \A answer \in Parsed, cost \in Costs : [answer |-> answer, cost |-> cost] \in Response
  BY DEF Response
<1> QED
  BY <1>2, <1>3, <1>4, <1>5, <1>6, <1>7, <1>8 DEF Next, TaskStep

\* A task that is done is done for good, and what justifies its verdict lasts.
LEMMA VerdictStep ==
    ASSUME ClassifierInv, Next
    PROVE  VerdictSound'
<1> USE ClassifierAssumption DEF Go, Return
<1> DEFINE Just(t, v, g, b, sp) ==
               /\ v.source = "llm" => <<Key[t], v.confidence>> \in g
               /\ v.source # "error" => v.confidence >= Rule[t]
               /\ v.source = "error" => t \in b \/ \E d \in Days : sp[d] >= Cap
<1>0. /\ TypeOK /\ PermitsOK /\ AnswersOK /\ VerdictSound
      /\ Len(cache) \in Nat /\ DOMAIN cache = 1..Len(cache)
      /\ given \subseteq given'
  BY AnswersStep, LenProperties DEF ClassifierInv, TypeOK
<1>1. broken \subseteq broken' /\ \A d \in Days : spend[d] >= Cap => spend'[d] >= Cap
  <2>1. ASSUME NEW t \in Tasks, RecordSpend(t)
        PROVE  broken' = broken /\ \A d \in Days : spend[d] >= Cap => spend'[d] >= Cap
    <3>1. response[t].cost \in Nat
      BY <1>0, CostBounded
    <3>2. \A d \in Days : spend[d] \in Nat
      BY <1>0 DEF TypeOK
    <3>3. /\ spend'[day] = spend[day] + response[t].cost
          /\ \A d \in Days : d # day => spend'[d] = spend[d]
      BY <1>0, <2>1 DEF TypeOK, RecordSpend
    <3>4. day \in Days /\ broken' = broken
      BY <1>0, <2>1 DEF TypeOK, RecordSpend
    <3> QED
      BY <3>1, <3>2, <3>3, <3>4
  <2>2. ASSUME NEW t \in Tasks, TaskStep(t), ~RecordSpend(t)
        PROVE  spend' = spend /\ broken \subseteq broken'
    BY <2>2 DEF TaskStep, BelieveRules, CacheHit, CacheMiss, CheckBudget, BudgetExceeded, Acquire,
                Respond, Retry, CallFails, WriteCall, SetCache, StoreFails, Finish
  <2> QED
    BY <2>1, <2>2 DEF Next, NewDay
<1>2. ASSUME NEW u \in Tasks, pc[u] = "done"
      PROVE  Just(u, verdict[u], given', broken', spend')
  BY <1>0, <1>1, <1>2 DEF VerdictSound
<1>3. ASSUME \A u \in Tasks : pc'[u] = "done" => \/ pc[u] = "done" /\ verdict'[u] = verdict[u]
                                                 \/ Just(u, verdict'[u], given', broken', spend')
      PROVE  VerdictSound'
  <2>1. ASSUME NEW u \in Tasks, pc'[u] = "done"
        PROVE  Just(u, verdict'[u], given', broken', spend')
    BY <1>2, <1>3, <2>1
  <2> QED
    BY <2>1 DEF VerdictSound
<1> HIDE DEF Just
<1>4. ASSUME NEW t \in Tasks, NEW v,
             pc' = [pc EXCEPT ![t] = "done"], verdict' = [verdict EXCEPT ![t] = v],
             Just(t, v, given', broken', spend')
      PROVE  VerdictSound'
  <2>1. /\ verdict'[t] = v
        /\ \A u \in Tasks \ {t} : verdict'[u] = verdict[u] /\ pc'[u] = pc[u]
    BY <1>0, <1>4 DEF TypeOK
  <2> QED
    BY <1>3, <1>4, <2>1
<1>5. ASSUME verdict' = verdict, \A u \in Tasks : pc'[u] = "done" => pc[u] = "done"
      PROVE  VerdictSound'
  BY <1>3, <1>5
<1>6. ASSUME NEW t \in Tasks, BelieveRules(t)
      PROVE  VerdictSound'
  <2> DEFINE v == [source |-> "rule", confidence |-> Rule[t]]
  <2>1. Just(t, v, given', broken', spend')
    BY DEF Just
  <2> QED
    BY <1>4, <1>6, <2>1 DEF BelieveRules
<1>7. ASSUME NEW t \in Tasks, NEW answer \in Parsed, <<Key[t], answer>> \in given,
             Return(t, Merge(t, answer))
      PROVE  VerdictSound'
  <2>1. Just(t, Merge(t, answer), given', broken', spend')
    BY <1>0, <1>7, MergeSound DEF Just
  <2> QED
    BY <1>4, <1>7, <2>1
<1>8. ASSUME NEW t \in Tasks, CacheHit(t)
      PROVE  VerdictSound'
  <2>1. PICK i \in 1..Len(cache) : cache[i].key = Key[t] /\ Return(t, Merge(t, cache[i].answer))
    BY <1>0, <1>8 DEF CacheHit, Cached
  <2>2. cache[i] \in Entry
    BY <1>0, ElementOfSeq DEF TypeOK
  <2>3. cache[i].answer \in Parsed
    BY <2>2 DEF Entry
  <2>4. <<Key[t], cache[i].answer>> \in given
    BY <1>0, <2>1 DEF AnswersOK
  <2> QED
    BY <1>7, <2>1, <2>3, <2>4
<1>9. ASSUME NEW t \in Tasks, Finish(t)
      PROVE  VerdictSound'
  <2>1. response[t].answer \in Parsed
    BY <1>0 DEF TypeOK, Response
  <2>2. <<Key[t], response[t].answer>> \in given
    BY <1>0, <1>9 DEF AnswersOK, Finish
  <2> QED
    BY <1>7, <1>9, <2>1, <2>2 DEF Finish
<1>10. ASSUME NEW t \in Tasks, BudgetExceeded(t) \/ CallFails(t)
       PROVE  VerdictSound'
  <2>1. t \in broken' \/ \E d \in Days : spend'[d] >= Cap
    BY <1>0, <1>1, <1>10 DEF BudgetExceeded, CallFails, TypeOK
  <2>2. Just(t, Error, given', broken', spend')
    BY <2>1 DEF Just, Error
  <2> QED
    BY <1>4, <1>10, <2>2 DEF BudgetExceeded, CallFails
<1>11. ASSUME NEW t \in Tasks,
              \/ CacheMiss(t) \/ CheckBudget(t) \/ Acquire(t) \/ Retry(t) \/ WriteCall(t)
              \/ SetCache(t) \/ RecordSpend(t) \/ \E s \in Stores : StoreFails(t, s)
              \/ \E r \in Response : Respond(t, r)
       PROVE  VerdictSound'
  <2>1. verdict' = verdict
    BY <1>11 DEF CacheMiss, CheckBudget, Acquire, Retry, WriteCall, SetCache, RecordSpend,
                 StoreFails, Respond
  <2>2. \A u \in Tasks : pc'[u] = "done" => pc[u] = "done"
    BY <1>0, <1>11 DEF TypeOK, CacheMiss, CheckBudget, Launch, Acquire, Retry, WriteCall, SetCache,
                       RecordSpend, StoreFails, Respond
  <2> QED
    BY <1>5, <2>1, <2>2
<1>12. ASSUME NewDay
       PROVE  VerdictSound'
  BY <1>5, <1>12 DEF NewDay
<1>13. \A answer \in Parsed, cost \in Costs : [answer |-> answer, cost |-> cost] \in Response
  BY DEF Response
<1> QED
  BY <1>6, <1>8, <1>9, <1>10, <1>11, <1>12, <1>13 DEF Next, TaskStep

-----------------------------------------------------------------------------
(* The theorems. *)

\* Initially nothing is asked, cached or charged.
LEMMA ClassifierInvInit == Init => ClassifierInv
<1> SUFFICES ASSUME Init PROVE ClassifierInv
  OBVIOUS
<1> USE ClassifierAssumption DEF Init
<1>1. TypeOK
  <2>1. NoResponse \in Response /\ NoVerdict \in Verdict
    BY DEF NoResponse, Response, Parsed, NoVerdict, Verdict
  <2>2. cache \in Seq(Entry)
    BY EmptySeq
  <2>3. day \in Days
    BY DEF Days
  <2> QED
    BY <2>1, <2>2, <2>3 DEF TypeOK, Steps, Stores
<1>2. Calling = {} /\ InFlight = {}
  BY DEF Calling, InFlight
<1>3. PermitsOK
  BY <1>2, FS_EmptySet DEF PermitsOK
<1>4. MaxCost * 0 = 0
  OBVIOUS
<1>5. Cap \in Nat /\ Cap > 0
  OBVIOUS
<1>6. BillOK
  <2>1. day \in Days
    BY <1>1 DEF TypeOK
  <2> QED
    BY <1>2, <1>4, <1>5, <2>1, FS_EmptySet DEF BillOK
<1>7. BudgetBound
  BY <1>4, <1>5 DEF BudgetBound
<1>8. AnswersOK /\ VerdictSound
  BY EmptySeq DEF AnswersOK, VerdictSound
<1> QED
  BY <1>1, <1>3, <1>6, <1>7, <1>8 DEF ClassifierInv

\* The invariant is inductive.
LEMMA ClassifierInvStep == ClassifierInv /\ [Next]_vars => ClassifierInv'
<1> SUFFICES ASSUME ClassifierInv, [Next]_vars PROVE ClassifierInv'
  OBVIOUS
<1>1. CASE Next
  BY <1>1, TypeStep, PermitsStep, BillStep, AnswersStep, VerdictStep DEF ClassifierInv
<1>2. CASE UNCHANGED vars
  BY <1>2 DEF vars, ClassifierInv, TypeOK, PermitsOK, Calling, BillOK, InFlight, AnswersOK,
              BudgetBound, VerdictSound
<1> QED
  BY <1>1, <1>2

\* Types are right, permits are conserved, and the bill and the answers are kept
\* in every behaviour of the classifier.
THEOREM ClassifierInvariant == Spec => []ClassifierInv
  BY ClassifierInvInit, ClassifierInvStep, PTL DEF Spec

\* However many tasks race between the check of the budget and the charge, a day
\* overspends by no more than one call for each that was in flight at once.
THEOREM OverspendingIsBounded == Spec => []BudgetBound
<1>1. ClassifierInv => BudgetBound
  BY DEF ClassifierInv
<1> QED
  BY <1>1, ClassifierInvariant, PTL

\* No verdict is made up, weaker than the rules', or an error without a cause.
THEOREM VerdictsAreSound == Spec => []VerdictSound
<1>1. ClassifierInv => VerdictSound
  BY DEF ClassifierInv
<1> QED
  BY <1>1, ClassifierInvariant, PTL
=============================================================================
