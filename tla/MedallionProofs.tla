--------------------------- MODULE MedallionProofs ---------------------------
(***************************************************************************)
(* Proofs about the tiers of the medallion, for every set of jobs and       *)
(* whatever fails.  Gold (GoldPromotion): how far promotions can overlap,   *)
(* and that tables go forward as long as nothing expires or fails.  Silver  *)
(* (Silver): that no event is passed over in recovery as long as promotions *)
(* do not overlap, and that the rows of a saved recording stay.  Bronze (BronzeUpkeep): that retention deletes only what has    *)
(* expired.                                                                 *)
(***************************************************************************)
EXTENDS GoldPromotion, Silver, BronzeUpkeep, Integers, FiniteSetTheorems,
        FunctionTheorems, SequenceTheorems, WellFoundedInduction, TLAPS

-----------------------------------------------------------------------------
(* Gold.  OverlapBounded is not inductive: it does not say who has the lock.*)
(* LockInv does: if the key names a job at work then that job needs no      *)
(* expiry to pay for it.  A DELETE by any job removes one job from the work *)
(* and at most one key, an expiry removes a key and pays for its job, and a *)
(* SET finds no key.  GoldForward rests on it: with no expiry to pay for a  *)
(* second job, every thread belongs to the only job at work.                *)

\* Active is a finite set of jobs, so its size is a natural number.
LEMMA ActiveFinite == IsFiniteSet(Active) /\ Cardinality(Active) \in Nat
BY GoldAssumption, FS_Subset, FS_CardinalityType DEF Active

\* The initial states: nobody is at work.
LEMMA LockInit == Init => LockInv
<1> SUFFICES ASSUME Init PROVE LockInv
    OBVIOUS
<1>1. Active = {}
    BY DEF Init, Active
<1>2. Cardinality(Active) = 0
    BY <1>1, FS_EmptySet
<1> QED
    BY <1>2, GoldAssumption DEF Init, LockInv, PC

\* A step that leaves the key, the places of the jobs and the expiries alone.
LEMMA LockQuiet ==
    LockInv /\ UNCHANGED <<lock, pc, expiries>> => LockInv'
BY DEF LockInv, Active

\* A job that leaves the work is one job less, whatever becomes of the key.
LEMMA Leaving ==
    ASSUME LockInv, NEW j \in Active, NEW p \in {"done", "crashed"},
           Goto(j, p), expiries' = expiries, lock' \in {lock, None}
    PROVE  LockInv'
<1>1. j \in Job /\ pc \in [Job -> PC]
    BY DEF Active, LockInv
<1>2. Active' = Active \ {j}
    BY <1>1 DEF Active, Goto
<1>3. Cardinality(Active') = Cardinality(Active) - 1
    BY <1>2, ActiveFinite, FS_RemoveElement
<1>4. pc' \in [Job -> PC]
    BY <1>1 DEF Goto, PC
<1>5. lock' \in Job \union {None} /\ expiries' \in Nat
    BY DEF LockInv
<1>6. Cardinality(Active) <= expiries + 1
    BY ActiveFinite DEF LockInv
<1>7. lock' \in Active' \/ Cardinality(Active') <= expiries'
    BY <1>3, <1>6, ActiveFinite DEF LockInv
<1>8. Cardinality(Active') <= expiries' + (IF lock' \in Active' THEN 1 ELSE 0)
    BY <1>3, <1>6, <1>7, ActiveFinite DEF LockInv
<1> QED
    BY <1>4, <1>5, <1>8 DEF LockInv

\* A job that moves on within the work, or outside it, changes nothing.
LEMMA Staying ==
    ASSUME LockInv, NEW j \in Job, NEW p \in PC, Goto(j, p),
           p \in {"hot", "cold", "releasing"} <=> j \in Active,
           lock' = lock, expiries' = expiries
    PROVE  LockInv'
<1>1. pc' \in [Job -> PC]
    BY DEF LockInv, Goto
<1>2. Active' = Active
    BY DEF LockInv, Active, Goto
<1> QED
    BY <1>1, <1>2 DEF LockInv

\* SET NX: the key did not exist, so all jobs at work are paid for.
LEMMA Acquiring ==
    ASSUME LockInv, NEW j \in Job, Acquire(j)
    PROVE  LockInv'
<1>1. j \notin Active /\ lock \notin Active
    BY GoldAssumption DEF Acquire, Active
<1>2. Active' = Active \union {j}
    BY DEF LockInv, Acquire, Active, Goto
<1>3. Cardinality(Active') = Cardinality(Active) + 1
    BY <1>1, <1>2, ActiveFinite, FS_AddElement
<1>4. lock' = j /\ j \in Active' /\ expiries' = expiries
    BY <1>2 DEF Acquire
<1>5. pc' \in [Job -> PC]
    BY DEF LockInv, Acquire, Goto, PC
<1> QED
    BY <1>1, <1>3, <1>4, <1>5, ActiveFinite DEF LockInv

\* The key of a job at work expires.
LEMMA Expiring == LockInv /\ ExpireUnderJob => LockInv'
<1> SUFFICES ASSUME LockInv, ExpireUnderJob PROVE LockInv'
    OBVIOUS
<1>1. Active' = Active
    BY DEF ExpireUnderJob, Active
<1>2. Cardinality(Active) <= expiries + 1
    BY ActiveFinite DEF LockInv
<1>3. expiries' = expiries + 1 /\ lock' = None /\ pc' = pc
    BY DEF ExpireUnderJob
<1>4. None \notin Active'
    BY <1>1, GoldAssumption DEF Active
<1> QED
    BY <1>1, <1>2, <1>3, <1>4 DEF LockInv

\* LockInv is inductive.
LEMMA LockStep == LockInv /\ [Next]_vars => LockInv'
<1> SUFFICES ASSUME LockInv, [Next]_vars PROVE LockInv'
    OBVIOUS
<1>1. CASE UNCHANGED vars
    BY <1>1, LockQuiet DEF vars
<1>2. CASE SilverChanges
    BY <1>2, LockQuiet DEF SilverChanges
<1>3. CASE ExpireUnderJob
    BY <1>3, Expiring
<1>4. CASE ExpireAbandoned
    <2>1. Active' = Active
        BY <1>4 DEF ExpireAbandoned, Active
    <2> QED
        BY <1>4, <2>1, GoldAssumption DEF ExpireAbandoned, LockInv, Active
<1>5. ASSUME NEW j \in Job, NEW t \in Table,
             ReadSilver(j, t) \/ WriteDone(j, t) \/ ReadFails(j, t) \/ WriteFails(j, t)
      PROVE  LockInv'
    BY <1>5, LockQuiet DEF ReadSilver, WriteDone, ReadFails, WriteFails
<1>6. ASSUME NEW j \in Job, HotDone(j) PROVE LockInv'
    BY <1>6, Staying DEF HotDone, Active, PC
<1>7. ASSUME NEW j \in Job, ColdDone(j) PROVE LockInv'
    BY <1>7, Staying DEF ColdDone, Active, PC
<1>8. ASSUME NEW j \in Job, SkipLocked(j) PROVE LockInv'
    BY <1>8, Staying DEF SkipLocked, Active, PC
<1>9. ASSUME NEW j \in Job, Abort(j) PROVE LockInv'
    BY <1>9, Staying DEF Abort, Active, PC
<1>10. ASSUME NEW j \in Job, Acquire(j) PROVE LockInv'
    BY <1>10, Acquiring
<1>11. ASSUME NEW j \in Job, Release(j) \/ ReleaseFails(j) \/ Crash(j) PROVE LockInv'
    <2>1. j \in Active
        BY <1>11 DEF Release, ReleaseFails, Crash, Active
    <2> QED
        BY <1>11, <2>1, Leaving DEF Release, ReleaseFails, Crash
<1> QED
    BY <1>1, <1>2, <1>3, <1>4, <1>5, <1>6, <1>7, <1>8, <1>9, <1>10, <1>11
       DEF Next, JobStep

\* The accounting of keys, jobs at work and expiries, for promote_silver_to_gold
\* with its SET NX EX and its unconditional DELETE.
THEOREM LockInvariant == Spec => []LockInv
<1>1. Init => LockInv
    BY LockInit
<1>2. LockInv /\ [Next]_vars => LockInv'
    BY LockStep
<1> QED
    BY <1>1, <1>2, PTL DEF Spec

\* However many jobs are started, retried and killed, there is at most one at
\* work, plus one for each lock that expired under its job.
THEOREM OverlapIsBounded == Spec => []OverlapBounded
<1>1. LockInv => OverlapBounded
    BY ActiveFinite DEF LockInv, OverlapBounded
<1> QED
    BY <1>1, LockInvariant, PTL

-----------------------------------------------------------------------------
(* Tables go forward. *)

LEMMA GoldInit == Init => ForwardInv
<1> SUFFICES ASSUME Init PROVE ForwardInv
    OBVIOUS
<1>1. LockInv
    BY LockInit
<1>2. TypeOK
    BY GoldAssumption DEF Init, TypeOK, PC
<1> QED
    BY <1>1, <1>2 DEF Init, ForwardInv

LEMMA GoldTypes == ASSUME TypeOK, [Next]_vars PROVE TypeOK'
<1> USE GoldAssumption DEF TypeOK, Goto, CancelTasks
<1>1. CASE UNCHANGED vars
    BY <1>1 DEF vars
<1>2. CASE SilverChanges \/ ExpireUnderJob \/ ExpireAbandoned
    BY <1>2 DEF SilverChanges, ExpireUnderJob, ExpireAbandoned
<1>3. ASSUME NEW j \in Job, Acquire(j) \/ SkipLocked(j) \/ ColdDone(j)
      PROVE  TypeOK'
    BY <1>3 DEF Acquire, SkipLocked, ColdDone, PC
<1>4. ASSUME NEW j \in Job, Release(j) \/ ReleaseFails(j)
      PROVE  TypeOK'
    BY <1>4 DEF Release, ReleaseFails, PC
<1>5. ASSUME NEW j \in Job, HotDone(j) PROVE TypeOK'
    BY <1>5 DEF HotDone, PC
<1>6. ASSUME NEW j \in Job, Abort(j) PROVE TypeOK'
    BY <1>6 DEF Abort, PC
<1>7. ASSUME NEW j \in Job, Crash(j) PROVE TypeOK'
    BY <1>7 DEF Crash, PC
<1>8. ASSUME NEW j \in Job, NEW t \in Table, ReadSilver(j, t) PROVE TypeOK'
    BY <1>8 DEF ReadSilver
<1>9. ASSUME NEW j \in Job, NEW t \in Table, WriteDone(j, t) PROVE TypeOK'
    BY <1>9 DEF WriteDone
<1>10. ASSUME NEW j \in Job, NEW t \in Table, ReadFails(j, t) PROVE TypeOK'
    BY <1>10 DEF ReadFails
<1>11. ASSUME NEW j \in Job, NEW t \in Table, WriteFails(j, t) PROVE TypeOK'
    BY <1>11 DEF WriteFails
<1> QED
    BY <1>1, <1>2, <1>3, <1>4, <1>5, <1>6, <1>7, <1>8, <1>9, <1>10, <1>11 DEF Next, JobStep

\* Before anything has expired one job at most is at work.
LEMMA OneAtWork ==
    ASSUME LockInv, expiries = 0, NEW j \in Active, NEW k \in Active
    PROVE  j = k
<1>1. Cardinality(Active) <= 1
    BY ActiveFinite DEF LockInv
<1>2. /\ IsFiniteSet(Active \ {j})
      /\ Cardinality(Active \ {j}) = Cardinality(Active) - 1
      /\ Cardinality(Active \ {j}) \in Nat
    BY ActiveFinite, FS_RemoveElement, FS_CardinalityType
<1>3. Cardinality(Active \ {j}) = 0
    BY <1>1, <1>2, ActiveFinite
<1> QED
    BY <1>2, <1>3, FS_EmptySet

\* While nothing has expired or failed, and what a thread writes is no older than
\* what it overwrites.
Undisturbed == expiries = 0 /\ aborts = 0

LEMMA Awaited ==
    ASSUME ForwardInv, Undisturbed, NEW j \in Job, NEW t \in Table, thread[j][t] # 0
    PROVE  pc[j] = "cold" /\ j \in Active /\ task[j][t] = "writing" /\ thread[j][t] >= gold[t]
BY DEF ForwardInv, Undisturbed, Active

LEMMA GoldStep == ASSUME ForwardInv, [Next]_vars PROVE ForwardInv'
<1> USE DEF Goto, CancelTasks
<1>1. TypeOK' /\ LockInv'
    BY GoldTypes, LockStep DEF ForwardInv
<1> DEFINE Fine == /\ \A t \in Table : gold[t] <= silver
                   /\ \A j \in Job, t \in Table : thread[j][t] <= silver
           Forward == Undisturbed =>
                        \A j \in Job, t \in Table :
                            /\ pc[j] # "cold" => task[j][t] \in {"none", "ended"}
                            /\ thread[j][t] # 0 => task[j][t] = "writing" /\ thread[j][t] >= gold[t]
<1>2. Fine /\ Forward
    BY DEF ForwardInv, Undisturbed
<1> SUFFICES Fine' /\ Forward'
    BY <1>1 DEF ForwardInv, Undisturbed
<1>3. /\ silver \in Nat /\ gold \in [Table -> Nat] /\ thread \in [Job -> [Table -> Nat]]
      /\ task \in [Job -> [Table -> {"none", "reading", "writing", "ended"}]]
      /\ pc \in [Job -> PC] /\ aborts \in Nat /\ expiries \in Nat
    BY GoldAssumption DEF ForwardInv, TypeOK
<1>4. CASE UNCHANGED <<silver, thread, gold, task, pc>> /\ expiries' >= expiries /\ aborts' = aborts
    BY <1>2, <1>3, <1>4 DEF Undisturbed
<1>5. CASE SilverChanges
    BY <1>2, <1>3, <1>5 DEF SilverChanges, Undisturbed
<1>6. CASE ExpireUnderJob \/ ExpireAbandoned \/ UNCHANGED vars
    BY <1>3, <1>4, <1>6 DEF ExpireUnderJob, ExpireAbandoned, vars
<1>7. ASSUME NEW j \in Job, Acquire(j) \/ SkipLocked(j) \/ Release(j) \/ ReleaseFails(j)
      PROVE  Fine' /\ Forward'
    BY <1>2, <1>3, <1>7 DEF Acquire, SkipLocked, Release, ReleaseFails, Undisturbed
<1>8. ASSUME NEW j \in Job, HotDone(j)
       PROVE  Fine' /\ Forward'
    <2>1. ASSUME Undisturbed, NEW k \in Job, NEW u \in Table PROVE thread[k][u] # 0 => k # j
        BY <1>8, <2>1, Awaited DEF HotDone
    <2> QED
        BY <1>2, <1>3, <1>8, <2>1 DEF HotDone, Undisturbed
<1>9. ASSUME NEW j \in Job, ColdDone(j)
       PROVE  Fine' /\ Forward'
    BY <1>2, <1>3, <1>9 DEF ColdDone, Undisturbed
<1>10. ASSUME NEW j \in Job, Crash(j)
      PROVE  Fine' /\ Forward'
    BY <1>2, <1>3, <1>10 DEF Crash, Undisturbed
<1>11. ASSUME NEW j \in Job, NEW t \in Table, ReadSilver(j, t)
      PROVE  Fine' /\ Forward'
    BY <1>2, <1>3, <1>11 DEF ReadSilver, Undisturbed
<1>12. ASSUME NEW j \in Job, NEW t \in Table, WriteDone(j, t)
      PROVE  Fine' /\ Forward'
    <2>1. Fine'
        BY <1>2, <1>3, <1>12 DEF WriteDone
    <2>2. ASSUME Undisturbed, NEW k \in Job, NEW u \in Table
          PROVE  /\ pc[k] # "cold" => task'[k][u] \in {"none", "ended"}
                 /\ thread'[k][u] # 0 => task'[k][u] = "writing" /\ thread'[k][u] >= gold'[u]
        <3>1. thread[j][t] # 0
            BY <1>12 DEF WriteDone
        <3>2. thread[k][u] # 0 => k = j
            BY <2>2, <3>1, Awaited, OneAtWork DEF ForwardInv, Undisturbed
        <3> QED
            BY <1>2, <1>3, <1>12, <2>2, <3>2 DEF WriteDone
    <2> QED
        BY <1>12, <2>1, <2>2 DEF WriteDone, Undisturbed
<1>13. ASSUME NEW j \in Job, Abort(j) \/ \E t \in Table : ReadFails(j, t) \/ WriteFails(j, t)
       PROVE  Fine' /\ Forward'
    <2>1. aborts' # 0
        BY <1>3, <1>13 DEF Abort, ReadFails, WriteFails
    <2>2. Fine'
        BY <1>2, <1>3, <1>13 DEF Abort, ReadFails, WriteFails
    <2> QED
        BY <2>1, <2>2 DEF Undisturbed
<1> QED
    BY <1>5, <1>6, <1>7, <1>8, <1>9, <1>10, <1>11, <1>12, <1>13  DEF Next, JobStep

\* Types, lock, tables and threads of every behaviour of the promotion.
THEOREM GoldInvariant == Spec => []ForwardInv
BY GoldInit, GoldStep, PTL DEF Spec

\* Without an expiry or a failure no table is overwritten with older data
\* (medallion/gold_cold.py:99).
THEOREM TablesGoForward == Spec => GoldForward
<1>1. ASSUME ForwardInv, [Next]_vars, expiries = 0 /\ aborts = 0, NEW t \in Table
      PROVE  gold'[t] >= gold[t]
    <2>1. gold \in [Table -> Nat] /\ thread \in [Job -> [Table -> Nat]]
        BY <1>1, GoldAssumption DEF ForwardInv, TypeOK
    <2>2. CASE gold' = gold
        BY <2>1, <2>2
    <2>3. ASSUME NEW j \in Job, NEW u \in Table, WriteDone(j, u)
          PROVE  gold'[t] >= gold[t]
        <3>1. thread[j][u] # 0 /\ gold' = [gold EXCEPT ![u] = thread[j][u]]
            BY <2>3 DEF WriteDone
        <3>2. thread[j][u] >= gold[u]
            BY <1>1, <3>1, Awaited DEF Undisturbed
        <3> QED
            BY <2>1, <3>1, <3>2
    <2>4. gold' = gold \/ \E j \in Job, u \in Table : WriteDone(j, u)
        BY <1>1 DEF Next, JobStep, vars, SilverChanges, ExpireUnderJob, ExpireAbandoned,
           Acquire, SkipLocked, HotDone, ColdDone, Release, ReleaseFails, ReadSilver,
           Abort, Crash, ReadFails, WriteFails
    <2> QED
        BY <2>2, <2>3, <2>4
<1>2. ForwardInv /\ [Next]_vars => [expiries = 0 /\ aborts = 0 => \A t \in Table : gold'[t] >= gold[t]]_vars
    BY <1>1
<1> QED
    BY <1>2, GoldInvariant, PTL DEF Spec, GoldForward

-----------------------------------------------------------------------------
(* Silver.  In recovery and without an overlap the promotion that is under  *)
(* way is alone, so the rows it has counted are still all there are.  What  *)
(* it inserts is an increasing enumeration of the lines after them: they    *)
(* are numbered on, they are no more than the lines, and if all lines make  *)
(* rows they are those lines one by one.  On the common path promotions may *)
(* overlap: each has counted all rows that were saved, and as the lines are *)
(* an injection into what was captured for the log, none goes past them.    *)

\* What a concatenation is.
LEMMA Concatenated ==
    ASSUME NEW T, NEW s \in Seq(T), NEW t \in Seq(T)
    PROVE  /\ s \o t \in Seq(T)
           /\ Len(s) \in Nat /\ Len(t) \in Nat /\ Len(s \o t) = Len(s) + Len(t)
           /\ \A i \in 1..Len(s) : i \in 1..Len(s \o t) /\ (s \o t)[i] = s[i]
           /\ \A i \in 1..Len(t) : Len(s) + i \in 1..Len(s \o t) /\ (s \o t)[Len(s) + i] = t[i]
           /\ \A i \in 1..Len(s \o t) : \/ i \in 1..Len(s) /\ (s \o t)[i] = s[i]
                                        \/ /\ i - Len(s) \in 1..Len(t)
                                           /\ (s \o t)[i] = t[i - Len(s)]
OBVIOUS

\* An increasing enumeration of a finite set of numbers has each of them.
LEMMA Enumerated ==
    ASSUME NEW S \in SUBSET Int, IsFiniteSet(S), NEW n \in Nat, n = Cardinality(S),
           NEW f \in [1..n -> S], \A i, k \in 1..n : i < k => f[i] < f[k]
    PROVE  /\ \A x \in S : \E i \in 1..n : f[i] = x
           /\ \A i, k \in 1..n : f[i] < f[k] => i < k
<1>1. \A i, k \in 1..n : f[i] = f[k] => i = k
  <2> SUFFICES ASSUME NEW i \in 1..n, NEW k \in 1..n, f[i] = f[k], i # k PROVE FALSE
    OBVIOUS
  <2>1. i < k \/ k < i
    OBVIOUS
  <2>2. f[i] \in Int /\ f[k] \in Int
    OBVIOUS
  <2> QED
    BY <2>1, <2>2
<1>2. \A i, k \in 1..n : f[i] < f[k] => i < k
  <2> SUFFICES ASSUME NEW i \in 1..n, NEW k \in 1..n, f[i] < f[k], ~(i < k) PROVE FALSE
    OBVIOUS
  <2>1. i = k \/ k < i
    OBVIOUS
  <2>2. f[i] \in Int /\ f[k] \in Int
    OBVIOUS
  <2> QED
    BY <2>1, <2>2
<1>3. f \in Injection(1..n, S)
  BY <1>1 DEF Injection, IsInjective
<1>4. IsFiniteSet(1..n) /\ Cardinality(1..n) = n
  BY FS_Interval
<1>5. f \in Surjection(1..n, S)
  BY <1>3, <1>4, FS_Injection
<1> QED
  BY <1>2, <1>5 DEF Surjection

\* So an increasing enumeration of an interval counts through it.
LEMMA Counted ==
    ASSUME NEW a \in Int, NEW b \in Int, NEW n \in Nat, n = Cardinality((a + 1)..b),
           NEW f \in [1..n -> (a + 1)..b], \A i, k \in 1..n : i < k => f[i] < f[k]
    PROVE  \A i \in 1..n : f[i] = a + i
<1> TAKE i \in 1..n
<1>1. /\ \A x \in (a + 1)..b : \E k \in 1..n : f[k] = x
      /\ \A k, m \in 1..n : f[k] < f[m] => k < m
  <2>1. PICK S \in SUBSET Int : S = (a + 1)..b
    OBVIOUS
  <2>2. IsFiniteSet((a + 1)..b)
    BY FS_Interval
  <2>4. IsFiniteSet(S) /\ n = Cardinality(S) /\ f \in [1..n -> S]
    BY <2>1, <2>2
  <2>3. /\ \A x \in S : \E k \in 1..n : f[k] = x
        /\ \A k, m \in 1..n : f[k] < f[m] => k < m
    BY <2>4, Enumerated
  <2> QED
    BY <2>1, <2>3
<1>2. PICK m \in Int : m = f[i] /\ a + 1 <= m /\ m <= b
  OBVIOUS
<1> DEFINE g == [k \in 1..(i - 1) |-> f[k]]
<1>3. \A k \in 1..(i - 1) : k \in 1..n /\ f[k] \in (a + 1)..b /\ f[k] < m
  BY <1>2
<1>4. g \in [1..(i - 1) -> (a + 1)..(m - 1)]
  BY <1>2, <1>3
<1>5. \A k, l \in 1..(i - 1) : g[k] = g[l] => k = l
  <2> SUFFICES ASSUME NEW k \in 1..(i - 1), NEW l \in 1..(i - 1), f[k] = f[l], k # l PROVE FALSE
    OBVIOUS
  <2>1. k < l \/ l < k
    OBVIOUS
  <2> QED
    BY <1>3, <2>1
<1>6. \A x \in (a + 1)..(m - 1) : \E k \in 1..(i - 1) : g[k] = x
  <2> TAKE x \in (a + 1)..(m - 1)
  <2>1. PICK k \in 1..n : f[k] = x
    BY <1>1, <1>2
  <2>2. k < i
    BY <1>1, <1>2, <2>1
  <2> QED
    BY <2>1, <2>2
<1> HIDE DEF g
<1>7. g \in Injection(1..(i - 1), (a + 1)..(m - 1)) /\ g \in Surjection(1..(i - 1), (a + 1)..(m - 1))
  BY <1>4, <1>5, <1>6 DEF Injection, IsInjective, Surjection
<1>8. /\ IsFiniteSet((a + 1)..(m - 1))
      /\ Cardinality((a + 1)..(m - 1)) = m - 1 - a
      /\ Cardinality(1..(i - 1)) = i - 1
  <2>1. a + 1 \in Int /\ m - 1 \in Int /\ 1 \in Int /\ i - 1 \in Int
    OBVIOUS
  <2>2. /\ IsFiniteSet((a + 1)..(m - 1))
        /\ Cardinality((a + 1)..(m - 1)) = IF a + 1 > m - 1 THEN 0 ELSE m - 1 - (a + 1) + 1
        /\ Cardinality(1..(i - 1)) = IF 1 > i - 1 THEN 0 ELSE i - 1 - 1 + 1
    BY <2>1, FS_Interval
  <2> QED
    BY <1>2, <2>2
<1>9. Cardinality(1..(i - 1)) = Cardinality((a + 1)..(m - 1))
  BY <1>7, <1>8, FS_Injection
<1> QED
  BY <1>2, <1>8, <1>9

-----------------------------------------------------------------------------
\* What a promotion inserts.
LEMMA NewRowsFacts ==
    ASSUME SilverTypeOK, NEW j \in Promoters, NEW new \in NewRows(j)
    PROVE  /\ new \in Seq(SilverRow)
           /\ Numbered(new, existing[j])
           /\ Covered(new, existing[j] + 1, text[j])
           /\ existing[j] <= text[j] => existing[j] + Len(new) <= text[j]
<1> USE SilverAssumption
<1>0. /\ lines \in Seq(1..MaxPage) /\ Len(lines) \in Nat /\ MaxPage \in Nat
      /\ existing[j] \in Nat /\ text[j] \in 0..Len(lines)
  BY DEF SilverTypeOK
<1>1. PICK e \in Nat : e = existing[j]
  BY <1>0
<1>2. PICK t \in Nat : t = text[j] /\ t <= Len(lines)
  BY <1>0
<1>3. PICK S : S = Promotable(j)
  OBVIOUS
<1>4. S = {i \in 1..t : i > e /\ MakesRow(i)}
  BY <1>1, <1>2, <1>3 DEF Promotable
<1>5. /\ S \subseteq (e + 1)..t /\ S \subseteq 1..Len(lines) /\ S \subseteq Int
  BY <1>0, <1>2, <1>4
<1>6. IsFiniteSet((e + 1)..t) /\ Cardinality((e + 1)..t) = IF e + 1 > t THEN 0 ELSE t - (e + 1) + 1
  BY FS_Interval
<1>7. IsFiniteSet(S) /\ Cardinality(S) <= Cardinality((e + 1)..t)
  BY <1>5, <1>6, FS_Subset
<1>8. PICK n \in Nat : n = Cardinality(S)
  BY <1>7, FS_CardinalityType
<1>9. PICK line \in [1..n -> S] :
          /\ \A i, k \in 1..n : i < k => line[i] < line[k]
          /\ new = [i \in 1..n |-> [item |-> lines[line[i]], sequence |-> e + i]]
  BY <1>1, <1>3, <1>8 DEF NewRows, InOrder
<1>10. \A i \in 1..n : [item |-> lines[line[i]], sequence |-> e + i] \in SilverRow
  <2> TAKE i \in 1..n
  <2>1. line[i] \in 1..Len(lines)
    BY <1>5, <1>9
  <2>2. lines[line[i]] \in 1..MaxPage
    <3>1. lines \in [1..Len(lines) -> 1..MaxPage]
      BY <1>0
    <3> QED
      BY <2>1, <3>1
  <2>3. e + i \in Nat
    OBVIOUS
  <2> QED
    BY <2>2, <2>3 DEF SilverRow
<1>11. new \in Seq(SilverRow) /\ Len(new) = n
  BY <1>9, <1>10
<1>12. \A i \in 1..n : new[i].sequence = e + i /\ new[i].item = lines[line[i]]
  BY <1>9
<1>13. ASSUME \A i \in 1..Len(lines) : MakesRow(i)
       PROVE  \A i \in 1..n : new[i].item = lines[e + i]
  <2>1. S = (e + 1)..t
    BY <1>0, <1>2, <1>4, <1>13
  <2>2. n = Cardinality((e + 1)..t) /\ line \in [1..n -> (e + 1)..t]
    BY <1>8, <2>1
  <2>3. \A i \in 1..n : line[i] = e + i
    <3>1. PICK a \in Int, b \in Int : a = e /\ b = t
      OBVIOUS
    <3>2. n = Cardinality((a + 1)..b) /\ line \in [1..n -> (a + 1)..b]
      BY <2>2, <3>1
    <3>3. \A i \in 1..n : line[i] = a + i
      <4>1. \A i, k \in 1..n : i < k => line[i] < line[k]
        BY <1>9
      <4> QED
        BY <3>2, <4>1, Counted
    <3> QED
      BY <3>1, <3>3
  <2> QED
    BY <1>12, <2>3
<1>14. Numbered(new, existing[j])
  BY <1>1, <1>11, <1>12, <1>13 DEF Numbered
<1>15. Covered(new, existing[j] + 1, text[j])
  <2>1. \A x \in S : \E i \in 1..n : line[i] = x
    <3>1. S \in SUBSET Int /\ IsFiniteSet(S) /\ n = Cardinality(S) /\ line \in [1..n -> S]
      BY <1>5, <1>7, <1>8
    <3> QED
      BY <1>9, <3>1, Enumerated
  <2>2. \A i \in (e + 1)..t : MakesRow(i) => i \in S
    BY <1>1, <1>2, <1>4
  <2>3. \A i \in (e + 1)..t : MakesRow(i) => \E k \in 1..Len(new) : new[k].item = lines[i]
    <3> SUFFICES ASSUME NEW i \in (e + 1)..t, MakesRow(i)
                 PROVE  \E k \in 1..Len(new) : new[k].item = lines[i]
      OBVIOUS
    <3>1. PICK k \in 1..n : line[k] = i
      BY <2>1, <2>2
    <3> QED
      BY <1>11, <1>12, <3>1
  <2> QED
    BY <1>1, <1>2, <2>3 DEF Covered
<1>16. existing[j] <= text[j] => existing[j] + Len(new) <= text[j]
  <2>1. n <= IF e + 1 > t THEN 0 ELSE t - (e + 1) + 1
    BY <1>6, <1>7, <1>8
  <2>2. e <= t => e + n <= t
    BY <2>1
  <2> QED
    BY <1>1, <1>2, <1>11, <2>2
<1> QED
  BY <1>11, <1>14, <1>15, <1>16

\* What was captured, and what is kept of it, are finitely many.
LEMMA PageFinite ==
    ASSUME SilverTypeOK
    PROVE  /\ IsFiniteSet(Lined) /\ Cardinality(Lined) \in Nat
           /\ IsFiniteSet(Kept) /\ Cardinality(Kept) \in Nat
           /\ Lined \subseteq 1..MaxPage /\ Kept \subseteq 1..MaxPage
<1>1. Len(page) \in Nat /\ Len(page) <= MaxPage /\ MaxPage \in Nat
  BY SilverAssumption DEF SilverTypeOK
<1>2. Lined \subseteq 1..Len(page) /\ Kept \subseteq 1..Len(page)
  BY DEF Lined, Kept
<1>3. IsFiniteSet(1..Len(page))
  BY <1>1, FS_Interval
<1>4. IsFiniteSet(Lined) /\ IsFiniteSet(Kept)
  BY <1>2, <1>3, FS_Subset
<1>5. Cardinality(Lined) \in Nat /\ Cardinality(Kept) \in Nat
  BY <1>4, FS_CardinalityType
<1>6. Lined \subseteq 1..MaxPage /\ Kept \subseteq 1..MaxPage
  BY <1>1, <1>2
<1> QED
  BY <1>4, <1>5, <1>6

\* What a save adds: a row for everything that is kept.
LEMMA SavedRowsFacts ==
    ASSUME SilverTypeOK, NEW new \in SavedRows
    PROVE  new \in Seq(SilverRow) /\ Len(new) = Cardinality(Kept)
<1>1. PICK n \in Nat : n = Cardinality(Kept)
  BY PageFinite
<1>2. PICK f \in [1..n -> Kept] :
          new = [i \in 1..n |-> [item |-> f[i], sequence |-> ActionNumber(f[i])]]
  BY <1>1 DEF SavedRows, InOrder
<1>3. ASSUME NEW i \in 1..n PROVE [item |-> f[i], sequence |-> ActionNumber(f[i])] \in SilverRow
  <2>1. f[i] \in 1..MaxPage
    BY <1>2, PageFinite
  <2>2. PICK B : B = {k \in 1..(f[i] - 1) : page[k] # "odd"}
    OBVIOUS
  <2>3. IsFiniteSet(1..(f[i] - 1)) /\ B \subseteq 1..(f[i] - 1)
    BY <2>1, <2>2, FS_Interval, SilverAssumption
  <2>4. Cardinality(B) \in Nat
    BY <2>3, FS_Subset, FS_CardinalityType
  <2>5. ActionNumber(f[i]) = Cardinality(B) + 1 \/ ActionNumber(f[i]) = Cardinality(B)
    BY <2>2 DEF ActionNumber
  <2>6. ActionNumber(f[i]) \in Nat
    BY <2>4, <2>5
  <2> QED
    BY <2>1, <2>6 DEF SilverRow
<1> QED
  BY <1>1, <1>2, <1>3

\* A log has no more lines than was captured for it.
LEMMA LinesBounded ==
    ASSUME SilverTypeOK, LinesOK
    PROVE  Len(lines) <= Cardinality(Lined)
<1>1. Len(lines) \in Nat /\ lines \in [1..Len(lines) -> 1..MaxPage] /\ MaxPage \in Nat
  BY SilverAssumption DEF SilverTypeOK
<1>2. \A i \in 1..Len(lines) : lines[i] \in Lined
  BY DEF LinesOK
<1>3. lines \in [1..Len(lines) -> Lined]
  BY <1>1, <1>2
<1>4. \A i, k \in 1..Len(lines) : lines[i] = lines[k] => i = k
  <2> SUFFICES ASSUME NEW i \in 1..Len(lines), NEW k \in 1..Len(lines), lines[i] = lines[k], i # k
               PROVE  FALSE
    OBVIOUS
  <2>1. (i < k \/ k < i) /\ lines[i] \in Int /\ lines[k] \in Int
    BY <1>1
  <2>2. i < k => lines[i] < lines[k]
    BY DEF LinesOK
  <2>3. k < i => lines[k] < lines[i]
    BY DEF LinesOK
  <2> QED
    BY <2>1, <2>2, <2>3
<1>5. lines \in Injection(1..Len(lines), Lined)
  BY <1>3, <1>4 DEF Injection, IsInjective
<1>6. Cardinality(1..Len(lines)) = Len(lines)
  BY <1>1, FS_Interval
<1> QED
  BY <1>5, <1>6, PageFinite, FS_Injection

\* Every step keeps the types, and one writing transaction at a time.
LEMMA SilverTypes == ASSUME SilverTypeOK, [SilverNext]_silverVars PROVE SilverTypeOK'
<1> USE SilverAssumption DEF SilverTypeOK, capture, promotion, Open
<1>1. ASSUME NEW k \in Captured, Capture(k) PROVE SilverTypeOK'
  <2>1. page' \in Seq(Captured) /\ Len(page') = Len(page) + 1
    BY <1>1 DEF Capture
  <2> QED
    BY <1>1, <2>1 DEF Capture
<1>2. ASSUME AppendLine PROVE SilverTypeOK'
  <2>1. PICK i \in Lined : lines' = Append(lines, i)
    BY <1>2 DEF AppendLine
  <2>2. i \in 1..MaxPage
    BY PageFinite
  <2>3. lines' \in Seq(1..MaxPage) /\ Len(lines') = Len(lines) + 1 /\ Len(lines) \in Nat
    BY <2>1, <2>2
  <2>4. 0..Len(lines) \subseteq 0..Len(lines')
    BY <2>3
  <2> QED
    BY <1>2, <2>3, <2>4 DEF AppendLine
<1>3. ASSUME RegisterLog \/ Lose PROVE SilverTypeOK'
  BY <1>3 DEF RegisterLog, Lose
<1>4. ASSUME Save PROVE SilverTypeOK'
  <2>1. PICK new \in SavedRows : silverRows' = silverRows \o new
    BY <1>4 DEF Save
  <2>2. silverRows' \in Seq(SilverRow)
    BY <2>1, SavedRowsFacts
  <2> QED
    BY <1>4, <2>2 DEF Save
<1>5. ASSUME NEW j \in Promoters, Count(j) PROVE SilverTypeOK'
  BY <1>5 DEF Count
<1>6. ASSUME NEW j \in Promoters, Read(j) PROVE SilverTypeOK'
  BY <1>6 DEF Read
<1>7. ASSUME NEW j \in Promoters, NothingNew(j) PROVE SilverTypeOK'
  BY <1>7 DEF NothingNew, Forget
<1>8. ASSUME NEW j \in Promoters, Insert(j) PROVE SilverTypeOK'
  <2>1. PICK new \in NewRows(j) : tx' = [tx EXCEPT ![j] = new]
    BY <1>8 DEF Insert
  <2>2. new \in Seq(SilverRow)
    BY NewRowsFacts
  <2> QED
    BY <1>8, <2>1, <2>2 DEF Insert, Unlocked
<1>9. ASSUME NEW j \in Promoters, CommitRows(j) PROVE SilverTypeOK'
  <2>1. silverRows \o tx[j] \in Seq(SilverRow)
    OBVIOUS
  <2> QED
    BY <1>9, <2>1 DEF CommitRows, Forget
<1>10. ASSUME NEW j \in Promoters, AbortPromotion(j) PROVE SilverTypeOK'
  BY <1>10 DEF AbortPromotion, Forget
<1>11. CASE UNCHANGED silverVars
  BY <1>11 DEF silverVars
<1> QED
  BY <1>1, <1>2, <1>3, <1>4, <1>5, <1>6, <1>7, <1>8, <1>9, <1>10, <1>11 DEF SilverNext, Promote

\* Captures and new lines leave the lines there are alone, and what they make.
LEMMA LinesKept ==
    ASSUME SilverTypeOK, LinesOK, AppendLine \/ \E k \in Captured : Capture(k)
    PROVE  /\ Len(lines') \in Nat /\ Len(lines) <= Len(lines')
           /\ \A i \in 1..Len(lines) : i \in 1..Len(lines') /\ lines'[i] = lines[i]
           /\ \A i \in 1..Len(lines) : MakesRow(i)' = MakesRow(i)
           /\ LinesOK'
<1>1. /\ lines \in Seq(1..MaxPage) /\ Len(lines) \in Nat /\ page \in Seq(Captured)
      /\ Len(page) \in Nat /\ MaxPage \in Nat
      /\ \A i \in 1..Len(lines) : lines[i] \in 1..Len(page) /\ page[lines[i]] # "navigation"
  BY SilverAssumption DEF SilverTypeOK, LinesOK, Lined
<1>2. CASE AppendLine
  <2>1. PICK i \in Lined : lines' = Append(lines, i) /\ \A k \in 1..Len(lines) : lines[k] < i
    BY <1>2 DEF AppendLine
  <2>2. page' = page /\ source' = source /\ i \in 1..Len(page) /\ page[i] # "navigation"
    BY <1>2 DEF AppendLine, Lined
  <2>3. /\ Len(lines') = Len(lines) + 1 /\ lines'[Len(lines) + 1] = i
        /\ \A k \in 1..Len(lines) : k \in 1..Len(lines') /\ lines'[k] = lines[k]
        /\ \A k \in 1..Len(lines') : k \in 1..Len(lines) \/ k = Len(lines) + 1
    BY <1>1, <2>1, <2>2
  <2>4. \A k \in 1..Len(lines) : MakesRow(k)' = MakesRow(k)
    BY <2>2, <2>3 DEF MakesRow
  <2>5. \A k \in 1..Len(lines') : lines'[k] \in Lined'
    BY <1>1, <2>2, <2>3 DEF Lined
  <2>6. \A k, m \in 1..Len(lines') : k < m => lines'[k] < lines'[m]
    BY <1>1, <2>1, <2>3 DEF LinesOK
  <2> QED
    BY <1>1, <2>3, <2>4, <2>5, <2>6 DEF LinesOK
<1>3. ASSUME NEW k \in Captured, Capture(k) PROVE
           /\ lines' = lines
           /\ \A i \in 1..Len(lines) : MakesRow(i)' = MakesRow(i)
           /\ LinesOK'
  <2>1. page' = Append(page, k) /\ lines' = lines /\ source' = source
    BY <1>3 DEF Capture
  <2>2. /\ Len(page') = Len(page) + 1
        /\ \A i \in 1..Len(page) : i \in 1..Len(page') /\ page'[i] = page[i]
    BY <1>1, <2>1
  <2>3. \A i \in 1..Len(lines) : MakesRow(i)' = MakesRow(i)
    BY <1>1, <2>1, <2>2 DEF MakesRow
  <2>4. \A i \in 1..Len(lines) : lines[i] \in Lined'
    BY <1>1, <2>1, <2>2 DEF Lined
  <2> QED
    BY <2>1, <2>3, <2>4 DEF LinesOK
<1> QED
  BY <1>1, <1>2, <1>3

\* All other steps leave them alone, too.
LEMMA LinesStep == ASSUME SilverTypeOK, LinesOK, [SilverNext]_silverVars PROVE LinesOK'
<1>1. CASE AppendLine \/ \E k \in Captured : Capture(k)
  BY <1>1, LinesKept
<1>2. CASE UNCHANGED <<source, page, lines>>
  BY <1>2 DEF LinesOK, Lined
<1> QED
  BY <1>1, <1>2 DEF SilverNext, RegisterLog, Save, Lose, Promote, Count, Read, NothingNew, Insert,
     CommitRows, AbortPromotion, capture, silverVars

\* Every step that neither overlaps nor saves keeps RecoveryOK.
LEMMA RecoveryStep ==
    ASSUME SilverTypeOK, SilverTypeOK', LinesOK, RecoveryOK, [SilverNext]_silverVars,
           ~overlapped', ~Save
    PROVE  RecoveryOK'
<1>0. /\ lines \in Seq(1..MaxPage) /\ Len(lines) \in Nat /\ promoted \in 0..Len(lines)
      /\ silverRows \in Seq(SilverRow) /\ Len(silverRows) \in Nat
      /\ \A j \in Promoters : /\ text[j] \in 0..Len(lines) /\ existing[j] \in Nat
                         /\ tx[j] \in Seq(SilverRow) /\ Len(tx[j]) \in Nat
      /\ stage \in [Promoters -> {"idle", "counted", "read", "inserted"}]
      /\ existing \in [Promoters -> Nat] /\ text \in [Promoters -> 0..Len(lines)]
      /\ tx \in [Promoters -> Seq(SilverRow)]
  BY DEF SilverTypeOK
<1> USE DEF capture, promotion
<1>1. CASE AppendLine \/ \E k \in Captured : Capture(k)
  <2>1. UNCHANGED <<silverRows, stage, existing, text, tx, promoted>>
    BY <1>1 DEF AppendLine, Capture
  <2>2. /\ Len(lines') \in Nat /\ Len(lines) <= Len(lines')
        /\ \A i \in 1..Len(lines) : i \in 1..Len(lines') /\ lines'[i] = lines[i]
        /\ \A i \in 1..Len(lines) : MakesRow(i)' = MakesRow(i)
    BY <1>1, LinesKept
  <2>3. ASSUME NEW s \in Seq(SilverRow), NEW n \in Nat, n + Len(s) <= Len(lines), Numbered(s, n)
        PROVE  /\ \A i \in 1..Len(s) : s[i].sequence = n + i
               /\ (\A i \in 1..Len(lines') : MakesRow(i)') =>
                     \A i \in 1..Len(s) : s[i].item = lines'[n + i]
    <3>1. \A i \in 1..Len(s) : n + i \in 1..Len(lines)
      BY <1>0, <2>3
    <3>2. (\A i \in 1..Len(lines') : MakesRow(i)') => \A i \in 1..Len(lines) : MakesRow(i)
      BY <2>2
    <3> QED
      BY <2>2, <2>3, <3>1, <3>2 DEF Numbered
  <2>4. ASSUME NEW s, NEW m \in Nat \ {0}, NEW n \in 0..Len(lines), Covered(s, m, n)
        PROVE  \A i \in m..n : MakesRow(i)' => \E k \in 1..Len(s) : s[k].item = lines'[i]
    <3>1. m..n \subseteq 1..Len(lines)
      BY <1>0
    <3> QED
      BY <2>2, <2>4, <3>1 DEF Covered
  <2>5. Numbered(silverRows, 0)' /\ Covered(silverRows, 1, promoted)'
    <3>1. /\ Numbered(silverRows, 0) /\ Covered(silverRows, 1, promoted)
          /\ 0 + Len(silverRows) <= Len(lines) /\ 0 \in Nat /\ 1 \in Nat \ {0}
      BY <1>0 DEF RecoveryOK
    <3>2. /\ \A i \in 1..Len(silverRows) : silverRows[i].sequence = 0 + i
          /\ (\A i \in 1..Len(lines') : MakesRow(i)') =>
                \A i \in 1..Len(silverRows) : silverRows[i].item = lines'[0 + i]
      BY <1>0, <2>3, <3>1
    <3>3. \A i \in 1..promoted : MakesRow(i)' =>
                \E k \in 1..Len(silverRows) : silverRows[k].item = lines'[i]
      BY <1>0, <2>4, <3>1
    <3> QED
      BY <2>1, <3>2, <3>3 DEF Numbered, Covered
  <2>6. ASSUME NEW j \in Promoters, stage[j] # "idle" PROVE AloneOK(j)'
    <3>1. AloneOK(j)
      BY <2>6 DEF RecoveryOK
    <3>2. CASE stage[j] = "inserted"
      <4>1. /\ existing[j] + 1 \in Nat \ {0} /\ text[j] \in 0..Len(lines) /\ existing[j] \in Nat
            /\ existing[j] + Len(tx[j]) <= Len(lines) /\ tx[j] \in Seq(SilverRow)
            /\ Numbered(tx[j], existing[j]) /\ Covered(tx[j], existing[j] + 1, text[j])
        BY <1>0, <3>1, <3>2 DEF AloneOK
      <4>2. /\ \A i \in 1..Len(tx[j]) : tx[j][i].sequence = existing[j] + i
            /\ (\A i \in 1..Len(lines') : MakesRow(i)') =>
                  \A i \in 1..Len(tx[j]) : tx[j][i].item = lines'[existing[j] + i]
        BY <2>3, <4>1
      <4>3. \A i \in (existing[j] + 1)..text[j] : MakesRow(i)' =>
                  \E k \in 1..Len(tx[j]) : tx[j][k].item = lines'[i]
        BY <2>4, <4>1
      <4>4. Numbered(tx[j], existing[j])' /\ Covered(tx[j], existing[j] + 1, text[j])'
        BY <2>1, <4>2, <4>3 DEF Numbered, Covered
      <4> QED
        BY <2>1, <3>1, <4>4 DEF AloneOK
    <3>3. CASE stage[j] # "inserted"
      BY <2>1, <3>1, <3>3 DEF AloneOK
    <3> QED
      BY <3>2, <3>3
  <2> QED
    BY <2>1, <2>5, <2>6 DEF RecoveryOK
<1>2. ASSUME NEW j \in Promoters, Count(j) PROVE RecoveryOK'
  <2>1. /\ \A k \in Promoters : stage[k] = "idle"
        /\ stage' = [stage EXCEPT ![j] = "counted"] /\ existing' = [existing EXCEPT ![j] = Len(silverRows)]
        /\ UNCHANGED <<source, page, lines, silverRows, text, tx, promoted>>
    BY <1>2 DEF Count
  <2>2. /\ \A k \in Promoters : stage'[k] # "idle" => k = j
        /\ stage'[j] = "counted" /\ existing'[j] = Len(silverRows')
    BY <1>0, <2>1
  <2>3. AloneOK(j)'
    BY <2>2 DEF AloneOK
  <2>4. Numbered(silverRows, 0)' /\ Covered(silverRows, 1, promoted)' /\ (Len(silverRows) <= promoted)'
    BY <2>1 DEF RecoveryOK, Numbered, Covered, MakesRow
  <2> QED
    BY <2>2, <2>3, <2>4 DEF RecoveryOK
<1>3. ASSUME NEW j \in Promoters, Read(j) PROVE RecoveryOK'
  <2>1. /\ stage[j] = "counted" /\ stage' = [stage EXCEPT ![j] = "read"]
        /\ text' = [text EXCEPT ![j] = Len(lines)]
        /\ UNCHANGED <<source, page, lines, silverRows, existing, tx, promoted>>
    BY <1>3 DEF Read
  <2>2. AloneOK(j)
    BY <2>1 DEF RecoveryOK
  <2>3. /\ \A k \in Promoters : stage'[k] # "idle" => k = j
        /\ stage'[j] = "read" /\ text'[j] = Len(lines) /\ promoted <= Len(lines)
    BY <1>0, <2>1, <2>2 DEF AloneOK
  <2>4. AloneOK(j)'
    BY <2>1, <2>2, <2>3 DEF AloneOK
  <2>5. Numbered(silverRows, 0)' /\ Covered(silverRows, 1, promoted)' /\ (Len(silverRows) <= promoted)'
    BY <2>1 DEF RecoveryOK, Numbered, Covered, MakesRow
  <2> QED
    BY <2>3, <2>4, <2>5 DEF RecoveryOK
<1>4. ASSUME NEW j \in Promoters, NothingNew(j) PROVE RecoveryOK'
  <2>1. /\ stage[j] = "read" /\ Promotable(j) = {} /\ promoted' = text[j]
        /\ stage' = [stage EXCEPT ![j] = "idle"] /\ UNCHANGED <<source, page, lines, silverRows>>
    BY <1>4 DEF NothingNew, Forget
  <2>2. AloneOK(j)
    BY <2>1 DEF RecoveryOK
  <2>3. \A k \in Promoters : stage'[k] = "idle"
    BY <1>0, <2>1, <2>2 DEF AloneOK
  <2>4. existing[j] = Len(silverRows) /\ promoted <= text[j] /\ Len(silverRows) <= promoted
    BY <2>1, <2>2 DEF AloneOK, RecoveryOK
  <2>5. ASSUME NEW i \in 1..text[j], MakesRow(i) PROVE i <= existing[j]
    <3>1. ~(i > existing[j])
      BY <2>1, <2>5 DEF Promotable
    <3> QED
      BY <1>0, <3>1
  <2>6. \A i \in 1..text[j] : MakesRow(i) => i \in 1..promoted
    BY <1>0, <2>4, <2>5
  <2>7. Covered(silverRows, 1, promoted)'
    BY <2>1, <2>6 DEF RecoveryOK, Covered, MakesRow
  <2>8. Numbered(silverRows, 0)'
    BY <2>1 DEF RecoveryOK, Numbered, MakesRow
  <2>9. Len(silverRows') <= promoted'
    BY <1>0, <2>1, <2>4
  <2> QED
    BY <2>3, <2>7, <2>8, <2>9 DEF RecoveryOK
<1>5. ASSUME NEW j \in Promoters, Insert(j) PROVE RecoveryOK'
  <2>1. PICK new \in NewRows(j) : tx' = [tx EXCEPT ![j] = new]
    BY <1>5 DEF Insert
  <2>2. /\ stage[j] = "read" /\ stage' = [stage EXCEPT ![j] = "inserted"]
        /\ UNCHANGED <<source, page, lines, silverRows, existing, text, promoted>>
    BY <1>5 DEF Insert
  <2>3. AloneOK(j)
    BY <2>2 DEF RecoveryOK
  <2>4. /\ Numbered(new, existing[j]) /\ Covered(new, existing[j] + 1, text[j])
        /\ existing[j] <= text[j] => existing[j] + Len(new) <= text[j]
    BY NewRowsFacts
  <2>5. existing[j] <= text[j]
    BY <1>0, <2>2, <2>3 DEF AloneOK, RecoveryOK
  <2>6. /\ \A k \in Promoters : stage'[k] # "idle" => k = j
        /\ stage'[j] = "inserted" /\ tx'[j] = new
    BY <1>0, <2>1, <2>2, <2>3 DEF AloneOK
  <2>7. Numbered(tx[j], existing[j])' /\ Covered(tx[j], existing[j] + 1, text[j])'
    BY <2>2, <2>4, <2>6 DEF Numbered, Covered, MakesRow
  <2>8. AloneOK(j)'
    BY <2>2, <2>3, <2>4, <2>5, <2>6, <2>7 DEF AloneOK
  <2>9. Numbered(silverRows, 0)' /\ Covered(silverRows, 1, promoted)' /\ (Len(silverRows) <= promoted)'
    BY <2>2 DEF RecoveryOK, Numbered, Covered, MakesRow
  <2> QED
    BY <2>6, <2>8, <2>9 DEF RecoveryOK
<1>6. ASSUME NEW j \in Promoters, CommitRows(j) PROVE RecoveryOK'
  <2>1. /\ stage[j] = "inserted" /\ silverRows' = silverRows \o tx[j] /\ promoted' = text[j]
        /\ stage' = [stage EXCEPT ![j] = "idle"] /\ UNCHANGED <<source, page, lines>>
    BY <1>6 DEF CommitRows, Forget
  <2>2. AloneOK(j)
    BY <2>1 DEF RecoveryOK
  <2>3. \A k \in Promoters : stage'[k] = "idle"
    BY <1>0, <2>1, <2>2 DEF AloneOK
  <2>4. PICK s \in Seq(SilverRow) : s = silverRows
    BY <1>0
  <2>5. PICK t \in Seq(SilverRow) : t = tx[j]
    BY <1>0
  <2>6. PICK w : w = s \o t
    OBVIOUS
  <2>7. /\ Len(s) \in Nat /\ Len(t) \in Nat /\ Len(w) = Len(s) + Len(t)
        /\ \A i \in 1..Len(s) : i \in 1..Len(w) /\ w[i] = s[i]
        /\ \A i \in 1..Len(t) : Len(s) + i \in 1..Len(w) /\ w[Len(s) + i] = t[i]
        /\ \A i \in 1..Len(w) : \/ i \in 1..Len(s) /\ w[i] = s[i]
                                \/ i - Len(s) \in 1..Len(t) /\ w[i] = t[i - Len(s)]
    BY <2>6, Concatenated
  <2>8. /\ existing[j] = Len(s) /\ Len(s) + Len(t) <= text[j] /\ promoted <= text[j]
        /\ Numbered(t, Len(s)) /\ Covered(t, Len(s) + 1, text[j])
        /\ Len(s) <= promoted /\ Numbered(s, 0) /\ Covered(s, 1, promoted)
    BY <2>1, <2>2, <2>4, <2>5 DEF AloneOK, RecoveryOK
  <2>9. \A i \in 1..Len(w) : w[i].sequence = i
    <3> TAKE i \in 1..Len(w)
    <3>1. CASE i \in 1..Len(s) /\ w[i] = s[i]
      BY <2>7, <2>8, <3>1 DEF Numbered, MakesRow
    <3>2. CASE i - Len(s) \in 1..Len(t) /\ w[i] = t[i - Len(s)]
      <4>1. PICK k \in 1..Len(t) : k = i - Len(s) /\ Len(s) + k = i
        BY <2>7, <3>2
      <4> QED
        BY <2>8, <3>2, <4>1 DEF Numbered, MakesRow
    <3> QED
      BY <2>7, <3>1, <3>2
  <2>10. ASSUME \A i \in 1..Len(lines) : MakesRow(i)
         PROVE  \A i \in 1..Len(w) : w[i].item = lines[i]
    <3> TAKE i \in 1..Len(w)
    <3>1. CASE i \in 1..Len(s) /\ w[i] = s[i]
      BY <2>7, <2>8, <2>10, <3>1 DEF Numbered, MakesRow
    <3>2. CASE i - Len(s) \in 1..Len(t) /\ w[i] = t[i - Len(s)]
      <4>1. PICK k \in 1..Len(t) : k = i - Len(s) /\ Len(s) + k = i
        BY <2>7, <3>2
      <4> QED
        BY <2>8, <2>10, <3>2, <4>1 DEF Numbered, MakesRow
    <3> QED
      BY <2>7, <3>1, <3>2
  <2>11. \A i \in 1..text[j] : MakesRow(i) => \E k \in 1..Len(w) : w[k].item = lines[i]
    <3> SUFFICES ASSUME NEW i \in 1..text[j], MakesRow(i)
                 PROVE  \E k \in 1..Len(w) : w[k].item = lines[i]
      OBVIOUS
    <3>1. CASE i \in 1..promoted
      <4>1. PICK k \in 1..Len(s) : s[k].item = lines[i]
        BY <2>8, <3>1 DEF Covered, MakesRow
      <4> QED
        BY <2>7, <4>1
    <3>2. CASE i \in (Len(s) + 1)..text[j]
      <4>1. PICK k \in 1..Len(t) : t[k].item = lines[i]
        BY <2>8, <3>2 DEF Covered, MakesRow
      <4> QED
        BY <2>7, <4>1
    <3> QED
      BY <1>0, <2>7, <2>8, <3>1, <3>2
  <2>12. silverRows' = w /\ promoted' = text[j]
    BY <2>1, <2>4, <2>5, <2>6
  <2>13. Numbered(silverRows, 0)'
    BY <2>1, <2>7, <2>9, <2>10, <2>12 DEF Numbered, MakesRow
  <2>14. Covered(silverRows, 1, promoted)'
    BY <2>1, <2>11, <2>12 DEF Covered, MakesRow
  <2>15. Len(silverRows') <= promoted'
    BY <2>7, <2>8, <2>12
  <2> QED
    BY <2>3, <2>13, <2>14, <2>15 DEF RecoveryOK
<1>7. ASSUME NEW j \in Promoters, AbortPromotion(j) PROVE RecoveryOK'
  <2>1. stage[j] # "idle" /\ stage' = [stage EXCEPT ![j] = "idle"] /\ UNCHANGED <<source, page, lines, silverRows, promoted>>
    BY <1>7 DEF AbortPromotion, Forget
  <2>2. \A k \in Promoters : stage'[k] = "idle"
    BY <1>0, <2>1 DEF RecoveryOK, AloneOK
  <2>3. Numbered(silverRows, 0)' /\ Covered(silverRows, 1, promoted)' /\ (Len(silverRows) <= promoted)'
    BY <2>1 DEF RecoveryOK, Numbered, Covered, MakesRow
  <2> QED
    BY <2>2, <2>3 DEF RecoveryOK
<1>8. CASE RegisterLog \/ Lose \/ UNCHANGED silverVars
  <2>1. UNCHANGED <<source, page, lines, silverRows, stage, existing, text, tx, promoted>>
    BY <1>8 DEF RegisterLog, Lose, silverVars
  <2>2. Numbered(silverRows, 0)' /\ Covered(silverRows, 1, promoted)' /\ (Len(silverRows) <= promoted)'
    BY <2>1 DEF RecoveryOK, Numbered, Covered, MakesRow
  <2>3. ASSUME NEW j \in Promoters, stage'[j] # "idle" PROVE AloneOK(j)'
    <3>1. AloneOK(j)
      BY <2>1, <2>3 DEF RecoveryOK
    <3> QED
      BY <2>1, <3>1 DEF AloneOK, Numbered, Covered, MakesRow
  <2> QED
    BY <2>2, <2>3 DEF RecoveryOK
<1>9. ASSUME NEW j \in Promoters, Promote(j) PROVE RecoveryOK'
  BY <1>2, <1>3, <1>4, <1>5, <1>6, <1>9 DEF Promote
<1> QED
  BY <1>1, <1>7, <1>8, <1>9 DEF SilverNext

\* What the rows of a recording that is saved are, does not depend on the lines.
LEMMA SavedKept ==
    ASSUME UNCHANGED <<source, page>>
    PROVE  SavedRows' = SavedRows /\ Kept' = Kept /\ Lined' = Lined /\ Quiet' = Quiet
<1>1. Kept' = Kept /\ Lined' = Lined
  BY DEF Kept, Lined
<1>2. ASSUME NEW i PROVE ActionNumber(i)' = ActionNumber(i)
  BY DEF ActionNumber
<1> QED
  BY <1>1, <1>2 DEF SavedRows, Quiet

\* While a recording is saved, and as many rows are there as lines, every
\* promotion finds nothing to do.
LEMMA SavedStep ==
    ASSUME SilverTypeOK, LinesOK, [SilverNext]_silverVars,
           recording = "saved" /\ Quiet => SavedOK
    PROVE  (recording = "saved" /\ Quiet => SavedOK)'
<1> SUFFICES ASSUME recording' = "saved", Quiet' PROVE SavedOK'
  OBVIOUS
<1> USE DEF capture, promotion
<1>0. /\ stage \in [Promoters -> {"idle", "counted", "read", "inserted"}]
      /\ existing \in [Promoters -> Nat] /\ text \in [Promoters -> 0..Len(lines)]
      /\ Len(lines) \in Nat /\ silverRows \in Seq(SilverRow)
  BY DEF SilverTypeOK
<1>1. CASE Save
  <2>1. PICK new \in SavedRows : silverRows' = silverRows \o new
    BY <1>1 DEF Save
  <2>2. /\ silverRows = <<>> /\ \A j \in Promoters : stage[j] = "idle"
        /\ UNCHANGED <<source, page, stage>>
    BY <1>1 DEF Save
  <2>3. silverRows' \in SavedRows
    BY <2>1, <2>2, SavedRowsFacts
  <2> QED
    BY <2>2, <2>3, SavedKept DEF SavedOK
<1>2. CASE recording = "saved"
  <2>1. /\ ~Save /\ ~RegisterLog /\ ~Lose /\ \A k \in Captured : ~Capture(k)
    BY <1>2 DEF Save, RegisterLog, Lose, Capture, Open
  <2>2. UNCHANGED <<source, page>>
    BY <2>1 DEF SilverNext, AppendLine, Promote, Count, Read, NothingNew, Insert, CommitRows,
       AbortPromotion, silverVars
  <2>3. SavedRows' = SavedRows /\ Kept' = Kept /\ Quiet
    BY <2>2, SavedKept
  <2>4. SavedOK
    BY <1>2, <2>3
  <2>5. Len(silverRows) = Cardinality(Kept) /\ Cardinality(Kept) \in Nat
    BY <2>4, SavedRowsFacts, PageFinite DEF SavedOK
  <2>6. ASSUME NEW j \in Promoters, stage[j] # "idle" PROVE Promotable(j) = {}
    <3>1. CASE source = "ingest"
      BY <3>1 DEF Promotable, MakesRow
    <3>2. CASE Cardinality(Lined) <= Cardinality(Kept)
      <4>1. existing[j] = Cardinality(Kept) /\ text[j] \in 0..Len(lines)
        BY <1>0, <2>4, <2>6 DEF SavedOK
      <4>2. Len(lines) <= Cardinality(Kept)
        BY <1>0, <2>5, <3>2, LinesBounded, PageFinite
      <4>3. \A i \in 1..text[j] : ~(i > existing[j])
        BY <1>0, <2>5, <4>1, <4>2
      <4> QED
        BY <4>3 DEF Promotable
    <3> QED
      BY <2>3, <3>1, <3>2 DEF Quiet
  <2>7. ASSUME NEW j \in Promoters, Count(j) PROVE SavedOK'
    BY <1>0, <2>3, <2>4, <2>5, <2>7 DEF Count, SavedOK
  <2>8. ASSUME NEW j \in Promoters, Read(j) PROVE SavedOK'
    BY <1>0, <2>3, <2>4, <2>8 DEF Read, SavedOK
  <2>9. ASSUME NEW j \in Promoters, NothingNew(j) \/ AbortPromotion(j) PROVE SavedOK'
    BY <1>0, <2>3, <2>4, <2>9 DEF NothingNew, AbortPromotion, Forget, SavedOK
  <2>10. ASSUME NEW j \in Promoters, Insert(j) PROVE FALSE
    BY <2>6, <2>10 DEF Insert
  <2>11. ASSUME NEW j \in Promoters, CommitRows(j) PROVE FALSE
    BY <2>4, <2>11 DEF CommitRows, SavedOK
  <2>12. CASE AppendLine \/ UNCHANGED silverVars
    BY <2>3, <2>4, <2>12 DEF AppendLine, silverVars, SavedOK
  <2> QED
    BY <2>1, <2>7, <2>8, <2>9, <2>10, <2>11, <2>12 DEF SilverNext, Promote
<1> QED
  BY <1>1, <1>2 DEF SilverNext, RegisterLog, Lose, Capture, AppendLine, Promote, Count, Read, NothingNew,
     Insert, CommitRows, AbortPromotion, silverVars, Open

\* The log of a recording and its rows, whoever writes them: whatever is captured,
\* lost, filtered and saved, and whatever promotions fail (medallion/silver.py:149-207,
\* storage/repositories.py:106-124).
THEOREM SilverInvariant == SilverSpec => []SilverInv
<1>1. SilverInit => SilverInv
  <2> SUFFICES ASSUME SilverInit PROVE SilverInv
    OBVIOUS
  <2>1. /\ <<>> \in Seq(Captured) /\ <<>> \in Seq(SilverRow) /\ <<>> \in Seq(1..MaxPage)
        /\ Len(<<>>) = 0
    OBVIOUS
  <2>2. /\ Len(lines) = 0 /\ Len(page) = 0 /\ 0 <= MaxPage /\ 0 \in 0..0 /\ 0 \in 0..MaxFailed
        /\ \A j \in Promoters : tx[j] = <<>> /\ text[j] = 0
    BY <2>1, SilverAssumption DEF SilverInit
  <2>3. /\ tx \in [Promoters -> Seq(SilverRow)] /\ text \in [Promoters -> 0..Len(lines)]
        /\ existing \in [Promoters -> Nat] /\ promoted \in 0..Len(lines)
    BY <2>1, <2>2 DEF SilverInit
  <2>4. SilverTypeOK
    BY <2>1, <2>2, <2>3 DEF SilverInit, SilverTypeOK, Open
  <2> QED
    BY <2>1, <2>4 DEF SilverInit, SilverInv, LinesOK, RecoveryOK, Numbered, Covered
<1>2. ASSUME SilverInv, [SilverNext]_silverVars PROVE SilverInv'
  <2>1. SilverTypeOK' /\ LinesOK'
    BY <1>2, SilverTypes, LinesStep DEF SilverInv
  <2>2. overlapped => overlapped'
    BY <1>2 DEF SilverNext, Capture, AppendLine, RegisterLog, Save, Lose, Promote, Count, Read, NothingNew,
       Insert, CommitRows, AbortPromotion, promotion, silverVars
  <2>3. ASSUME recording' \in Open \union {"lost"}
        PROVE  ~Save /\ recording \in Open \union {"lost"}
    BY <1>2, <2>3 DEF SilverNext, Capture, AppendLine, RegisterLog, Save, Lose, Promote, Count, Read,
       NothingNew, Insert, CommitRows, AbortPromotion, capture, silverVars, Open
  <2>4. (~overlapped /\ recording \in Open \union {"lost"} => RecoveryOK)'
    <3> SUFFICES ASSUME ~overlapped', recording' \in Open \union {"lost"} PROVE RecoveryOK'
      BY DEF Open
    <3> QED
      BY <1>2, <2>1, <2>2, <2>3, RecoveryStep DEF SilverInv
  <2>5. (recording = "saved" /\ Quiet => SavedOK)'
    BY <1>2, SavedStep DEF SilverInv
  <2> QED
    BY <2>1, <2>4, <2>5 DEF SilverInv
<1> QED
  BY <1>1, <1>2, PTL DEF SilverSpec

\* In recovery, as long as promotions do not overlap, no event is passed over,
\* although promotion resumes at the number of rows (medallion/silver.py:169).
THEOREM NothingIsPassedOver == SilverSpec => []SilverCovers
<1>1. SilverInv => SilverCovers
  <2> SUFFICES ASSUME SilverInv, ~overlapped, recording \in Open \union {"lost"}
               PROVE  /\ \A i \in 1..Len(silverRows) : silverRows[i].sequence = i
                      /\ \A i \in 1..promoted : MakesRow(i) =>
                            \E k \in 1..Len(silverRows) : silverRows[k].item = lines[i]
                      /\ Len(silverRows) <= promoted
                      /\ (\A i \in 1..Len(lines) : MakesRow(i)) =>
                            \A i \in 1..Len(silverRows) : silverRows[i].item = lines[i]
    BY DEF SilverCovers
  <2>1. RecoveryOK /\ Len(silverRows) \in Nat /\ \A i \in 1..Len(silverRows) : 0 + i = i
    BY DEF SilverInv, SilverTypeOK
  <2>2. Numbered(silverRows, 0) /\ Covered(silverRows, 1, promoted) /\ Len(silverRows) <= promoted
    BY <2>1 DEF RecoveryOK
  <2>3. /\ \A i \in 1..Len(silverRows) : silverRows[i].sequence = i
        /\ (\A i \in 1..Len(lines) : MakesRow(i)) =>
              \A i \in 1..Len(silverRows) : silverRows[i].item = lines[i]
    BY <2>1, <2>2 DEF Numbered
  <2> QED
    BY <2>2, <2>3 DEF Covered
<1> QED
  BY <1>1, SilverInvariant, PTL

\* Promotions leave the rows of a saved recording alone, even if they overlap, as
\* long as it has as many rows as lines (medallion/silver.py:164).
THEOREM SavedRecordingsStay == SilverSpec => []SavedRowsStay
<1>1. SilverInv => SavedRowsStay
  BY DEF SilverInv, SavedOK, SavedRowsStay
<1> QED
  BY <1>1, SilverInvariant, PTL

-----------------------------------------------------------------------------
(* Bronze.  A pass works from a list, and OnlyExpiredGo is a claim about the*)
(* table at its commit: that the ids on the list still stand for rows that  *)
(* may go.  They do, because an id is fresh when it is given out: PruneOK   *)
(* says that what any transaction adds is on no list, and that whatever row *)
(* has an id that is listed or deleted may go.                              *)

\* A nonempty set of numbers has a smallest element.
LEMMA Smallest ==
    ASSUME NEW S \in SUBSET Nat, S # {}
    PROVE  \E x \in S : \A y \in S : x <= y
<1>1. PICK x \in S : \A y \in S : ~(<<y, x>> \in OpToRel(<, Nat))
  BY WFMin, NatLessThanWellFounded
<1>2. \A y \in S : ~(y < x)
  BY <1>1 DEF OpToRel
<1> QED
  BY <1>2

\* The image of a finite set is finite and no larger.
LEMMA ImageFinite ==
    ASSUME NEW S, NEW T, IsFiniteSet(S), NEW f \in [S -> T], \A t \in T : \E s \in S : f[s] = t
    PROVE  IsFiniteSet(T) /\ Cardinality(T) <= Cardinality(S)
<1>1. f \in Surjection(S, T)
  BY DEF Surjection
<1> QED
  BY <1>1, FS_Surjection DEF ExistsSurjection

-----------------------------------------------------------------------------
\* What FreshId has to avoid.
Known == rows \union UNION {writes[j].add \union todo[j] : j \in Workers}

\* The rows that anybody knows are finitely many.
LEMMA KnownFinite == ASSUME UpkeepTypeOK, FiniteOK PROVE IsFiniteSet(Known) /\ Known \subseteq Row
<1> DEFINE here == [j \in Workers |-> writes[j].add \union todo[j]]
           F == {writes[j].add \union todo[j] : j \in Workers}
<1>1. IsFiniteSet(Workers)
  BY UpkeepAssumption, FS_Union DEF Workers
<1>2. here \in [Workers -> F] /\ \A t \in F : \E j \in Workers : here[j] = t
  OBVIOUS
<1>3. \A t \in F : IsFiniteSet(t)
  BY FS_Union DEF FiniteOK
<1> HIDE DEF here, F
<1>4. IsFiniteSet(F)
  BY <1>1, <1>2, ImageFinite
<1>5. IsFiniteSet(UNION F)
  BY <1>3, <1>4, FS_UNION
<1>6. Known = rows \union UNION F
  BY DEF Known, F
<1>7. IsFiniteSet(Known)
  BY <1>5, <1>6, FS_Union DEF FiniteOK
<1>8. UNION F \subseteq Row
  BY DEF F, UpkeepTypeOK
<1> QED
  BY <1>6, <1>7, <1>8 DEF UpkeepTypeOK

\* So there is a fresh id.
LEMMA FreshFacts == ASSUME UpkeepTypeOK, FiniteOK PROVE FreshId \in Nat /\ \A r \in Known : r.id # FreshId
<1> DEFINE n == Cardinality(Known)
           ids == {r.id : r \in Known}
           id == [r \in Known |-> r.id]
           free == {i \in 1..(n + 1) : i \notin ids}
<1>1. n \in Nat /\ IsFiniteSet(Known)
  BY KnownFinite, FS_CardinalityType
<1>2. ids \subseteq Nat
  BY KnownFinite DEF Row
<1>3. IsFiniteSet(ids) /\ Cardinality(ids) <= n
  <2>1. id \in [Known -> ids] /\ \A t \in ids : \E r \in Known : id[r] = t
    OBVIOUS
  <2> HIDE DEF id, ids
  <2> QED
    BY <1>1, <2>1, ImageFinite
<1>4. Cardinality(1..(n + 1)) = n + 1
  <2>1. 1 \in Int /\ n + 1 \in Int
    BY <1>1
  <2>2. PICK m \in Int : m = n + 1
    BY <2>1
  <2>3. Cardinality(1..m) = IF 1 > m THEN 0 ELSE m - 1 + 1
    BY FS_Interval
  <2> QED
    BY <1>1, <2>2, <2>3
<1>5. free # {}
  <2> SUFFICES ASSUME free = {} PROVE FALSE
    OBVIOUS
  <2>1. 1..(n + 1) \subseteq ids
    OBVIOUS
  <2>2. Cardinality(1..(n + 1)) <= Cardinality(ids)
    BY <1>3, <2>1, FS_Subset
  <2>3. Cardinality(ids) \in Nat
    BY <1>3, FS_CardinalityType
  <2> QED
    BY <1>1, <1>3, <1>4, <2>2, <2>3
<1>6. free \subseteq Nat
  BY <1>1
<1>7. PICK i \in free : \A k \in free : i <= k
  <2> HIDE DEF free
  <2> QED
    BY <1>5, <1>6, Smallest
<1>8. i \in 1..(n + 1) /\ (\A r \in Known : r.id # i)
  OBVIOUS
<1>9. \A k \in 1..(i - 1) : \E r \in Known : r.id = k
  <2> TAKE k \in 1..(i - 1)
  <2>1. k \in 1..(n + 1) /\ ~(i <= k)
    BY <1>1, <1>8
  <2>2. k \notin free
    BY <1>7, <2>1
  <2> QED
    BY <2>1, <2>2
<1>10. FreshId = CHOOSE m \in 1..(n + 1) : /\ \A r \in Known : r.id # m
                                          /\ \A k \in 1..(m - 1) : \E r \in Known : r.id = k
  BY DEF FreshId, Known
<1> HIDE DEF n
<1>11. FreshId \in 1..(n + 1) /\ \A r \in Known : r.id # FreshId
  BY <1>8, <1>9, <1>10
<1> QED
  BY <1>1, <1>11

\* A list that is not empty has a next row.
LEMMA NextFacts ==
    ASSUME UpkeepTypeOK, NEW j \in Workers, todo[j] # {}
    PROVE  NextDue(j) \in todo[j] /\ NextDue(j).id \in Nat
<1> DEFINE ids == {r.id : r \in todo[j]}
<1>1. todo[j] \subseteq Row
  BY DEF UpkeepTypeOK
<1>2. ids \subseteq Nat /\ ids # {}
  BY <1>1 DEF Row
<1>3. PICK x \in ids : \A y \in ids : x <= y
  <2> HIDE DEF ids
  <2> QED
    BY <1>2, Smallest
<1>4. PICK r \in todo[j] : r.id = x
  OBVIOUS
<1>5. \A s \in todo[j] : r.id <= s.id
  BY <1>3, <1>4
<1>6. NextDue(j) \in todo[j]
  BY <1>4, <1>5 DEF NextDue
<1> QED
  BY <1>1, <1>6 DEF Row

\* A job that adds a row still has writes of the right type.
LEMMA AddsRow ==
    ASSUME NEW w \in [add : SUBSET Row, del : SUBSET Nat], NEW r \in Row
    PROVE  [w EXCEPT !.add = {r}] \in [add : SUBSET Row, del : SUBSET Nat]
OBVIOUS

\* Every step keeps the types, and one writing transaction at a time.
LEMMA UpkeepTypes == ASSUME UpkeepInv, [UpkeepNext]_upkeepVars PROVE UpkeepTypeOK'
<1> USE UpkeepAssumption DEF UpkeepTypeOK, UpkeepInv, GoTo, Leave, table, Workers
<1>0. UpkeepTypeOK /\ FiniteOK
  OBVIOUS
<1>1. ASSUME NEW l \in LogLine, AppendEnvelope(l) PROVE UpkeepTypeOK'
  <2>1. /\ log' = Append(log, l) /\ log' \in Seq(LogLine) /\ Len(log') = Len(log) + 1
        /\ Len(log) \in Nat
    BY <1>1 DEF AppendEnvelope
  <2>2. parquet' \in 0..Len(log')
    BY <1>1, <2>1 DEF AppendEnvelope
  <2>3. PICK i \in Nat : i = FreshId /\ \A r \in rows : r.id # i
    BY <1>0, FreshFacts DEF Known
  <2>4. [id |-> i, kind |-> "event_jsonl"] \in Row
    BY DEF Row
  <2>5. rows' = rows \/ rows' = rows \union {[id |-> i, kind |-> "event_jsonl"]}
    BY <1>1, <2>3 DEF AppendEnvelope
  <2>6. rows' \in SUBSET Row /\ \A r, s \in rows' : r.id = s.id => r = s
    BY <2>3, <2>4, <2>5
  <2> QED
    BY <1>1, <2>1, <2>2, <2>6 DEF AppendEnvelope
<1>2. CASE Age
  <2>1. PICK R \in SUBSET rows : expired' = expired \union {r.id : r \in R}
    BY <1>2 DEF Age
  <2>3. \A q \in R : q.id \in Nat
    BY <2>1 DEF Row
  <2>4. {r.id : r \in R} \subseteq Nat
    BY <2>3
  <2>2. expired' \in SUBSET Nat
    BY <2>1, <2>4
  <2> QED
    BY <1>2, <2>2 DEF Age
<1>3. ASSUME NEW j \in Compactors, ReadLog(j) \/ CheckExisting(j) \/ CompareExisting(j)
      PROVE  UpkeepTypeOK'
  <2>1. CASE ReadLog(j)
    BY <2>1 DEF ReadLog
  <2>2. CASE CheckExisting(j)
    <3>1. PICK p \in {"listed", "checked"} : place' = [place EXCEPT ![j] = p]
      BY <2>2 DEF CheckExisting
    <3> QED
      BY <2>2, <3>1 DEF CheckExisting
  <2>3. CASE CompareExisting(j)
    <3>1. /\ UNCHANGED <<log, rows, expired, ages, parquet, todo, writes, faults>>
          /\ \/ Leave(j)
             \/ GoTo(j, "checked") /\ seen' = seen
      BY <2>3 DEF CompareExisting
    <3>2. CASE Leave(j)
      BY <3>1, <3>2
    <3>3. CASE GoTo(j, "checked") /\ seen' = seen
      BY <3>1, <3>3
    <3> QED
      BY <3>1, <3>2, <3>3
  <2> QED
    BY <1>3, <2>1, <2>2, <2>3
<1>4. ASSUME NEW j \in Compactors, WriteParquet(j) PROVE UpkeepTypeOK'
  BY <1>4 DEF WriteParquet
<1>5. ASSUME NEW j \in Compactors, Register(j) PROVE UpkeepTypeOK'
  <2>1. PICK i \in Nat : i = FreshId
    BY <1>0, FreshFacts
  <2>2. PICK new \in Row : new = [id |-> i, kind |-> "event_parquet"]
    BY DEF Row
  <2>3. writes' = [writes EXCEPT ![j].add = {new}]
    BY <1>5, <2>1, <2>2 DEF Register
  <2>4. writes' \in [Workers -> [add : SUBSET Row, del : SUBSET Nat]]
    <3>1. [writes[j] EXCEPT !.add = {new}] \in [add : SUBSET Row, del : SUBSET Nat]
      BY AddsRow
    <3> QED
      BY <2>3, <3>1
  <2>5. \A k, m \in Workers : writes'[k] # NoWrites /\ writes'[m] # NoWrites => k = m
    BY <1>5, <2>3 DEF Register, CanWrite
  <2> QED
    BY <1>5, <2>4, <2>5 DEF Register
<1>6. ASSUME NEW j \in Workers, CommitSession(j), UNCHANGED <<log, parquet, ages, todo, faults>> PROVE UpkeepTypeOK'
  <2>1. /\ rows' = {r \in rows \union writes[j].add : r.id \notin writes[j].del}
        /\ expired' = expired \ writes[j].del /\ writes' = [writes EXCEPT ![j] = NoWrites]
        /\ place' = [place EXCEPT ![j] = "idle"] /\ seen' = [seen EXCEPT ![j] = 0]
    BY <1>6 DEF CommitSession
  <2>2. rows' \in SUBSET Row
    BY <2>1
  <2>3. \A r, s \in rows' : r.id = s.id => r = s
    <3>1. \A r, s \in writes[j].add : r.id = s.id => r = s
      BY DEF PruneOK
    <3>2. \A r \in writes[j].add, s \in rows : r.id # s.id
      BY DEF PruneOK
    <3>3. \A r, s \in rows : r.id = s.id => r = s
      OBVIOUS
    <3> QED
      BY <2>1, <3>1, <3>2, <3>3, Zenon
  <2>4. NoWrites \in [add : SUBSET Row, del : SUBSET Nat]
    BY DEF NoWrites
  <2>5. /\ writes' \in [Workers -> [add : SUBSET Row, del : SUBSET Nat]]
        /\ \A k, m \in Workers : writes'[k] # NoWrites /\ writes'[m] # NoWrites => k = m
    BY <2>1, <2>4
  <2>6. expired' \in SUBSET Nat
    BY <2>1
  <2> QED
    BY <1>6, <2>1, <2>2, <2>3, <2>5, <2>6
<1>7. ASSUME NEW j \in Compactors, CommitRegistered(j) PROVE UpkeepTypeOK'
  BY <1>6, <1>7 DEF CommitRegistered
<1>8. ASSUME NEW j \in Pruners, ListDue(j) PROVE UpkeepTypeOK'
  BY <1>8 DEF ListDue, Due
<1>9. ASSUME NEW j \in Pruners, Unlink(j) PROVE UpkeepTypeOK'
  BY <1>9 DEF Unlink
<1>10. ASSUME NEW j \in Pruners, DeleteRow(j) PROVE UpkeepTypeOK'
  <2>1. todo[j] # {}
    BY <1>10 DEF DeleteRow, PruneOK
  <2>2. PICK r \in todo[j] : r = NextDue(j) /\ r.id \in Nat
    BY <1>0, <2>1, NextFacts
  <2>3. writes' = [writes EXCEPT ![j].del = @ \union {r.id}]
    BY <1>10, <2>2 DEF DeleteRow
  <2>4. writes' \in [Workers -> [add : SUBSET Row, del : SUBSET Nat]]
    <3>1. PICK ids \in SUBSET Nat : ids = writes[j].del \union {r.id}
      BY <2>2
    <3>2. writes' = [writes EXCEPT ![j].del = ids]
      BY <2>3, <3>1
    <3>3. writes' = [writes EXCEPT ![j] = [writes[j] EXCEPT !.del = ids]]
      BY <3>2
    <3>4. [writes[j] EXCEPT !.del = ids] \in [add : SUBSET Row, del : SUBSET Nat]
      OBVIOUS
    <3> QED
      BY <3>3, <3>4
  <2>5. \A k, m \in Workers : writes'[k] # NoWrites /\ writes'[m] # NoWrites => k = m
    BY <1>10, <2>3 DEF DeleteRow, CanWrite
  <2> QED
    BY <1>10, <2>4, <2>5 DEF DeleteRow
<1>11. ASSUME NEW j \in Pruners, CommitPruned(j) PROVE UpkeepTypeOK'
  BY <1>6, <1>11 DEF CommitPruned
<1>12. ASSUME NEW j \in Pruners, UnlinkDoomed(j) \/ EndDoomed(j) \/ FailToUnlink(j) PROVE UpkeepTypeOK'
  <2>1. CASE UnlinkDoomed(j)
    BY <2>1 DEF UnlinkDoomed
  <2>2. CASE EndDoomed(j)
    BY <2>2 DEF EndDoomed
  <2>3. CASE FailToUnlink(j)
    BY <2>3 DEF FailToUnlink
  <2> QED
    BY <1>12, <2>1, <2>2, <2>3
<1>13. ASSUME NEW j \in Workers, FailToDeleteRow(j) \/ AbortJob(j) PROVE UpkeepTypeOK'
  <2>1. NoWrites \in [add : SUBSET Row, del : SUBSET Nat]
    BY DEF NoWrites
  <2>2. CASE FailToDeleteRow(j)
    <3>1. writes' \in [Workers -> [add : SUBSET Row, del : SUBSET Nat]]
      BY <2>1, <2>2 DEF FailToDeleteRow
    <3> QED
      BY <2>2, <3>1 DEF FailToDeleteRow
  <2>3. CASE AbortJob(j)
    <3>1. writes' \in [Workers -> [add : SUBSET Row, del : SUBSET Nat]]
      BY <2>1, <2>3 DEF AbortJob
    <3> QED
      BY <2>3, <3>1 DEF AbortJob
  <2> QED
    BY <1>13, <2>2, <2>3
<1>14. CASE UNCHANGED upkeepVars
  BY <1>14 DEF upkeepVars
<1> QED
  BY <1>1, <1>2, <1>3, <1>4, <1>5, <1>7, <1>8, <1>9, <1>10, <1>11, <1>12, <1>13, <1>14
  DEF UpkeepNext, Compact, Prune

\* Every step keeps the sets of rows finite.
LEMMA FiniteStep == ASSUME UpkeepInv, UpkeepTypeOK', [UpkeepNext]_upkeepVars PROVE FiniteOK'
<1> USE DEF FiniteOK, UpkeepInv, table, Workers
<1>0. /\ todo \in [Workers -> SUBSET Row] /\ writes \in [Workers -> [add : SUBSET Row, del : SUBSET Nat]]
      /\ \A S : IsFiniteSet(S) => \A x : IsFiniteSet(S \union {x}) /\ IsFiniteSet(S \ {x})
      /\ \A x : IsFiniteSet({x})
      /\ IsFiniteSet({})
  BY FS_AddElement, FS_RemoveElement, FS_Singleton, FS_EmptySet DEF UpkeepTypeOK
<1>1. ASSUME NEW l \in LogLine, AppendEnvelope(l) PROVE FiniteOK'
  <2>1. PICK x : rows' = rows \/ rows' = rows \union {x}
    BY <1>1 DEF AppendEnvelope
  <2> QED
    BY <1>0, <1>1, <2>1 DEF AppendEnvelope
<1>2. CASE Age
  BY <1>2 DEF Age
<1>3. ASSUME NEW j \in Compactors, ReadLog(j) \/ CheckExisting(j) \/ CompareExisting(j) \/ WriteParquet(j)
      PROVE  FiniteOK'
  BY <1>3 DEF ReadLog, CheckExisting, CompareExisting, WriteParquet
<1>4. ASSUME NEW j \in Compactors, Register(j) PROVE FiniteOK'
  <2>1. PICK x : writes' = [writes EXCEPT ![j].add = {x}]
    BY <1>4 DEF Register
  <2>2. \A k \in Workers : writes'[k].add = writes[k].add \/ writes'[k].add = {x}
    BY <1>0, <2>1
  <2> QED
    BY <1>0, <1>4, <2>2 DEF Register
<1>5. ASSUME NEW j \in Workers, CommitSession(j), todo' = todo PROVE FiniteOK'
  <2>1. rows' \subseteq rows \union writes[j].add /\ writes' = [writes EXCEPT ![j] = NoWrites]
    BY <1>5 DEF CommitSession
  <2>2. IsFiniteSet(rows \union writes[j].add)
    BY FS_Union
  <2>3. IsFiniteSet(rows')
    BY <2>1, <2>2, FS_Subset
  <2>4. \A k \in Workers : writes'[k].add = writes[k].add \/ writes'[k].add = {}
    BY <1>0, <2>1 DEF NoWrites
  <2> QED
    BY <1>0, <1>5, <2>3, <2>4
<1>6. ASSUME NEW j \in Pruners, ListDue(j) PROVE FiniteOK'
  <2>1. IsFiniteSet(Due)
    BY FS_Subset DEF Due
  <2>2. \A k \in Workers : todo'[k] = todo[k] \/ todo'[k] = Due
    BY <1>0, <1>6 DEF ListDue
  <2> QED
    BY <1>6, <2>1, <2>2 DEF ListDue
<1>7. ASSUME NEW j \in Pruners, Unlink(j) \/ EndDoomed(j) PROVE FiniteOK'
  BY <1>7 DEF Unlink, EndDoomed
<1>8. ASSUME NEW j \in Workers,
             DeleteRow(j) \/ UnlinkDoomed(j) \/ FailToUnlink(j) \/ FailToDeleteRow(j) \/ AbortJob(j)
      PROVE  FiniteOK'
  <2>1. rows' = rows
    BY <1>8 DEF DeleteRow, UnlinkDoomed, FailToUnlink, FailToDeleteRow, AbortJob
  <2>2. \A k \in Workers : writes'[k].add = writes[k].add \/ writes'[k].add = {}
    BY <1>0, <1>8 DEF DeleteRow, UnlinkDoomed, FailToUnlink, FailToDeleteRow, AbortJob, NoWrites
  <2>3. PICK x : \A k \in Workers : todo'[k] = todo[k] \/ todo'[k] = todo[k] \ {x} \/ todo'[k] = {}
    BY <1>0, <1>8 DEF DeleteRow, UnlinkDoomed, FailToUnlink, FailToDeleteRow, AbortJob
  <2>4. \A k \in Workers : IsFiniteSet(writes'[k].add)
    BY <1>0, <2>2
  <2>5. \A k \in Workers : IsFiniteSet(todo[k]) /\ IsFiniteSet(todo[k] \ {x})
    BY <1>0
  <2>6. \A k \in Workers : IsFiniteSet(todo'[k])
    BY <1>0, <2>3, <2>5
  <2> QED
    BY <2>1, <2>4, <2>6
<1>9. CASE UNCHANGED upkeepVars
  BY <1>9 DEF upkeepVars
<1> QED
  BY <1>1, <1>2, <1>3, <1>4, <1>5, <1>6, <1>7, <1>8, <1>9
  DEF UpkeepNext, Compact, Prune, CommitRegistered, CommitPruned

\* A step that adds nothing, and looks at and deletes no more than it should.
LEMMA PruneKept ==
    ASSUME UpkeepInv, rows' = rows, expired' = expired,
           NEW j \in Workers,
           \A k \in Workers : writes'[k].add \subseteq writes[k].add,
           writes'[j].del \subseteq writes[j].del \union {s.id : s \in todo[j]},
           todo'[j] \subseteq todo[j],
           place'[j] = "unlinked" => todo'[j] # {}
    PROVE  PruneOK(j)'
<1>1. PruneOK(j)
  BY DEF UpkeepInv
<1>2. Prunable(writes[j].del)' /\ Prunable({s.id : s \in todo[j]})'
  BY <1>1 DEF PruneOK, Prunable
<1> QED
  BY <1>1, <1>2 DEF PruneOK

\* Every step keeps PruneOK.
LEMMA PruneStep ==
    ASSUME UpkeepInv, UpkeepTypeOK', [UpkeepNext]_upkeepVars, NEW k \in Workers
    PROVE  PruneOK(k)'
<1> USE DEF table, Workers
<1>0. /\ UpkeepTypeOK /\ FiniteOK /\ \A j \in Workers : PruneOK(j)
      /\ todo \in [Workers -> SUBSET Row] /\ writes \in [Workers -> [add : SUBSET Row, del : SUBSET Nat]]
      /\ place \in [Workers -> {"idle", "read", "listed", "checked", "written", "registered",
                          "pruning", "unlinked", "doomed"}]
  BY DEF UpkeepInv, UpkeepTypeOK
<1>1. ASSUME NEW l \in LogLine, AppendEnvelope(l) PROVE PruneOK(k)'
  <2>1. PICK i \in Nat : i = FreshId /\ \A r \in Known : r.id # i
    BY <1>0, FreshFacts
  <2>2. PICK new \in Row : new = [id |-> i, kind |-> "event_jsonl"] /\ new.id = i
    <3>1. [id |-> i, kind |-> "event_jsonl"] \in Row
      BY DEF Row
    <3>2. [id |-> i, kind |-> "event_jsonl"].id = i
      OBVIOUS
    <3> QED
      BY <3>1, <3>2
  <2>3. /\ rows' = rows \/ rows' = rows \union {new}
        /\ \A j \in Workers : writes[j] = NoWrites
        /\ UNCHANGED <<expired, place, todo, writes>>
    BY <1>1, <2>1, <2>2 DEF AppendEnvelope
  <2>4. \A j \in Workers : writes[j].add = {} /\ writes[j].del = {}
    BY <2>3 DEF NoWrites
  <2>5. Prunable(writes[k].del)'
    BY <2>3, <2>4 DEF Prunable
  <2>6. Prunable({s.id : s \in todo[k]})'
    <3>1. new.id \notin {s.id : s \in todo[k]}
      BY <2>1, <2>2 DEF Known
    <3> QED
      BY <1>0, <2>3, <3>1 DEF PruneOK, Prunable
  <2>7. place'[k] = "unlinked" => todo'[k] # {}
    BY <1>0, <2>3 DEF PruneOK
  <2>8. writes'[k].add = {} /\ \A m \in Workers : writes'[m].add = {}
    BY <2>3, <2>4
  <2>9. /\ \A r, s \in writes'[k].add : r.id = s.id => r = s
        /\ \A m \in Workers : \A r \in writes'[m].add : \A s \in rows' \union todo'[k] : r.id # s.id
    BY <2>8
  <2> QED
    BY <2>5, <2>6, <2>7, <2>9 DEF PruneOK
<1>2. CASE Age
  <2>1. rows' = rows /\ expired \subseteq expired' /\ UNCHANGED <<place, todo, writes>>
    BY <1>2 DEF Age
  <2>2. Prunable(writes[k].del)' /\ Prunable({s.id : s \in todo[k]})'
    BY <1>0, <2>1 DEF PruneOK, Prunable
  <2>3. PruneOK(k)
    BY <1>0
  <2> HIDE DEF table, Workers
  <2> QED
    BY <2>1, <2>2, <2>3, SMTT(30) DEF PruneOK
<1>3. ASSUME NEW j \in Workers,
             \/ ReadLog(j) \/ CheckExisting(j) \/ CompareExisting(j) \/ WriteParquet(j)
             \/ Unlink(j) \/ EndDoomed(j) \/ UnlinkDoomed(j) \/ FailToUnlink(j)
             \/ FailToDeleteRow(j) \/ AbortJob(j)
      PROVE  PruneOK(k)'
  <2>1. rows' = rows /\ expired' = expired
    BY <1>3 DEF ReadLog, CheckExisting, CompareExisting, WriteParquet, Unlink, EndDoomed, UnlinkDoomed,
       FailToUnlink, FailToDeleteRow, AbortJob
  <2>2. \A m \in Workers : writes'[m] = writes[m] \/ writes'[m] = NoWrites
    BY <1>0, <1>3 DEF ReadLog, CheckExisting, CompareExisting, WriteParquet, Unlink, EndDoomed, UnlinkDoomed,
       FailToUnlink, FailToDeleteRow, AbortJob
  <2>3. todo'[k] \subseteq todo[k]
    BY <1>0, <1>3 DEF ReadLog, CheckExisting, CompareExisting, WriteParquet, Unlink, EndDoomed, UnlinkDoomed,
       FailToUnlink, FailToDeleteRow, AbortJob
  <2>4. place'[k] = "unlinked" => todo'[k] # {}
    <3>1. CASE j = k
      BY <1>0, <1>3, <3>1 DEF ReadLog, CheckExisting, CompareExisting, WriteParquet, Unlink, EndDoomed,
         UnlinkDoomed, FailToUnlink, FailToDeleteRow, AbortJob, GoTo, Leave
    <3>2. CASE j # k
      <4>1. place'[k] = place[k] /\ todo'[k] = todo[k]
        BY <1>0, <1>3, <3>2 DEF ReadLog, CheckExisting, CompareExisting, WriteParquet, Unlink, EndDoomed,
           UnlinkDoomed, FailToUnlink, FailToDeleteRow, AbortJob, GoTo, Leave
      <4> QED
        BY <1>0, <4>1 DEF PruneOK
    <3> QED
      BY <3>1, <3>2
  <2>5. \A m \in Workers : writes'[m].add \subseteq writes[m].add /\ writes'[m].del \subseteq writes[m].del
    BY <2>2 DEF NoWrites
  <2> QED
    BY <2>1, <2>3, <2>4, <2>5, PruneKept
<1>4. ASSUME NEW j \in Compactors, Register(j) PROVE PruneOK(k)'
  <2>1. PICK i \in Nat : i = FreshId /\ \A r \in Known : r.id # i
    BY <1>0, FreshFacts
  <2>2. PICK new \in Row : new = [id |-> i, kind |-> "event_parquet"] /\ new.id = i
    <3>1. [id |-> i, kind |-> "event_parquet"] \in Row
      BY DEF Row
    <3>2. [id |-> i, kind |-> "event_parquet"].id = i
      OBVIOUS
    <3> QED
      BY <3>1, <3>2
  <2>3. /\ writes' = [writes EXCEPT ![j].add = {new}] /\ UNCHANGED <<rows, expired, todo>>
        /\ place' = [place EXCEPT ![j] = "registered"]
    BY <1>4, <2>1, <2>2 DEF Register, GoTo
  <2>4. /\ \A m \in Workers : writes'[m].del = writes[m].del
        /\ \A m \in Workers : writes'[m].add = writes[m].add \/ writes'[m].add = {new}
        /\ place'[k] = "unlinked" => place[k] = "unlinked"
    BY <1>0, <2>3
  <2>5. Prunable(writes[k].del)' /\ Prunable({s.id : s \in todo[k]})'
    BY <1>0, <2>3, <2>4 DEF PruneOK, Prunable
  <2>6. \A s \in rows \union todo[k] : s.id # new.id
    BY <2>1, <2>2 DEF Known
  <2>7. \A r, s \in writes'[k].add : r.id = s.id => r = s
    BY <1>0, <2>4 DEF PruneOK
  <2>8. \A m \in Workers : \A r \in writes'[m].add : \A s \in rows' \union todo'[k] : r.id # s.id
    <3> SUFFICES ASSUME NEW m \in Workers, NEW r \in writes'[m].add, NEW s \in rows \union todo[k]
                 PROVE  r.id # s.id
      BY <2>3
    <3>1. CASE writes'[m].add = writes[m].add
      BY <1>0, <3>1 DEF PruneOK
    <3>2. CASE writes'[m].add = {new}
      BY <2>6, <3>2
    <3> QED
      BY <2>4, <3>1, <3>2
  <2>9. place'[k] = "unlinked" => todo'[k] # {}
    BY <1>0, <2>3, <2>4 DEF PruneOK
  <2> QED
    BY <2>5, <2>7, <2>8, <2>9 DEF PruneOK
<1>5. ASSUME NEW j \in Workers, CommitSession(j), todo' = todo PROVE PruneOK(k)'
  <2>1. /\ rows' = {r \in rows \union writes[j].add : r.id \notin writes[j].del}
        /\ expired' = expired \ writes[j].del
        /\ writes' = [writes EXCEPT ![j] = NoWrites] /\ place' = [place EXCEPT ![j] = "idle"]
    BY <1>5 DEF CommitSession, Leave, GoTo
  <2>2. /\ \A m \in Workers : writes'[m] = NoWrites \/ (m # j /\ writes'[m] = writes[m])
        /\ NoWrites.add = {} /\ NoWrites.del = {}
    BY <1>0, <2>1 DEF NoWrites
  <2>3. ASSUME NEW m \in Workers, m # j, writes[m] # NoWrites PROVE writes[j] = NoWrites
    BY <1>0, <2>3 DEF UpkeepTypeOK
  <2>4. Prunable(writes[k].del)'
    <3>1. CASE writes'[k] = NoWrites
      BY <2>2, <3>1 DEF Prunable
    <3>2. CASE writes'[k] # NoWrites
      <4>1. k # j /\ writes'[k] = writes[k] /\ writes[j] = NoWrites
        BY <2>2, <2>3, <3>2
      <4>2. rows' = rows /\ expired' = expired
        BY <2>1, <2>2, <4>1
      <4> QED
        BY <1>0, <4>1, <4>2 DEF PruneOK, Prunable
    <3> QED
      BY <3>1, <3>2
  <2>5. Prunable({s.id : s \in todo[k]})'
    <3> SUFFICES ASSUME NEW r \in rows', r.id \in {s.id : s \in todo[k]}
                 PROVE  r.id \in expired'
      BY <1>5 DEF Prunable
    <3>1. r \in rows
      BY <1>0, <2>1 DEF PruneOK
    <3>2. r.id \in expired
      BY <1>0, <3>1 DEF PruneOK, Prunable
    <3> QED
      BY <2>1, <3>2
  <2>6. ASSUME NEW m \in Workers, NEW r \in writes'[m].add, NEW s \in rows' \union todo'[k] PROVE r.id # s.id
    <3>1. writes'[m] = writes[m] /\ m # j /\ writes[m] # NoWrites /\ r \in writes[m].add
      BY <2>2
    <3>2. writes[j] = NoWrites
      BY <2>3, <3>1
    <3>3. rows' = rows
      BY <2>1, <2>2, <3>2
    <3> QED
      BY <1>0, <1>5, <3>1, <3>3 DEF PruneOK
  <2>7. \A r, s \in writes'[k].add : r.id = s.id => r = s
    BY <1>0, <2>2 DEF PruneOK
  <2>8. place'[k] = "unlinked" => todo'[k] # {}
    BY <1>0, <1>5, <2>1 DEF PruneOK
  <2> QED
    BY <2>4, <2>5, <2>6, <2>7, <2>8 DEF PruneOK
<1>6. ASSUME NEW j \in Pruners, ListDue(j) PROVE PruneOK(k)'
  <2>1. /\ todo' = [todo EXCEPT ![j] = Due] /\ place' = [place EXCEPT ![j] = "pruning"]
        /\ UNCHANGED <<rows, expired, writes>>
    BY <1>6 DEF ListDue, GoTo
  <2>2. /\ todo'[k] = todo[k] \/ todo'[k] = Due
        /\ place'[k] = "unlinked" => place[k] = "unlinked" /\ todo'[k] = todo[k]
    BY <1>0, <2>1
  <2>3. Due \subseteq rows /\ \A s \in Due : s.id \in expired
    BY <1>0 DEF Due, Windowed, UpkeepTypeOK, Row
  <2>4. Prunable({s.id : s \in Due})
    BY <1>0, <2>3 DEF Prunable, UpkeepTypeOK
  <2>5. Prunable(writes[k].del)' /\ Prunable({s.id : s \in todo[k]})'
    BY <1>0, <2>1, <2>2, <2>4 DEF PruneOK, Prunable
  <2>6. place'[k] = "unlinked" => todo'[k] # {}
    BY <1>0, <2>2 DEF PruneOK
  <2>7. \A r, s \in writes'[k].add : r.id = s.id => r = s
    BY <1>0, <2>1 DEF PruneOK
  <2>8. rows' \union todo'[k] \subseteq rows \union todo[k]
    BY <2>1, <2>2, <2>3
  <2>9. \A m \in Workers : \A r \in writes'[m].add : \A s \in rows' \union todo'[k] : r.id # s.id
    <3>1. \A m \in Workers : \A r \in writes[m].add : \A s \in rows \union todo[k] : r.id # s.id
      BY <1>0 DEF PruneOK
    <3>2. writes' = writes
      BY <2>1
    <3> QED
      BY <2>8, <3>1, <3>2
  <2> QED
    BY <2>5, <2>6, <2>7, <2>9 DEF PruneOK
<1>7. ASSUME NEW j \in Pruners, DeleteRow(j) PROVE PruneOK(k)'
  <2>1. todo[j] # {}
    BY <1>0, <1>7 DEF DeleteRow, PruneOK
  <2>2. PICK r \in todo[j] : r = NextDue(j)
    BY <1>0, <2>1, NextFacts
  <2>3. /\ writes' = [writes EXCEPT ![j].del = @ \union {r.id}] /\ todo' = [todo EXCEPT ![j] = @ \ {r}]
        /\ place' = [place EXCEPT ![j] = "pruning"] /\ UNCHANGED <<rows, expired>>
    BY <1>7, <2>2 DEF DeleteRow, GoTo
  <2>4. /\ \A m \in Workers : writes'[m].add \subseteq writes[m].add
        /\ writes'[k].del \subseteq writes[k].del \union {s.id : s \in todo[k]}
        /\ todo'[k] \subseteq todo[k]
    BY <1>0, <2>2, <2>3
  <2>5. place'[k] = "unlinked" => todo'[k] # {}
    BY <1>0, <2>3 DEF PruneOK
  <2> QED
    BY <2>3, <2>4, <2>5, PruneKept
<1>8. CASE UNCHANGED upkeepVars
  <2>1. UNCHANGED <<rows, expired, writes, todo, place>>
    BY <1>8 DEF upkeepVars
  <2> QED
    BY <1>0, <2>1, PruneKept DEF PruneOK
<1> QED
  BY <1>1, <1>2, <1>3, <1>4, <1>5, <1>6, <1>7, <1>8
  DEF UpkeepNext, Compact, Prune, CommitRegistered, CommitPruned

\* The rows of a recording under compaction and retention, whatever jobs run, fail
\* and are retried (medallion/compact.py:161-193, medallion/retention.py:66-105).
THEOREM UpkeepInvariant == UpkeepSpec => []UpkeepInv
<1>1. UpkeepInit => UpkeepInv
  <2> SUFFICES ASSUME UpkeepInit PROVE UpkeepInv
    OBVIOUS
  <2>1. /\ <<>> \in Seq(LogLine) /\ Len(<<>>) = 0 /\ NoWrites \in [add : SUBSET Row, del : SUBSET Nat]
        /\ NoWrites.add = {} /\ NoWrites.del = {}
    BY DEF NoWrites
  <2>2. \A j \in Workers : writes[j] = NoWrites /\ todo[j] = {} /\ place[j] = "idle"
    BY DEF UpkeepInit
  <2>3. /\ writes \in [Workers -> [add : SUBSET Row, del : SUBSET Nat]]
        /\ todo \in [Workers -> SUBSET Row] /\ seen \in [Workers -> 0..Len(log)]
        /\ parquet \in 0..Len(log)
    BY <2>1 DEF UpkeepInit
  <2>4. UpkeepTypeOK
    BY <2>1, <2>2, <2>3, UpkeepAssumption DEF UpkeepInit, UpkeepTypeOK
  <2>5. FiniteOK
    BY <2>1, <2>2, FS_EmptySet DEF UpkeepInit, FiniteOK
  <2>6. \A j \in Workers : PruneOK(j)
    BY <2>1, <2>2 DEF UpkeepInit, PruneOK, Prunable
  <2> QED
    BY <2>4, <2>5, <2>6 DEF UpkeepInv
<1>2. ASSUME UpkeepInv, [UpkeepNext]_upkeepVars PROVE UpkeepInv'
  <2>1. UpkeepTypeOK'
    BY <1>2, UpkeepTypes
  <2>2. FiniteOK'
    BY <1>2, <2>1, FiniteStep
  <2>3. Workers' = Workers
    BY DEF Workers
  <2>4. (\A j \in Workers : PruneOK(j))'
    BY <1>2, <2>1, PruneStep
  <2> QED
    BY <2>1, <2>2, <2>4 DEF UpkeepInv
<1> QED
  BY <1>1, <1>2, PTL DEF UpkeepSpec

\* Retention deletes no row that has not expired, and never the log's, although it
\* works from a list that may be stale (medallion/retention.py:66).
THEOREM RowsGoWhenExpired == UpkeepSpec => OnlyExpiredGo
<1>1. ASSUME UpkeepInv, [UpkeepNext]_upkeepVars
      PROVE  \A r \in rows \ rows' : r.id \in expired
  <2>1. CASE rows \subseteq rows'
    BY <2>1
  <2>2. ASSUME NEW j \in Workers, CommitSession(j)
        PROVE  \A r \in rows \ rows' : r.id \in expired
    BY <1>1, <2>2 DEF CommitSession, UpkeepInv, PruneOK, Prunable
  <2> QED
    BY <1>1, <2>1, <2>2 DEF UpkeepNext, AppendEnvelope, Age, Compact, ReadLog, CheckExisting, CompareExisting,
       WriteParquet, Register, CommitRegistered, Prune, ListDue, Unlink, DeleteRow, CommitPruned,
       UnlinkDoomed, EndDoomed, FailToUnlink, FailToDeleteRow, AbortJob, upkeepVars, table, Workers
<1>2. UpkeepInv /\ [UpkeepNext]_upkeepVars =>
          [\A r \in rows \ rows' : r.id \in expired]_upkeepVars
  BY <1>1
<1> QED
  BY <1>2, UpkeepInvariant, PTL DEF UpkeepSpec, OnlyExpiredGo

=============================================================================
