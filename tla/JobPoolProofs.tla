---------------------------- MODULE JobPoolProofs ----------------------------
(***************************************************************************)
(* Theorems about JobPool, for every set of jobs and clients, every limit,  *)
(* depth and recording length.                                              *)
(***************************************************************************)
EXTENDS JobPool, FiniteSetTheorems, SequenceTheorems, TLAPS

-----------------------------------------------------------------------------
(* Counting. *)

\* The first n waiters are n different jobs.
LEMMA WaitersCount ==
    ASSUME TypeOK, WaitersOK, NEW n \in 0..Len(waiters)
    PROVE  /\ IsFiniteSet({waiters[i] : i \in 1..n})
           /\ Cardinality({waiters[i] : i \in 1..n}) = n
<1> DEFINE W == {waiters[i] : i \in 1..n}
           f == [i \in 1..n |-> waiters[i]]
<1>0. n \in Nat /\ Len(waiters) \in Nat /\ 1..n \subseteq 1..Len(waiters)
  BY LenProperties DEF TypeOK
<1>1. f \in Bijection(1..n, W)
  <2>1. f \in [1..n -> W]
    OBVIOUS
  <2>2. \A a, b \in 1..n : f[a] = f[b] => a = b
    BY <1>0 DEF WaitersOK
  <2>3. \A w \in W : \E a \in 1..n : f[a] = w
    OBVIOUS
  <2> QED
    BY <2>1, <2>2, <2>3 DEF Bijection, Injection, Surjection, IsInjective
<1>2. ExistsBijection(1..n, W)
  BY <1>1 DEF ExistsBijection
<1>3. IsFiniteSet(1..n) /\ Cardinality(1..n) = n
  BY <1>0, FS_Interval
<1> QED
  BY <1>2, <1>3, FS_Bijection

\* What a step that moves job j and wakes n waiters does to the semaphore's
\* bookkeeping: the deque stays exact and the holders are counted.
LEMMA MoveAndWakeEffect ==
    ASSUME TypeOK, WaitersOK,
           NEW j \in Job, phase[j] # "waiting",
           NEW p \in Phase \ {"waiting"},
           NEW n \in 0..Len(waiters),
           MoveAndWake(j, p, n)
    PROVE  /\ waiters' \in Seq(Job)
           /\ Len(waiters') = Len(waiters) - n
           /\ phase' \in [Job -> Phase]
           /\ phase'[j] = p
           /\ \A k \in Job \ {j} :
                 \/ phase'[k] = phase[k]
                 \/ phase[k] = "waiting" /\ phase'[k] = "granted"
           /\ n > 0 => \E k \in Job \ {j} : phase'[k] = "granted"
           /\ WaitersOK'
           /\ Cardinality(Holders') =
                 Cardinality(Holders \ {j}) + n + (IF p \in Holding THEN 1 ELSE 0)
<1> DEFINE W == {waiters[i] : i \in 1..n}
<1>0. /\ n \in Nat /\ Len(waiters) \in Nat
      /\ \A i \in 1..Len(waiters) : waiters[i] \in Job
      /\ \A i \in 1..n : i \in 1..Len(waiters)
      /\ \A i \in (n+1)..Len(waiters) : i \in 1..Len(waiters)
  BY LenProperties DEF TypeOK
<1>1. /\ waiters' \in Seq(Job)
      /\ Len(waiters') = Len(waiters) - n
      /\ \A i \in 1..(Len(waiters) - n) : waiters'[i] = waiters[n + i]
  <2>1. waiters' = SubSeq(waiters, n+1, Len(waiters))
    BY DEF MoveAndWake
  <2>2. /\ SubSeq(waiters, n+1, Len(waiters)) \in Seq(Job)
        /\ Len(SubSeq(waiters, n+1, Len(waiters))) =
              IF n+1 <= Len(waiters) THEN Len(waiters) - (n+1) + 1 ELSE 0
        /\ \A i \in 1..(Len(waiters) - (n+1) + 1) :
              SubSeq(waiters, n+1, Len(waiters))[i] = waiters[n+1+i-1]
    BY <1>0, SubSeqProperties
  <2> QED
    BY <1>0, <2>1, <2>2
<1>2. \A k \in W : k \in Job /\ phase[k] = "waiting" /\ k # j
  BY <1>0 DEF WaitersOK
<1>3. /\ phase' \in [Job -> Phase]
      /\ phase'[j] = p
      /\ \A k \in W : phase'[k] = "granted"
      /\ \A k \in Job \ ({j} \union W) : phase'[k] = phase[k]
  <2>1. phase' = [k \in Job |-> IF k = j THEN p
                                ELSE IF k \in W THEN "granted" ELSE phase[k]]
    BY DEF MoveAndWake
  <2> QED
    BY <1>2, <2>1 DEF TypeOK, Phase
<1>4. WaitersOK'
  <2>1. ASSUME NEW i \in 1..Len(waiters')
        PROVE  phase'[waiters'[i]] = "waiting"
    <3>1. /\ n + i \in 1..Len(waiters)
          /\ waiters'[i] = waiters[n + i]
      BY <1>0, <1>1
    <3>2. waiters[n + i] \notin W
      BY <1>0, <3>1 DEF WaitersOK
    <3> QED
      BY <1>0, <1>2, <1>3, <3>1, <3>2 DEF WaitersOK
  <2>2. ASSUME NEW i \in 1..Len(waiters'), NEW k \in 1..Len(waiters'),
               waiters'[i] = waiters'[k]
        PROVE  i = k
    <3>1. /\ n + i \in 1..Len(waiters) /\ n + k \in 1..Len(waiters)
          /\ waiters[n + i] = waiters[n + k]
      BY <1>0, <1>1, <2>2
    <3>2. n + i = n + k
      BY <3>1 DEF WaitersOK
    <3> QED
      BY <1>0, <1>1, <3>2
  <2>3. ASSUME NEW k \in Job, phase'[k] = "waiting"
        PROVE  \E i \in 1..Len(waiters') : waiters'[i] = k
    <3>1. k # j /\ k \notin W /\ phase[k] = "waiting"
      BY <1>3, <2>3 DEF Phase
    <3>2. PICK m \in 1..Len(waiters) : waiters[m] = k
      BY <3>1 DEF WaitersOK
    <3>3. m \notin 1..n
      BY <3>1, <3>2
    <3>4. m - n \in 1..Len(waiters') /\ n + (m - n) = m
      BY <1>0, <1>1, <3>2, <3>3
    <3>5. waiters'[m - n] = k
      BY <1>0, <1>1, <3>2, <3>4
    <3> QED
      BY <3>4, <3>5
  <2> QED
    BY <2>1, <2>2, <2>3 DEF WaitersOK
<1>5. Cardinality(Holders') =
         Cardinality(Holders \ {j}) + n + (IF p \in Holding THEN 1 ELSE 0)
  <2> DEFINE H == Holders \ {j}
             P == IF p \in Holding THEN {j} ELSE {}
  <2>1. Holders' = (H \union W) \union P
    BY <1>2, <1>3 DEF Holders, Holding
  <2>2. IsFiniteSet(H)
    BY JobPoolAssumption, FS_Subset DEF Holders
  <2>3. IsFiniteSet(W) /\ Cardinality(W) = n
    BY WaitersCount
  <2>4. H \intersect W = {} /\ j \notin H \union W
    BY <1>2 DEF Holders, Holding
  <2>5. /\ IsFiniteSet(H \union W)
        /\ Cardinality(H \union W) = Cardinality(H) + n
    <3>1. Cardinality(H \intersect W) = 0
      BY <2>4, FS_EmptySet
    <3>2. Cardinality(H) \in Nat
      BY <2>2, FS_CardinalityType
    <3>3. /\ IsFiniteSet(H \union W)
          /\ Cardinality(H \union W) =
                Cardinality(H) + Cardinality(W) - Cardinality(H \intersect W)
      <4> HIDE DEF H, W
      <4> QED
        BY <2>2, <2>3, FS_Union
    <3> QED
      BY <1>0, <2>3, <3>1, <3>2, <3>3
  <2>6. Cardinality(H) \in Nat
    BY <2>2, FS_CardinalityType
  <2>7. CASE p \in Holding
    <3>1. Holders' = (H \union W) \union {j}
      BY <2>1, <2>7
    <3>2. Cardinality(Holders') = Cardinality(H \union W) + 1
      BY <2>4, <2>5, <3>1, FS_AddElement
    <3> QED
      BY <2>5, <2>7, <3>2
  <2>8. CASE p \notin Holding
    <3>1. Holders' = H \union W
      BY <2>1, <2>8
    <3> QED
      BY <1>0, <2>5, <2>6, <2>8, <3>1
  <2> QED
    BY <2>7, <2>8
<1>6. n > 0 => \E k \in Job \ {j} : phase'[k] = "granted"
  <2> HAVE n > 0
  <2>1. waiters[1] \in W
    BY <1>0
  <2> QED
    BY <1>2, <1>3, <2>1
<1>7. \A k \in Job \ {j} : \/ phase'[k] = phase[k]
                           \/ phase[k] = "waiting" /\ phase'[k] = "granted"
  BY <1>2, <1>3
<1> QED
  BY <1>1, <1>3, <1>4, <1>5, <1>6, <1>7

-----------------------------------------------------------------------------
(* The semaphore. *)

SemInv == WaitersOK /\ PermitsConserved /\ NoLostWakeup

\* The tasks that hold a permit are finitely many.
LEMMA HoldersCount ==
    ASSUME TypeOK
    PROVE  IsFiniteSet(Holders) /\ Cardinality(Holders) \in Nat
<1>1. IsFiniteSet(Holders)
  BY JobPoolAssumption, FS_Subset DEF Holders
<1> QED
  BY <1>1, FS_CardinalityType

\* A step that leaves the semaphore alone and moves no task into or out of it.
LEMMA QuietStep ==
    ASSUME TypeOK, SemInv, UNCHANGED semVars,
           NEW j \in Job, NEW p \in Phase,
           phase' = [phase EXCEPT ![j] = p],
           phase[j] \notin {"waiting", "granted"}, p \notin {"waiting", "granted"},
           phase[j] \in Holding <=> p \in Holding
    PROVE  SemInv'
<1>1. Holders' = Holders
  BY DEF Holders, TypeOK
<1>2. PermitsConserved'
  BY <1>1 DEF SemInv, PermitsConserved, semVars
<1>3. WaitersOK'
  <2>1. \A i \in 1..Len(waiters) : waiters[i] \in Job
    BY LenProperties DEF TypeOK
  <2> QED
    BY <2>1 DEF SemInv, WaitersOK, semVars, TypeOK
<1>4. NoLostWakeup'
  BY DEF SemInv, NoLostWakeup, semVars, TypeOK
<1> QED
  BY <1>2, <1>3, <1>4 DEF SemInv

\* release(): a permit comes back from j and at most one waiter gets it.
LEMMA ReleaseStep ==
    ASSUME TypeOK, SemInv, NEW j \in Job, phase[j] \in Holding \ {"granted"}, Release(j)
    PROVE  SemInv' /\ permits' \in Nat /\ waiters' \in Seq(Job) /\ phase' \in [Job -> Phase]
<1> DEFINE n == SmallerOf(1, Len(waiters))
<1>0. permits \in Nat /\ Len(waiters) \in Nat
  BY LenProperties DEF TypeOK
<1>1. /\ n \in Nat /\ n <= Len(waiters) /\ n <= 1
      /\ n = 0 => Len(waiters) = 0
  BY <1>0 DEF SmallerOf
<1>2. permits' = permits + 1 - n /\ MoveAndWake(j, "done", n)
  BY DEF Release
<1> HIDE DEF n
<1>3. /\ waiters' \in Seq(Job)
      /\ Len(waiters') = Len(waiters) - n
      /\ phase' \in [Job -> Phase]
      /\ n > 0 => \E k \in Job \ {j} : phase'[k] = "granted"
      /\ WaitersOK'
      /\ Cardinality(Holders') = Cardinality(Holders \ {j}) + n
  <2>1. "done" \in Phase \ {"waiting"} /\ "done" \notin Holding /\ phase[j] # "waiting"
    BY DEF Phase, Holding
  <2>2. n \in 0..Len(waiters)
    BY <1>0, <1>1
  <2>3. Cardinality(Holders \ {j}) \in Nat
    BY HoldersCount, FS_RemoveElement, FS_CardinalityType
  <2>4. Cardinality(Holders') =
           Cardinality(Holders \ {j}) + n + (IF "done" \in Holding THEN 1 ELSE 0)
    BY <1>2, <2>1, <2>2, MoveAndWakeEffect DEF SemInv
  <2>5. /\ waiters' \in Seq(Job)
        /\ Len(waiters') = Len(waiters) - n
        /\ phase' \in [Job -> Phase]
        /\ n > 0 => \E k \in Job \ {j} : phase'[k] = "granted"
        /\ WaitersOK'
    BY <1>2, <2>1, <2>2, MoveAndWakeEffect DEF SemInv
  <2>6. Cardinality(Holders') = Cardinality(Holders \ {j}) + n
    BY <1>1, <2>1, <2>3, <2>4
  <2> QED
    BY <2>5, <2>6
<1>4. Cardinality(Holders \ {j}) = Cardinality(Holders) - 1
  BY HoldersCount, FS_RemoveElement DEF Holders
<1>5. PermitsConserved'
  BY <1>0, <1>1, <1>2, <1>3, <1>4, HoldersCount, JobPoolAssumption DEF SemInv, PermitsConserved
<1>6. NoLostWakeup'
  <2>1. CASE n = 0
    <3>0. Len(waiters') = 0
      BY <1>0, <1>1, <1>3, <2>1
    <3>1. waiters' = <<>>
      BY <1>3, <3>0, EmptySeq
    <3> QED
      BY <3>1 DEF NoLostWakeup
  <2>2. CASE n > 0
    BY <1>3, <2>2 DEF NoLostWakeup
  <2> QED
    BY <1>1, <2>1, <2>2
<1> QED
  BY <1>0, <1>1, <1>2, <1>3, <1>5, <1>6 DEF SemInv

\* The end of acquire() after a wait, with `value` permits to give away: those
\* left, plus j's own when j was cancelled.
LEMMA LeaveAcquireStep ==
    ASSUME TypeOK, SemInv, NEW j \in Job, phase[j] = "granted",
           NEW p \in {"handling", "done"}, NEW value,
           value = permits + (IF p = "done" THEN 1 ELSE 0),
           LeaveAcquire(j, p, value)
    PROVE  SemInv' /\ permits' \in Nat /\ waiters' \in Seq(Job) /\ phase' \in [Job -> Phase]
<1> DEFINE n == SmallerOf(value, Len(waiters))
<1>0. permits \in Nat /\ value \in Nat /\ Len(waiters) \in Nat
  BY LenProperties DEF TypeOK
<1>1. /\ permits \in Nat /\ value \in Nat /\ Len(waiters) \in Nat
      /\ n \in 0..Len(waiters) /\ n <= value
      /\ n = value \/ n = Len(waiters)
  BY <1>0 DEF SmallerOf
<1>2. permits' = value - n /\ MoveAndWake(j, p, n)
  BY DEF LeaveAcquire
<1> HIDE DEF n
<1>3. /\ waiters' \in Seq(Job)
      /\ Len(waiters') = Len(waiters) - n
      /\ phase' \in [Job -> Phase]
      /\ WaitersOK'
      /\ Cardinality(Holders') =
            Cardinality(Holders \ {j}) + n + (IF p \in Holding THEN 1 ELSE 0)
  <2>1. p \in Phase \ {"waiting"} /\ phase[j] # "waiting"
    BY DEF Phase
  <2> QED
    BY <1>1, <1>2, <2>1, MoveAndWakeEffect DEF SemInv
<1>4. Cardinality(Holders \ {j}) = Cardinality(Holders) - 1
  <2>1. j \in Holders
    BY DEF Holders, Holding
  <2> QED
    BY <2>1, HoldersCount, FS_RemoveElement
<1>5. PermitsConserved'
  <2>1. (p \in Holding) <=> p = "handling"
    BY DEF Holding
  <2> QED
    BY <1>1, <1>2, <1>3, <1>4, <2>1, HoldersCount, JobPoolAssumption
    DEF SemInv, PermitsConserved
<1>6. NoLostWakeup'
  <2>1. CASE n = value
    <3>1. permits' = 0
      BY <1>1, <1>2, <2>1
    <3> QED
      BY <3>1 DEF NoLostWakeup
  <2>2. CASE n = Len(waiters)
    <3>1. waiters' = <<>>
      BY <1>1, <1>3, <2>2, EmptySeq
    <3> QED
      BY <3>1 DEF NoLostWakeup
  <2> QED
    BY <1>1, <2>1, <2>2
<1> QED
  BY <1>1, <1>2, <1>3, <1>5, <1>6 DEF SemInv

\* Every step of the specification keeps the semaphore's bookkeeping right.
LEMMA SemStep ==
    ASSUME TypeOK, SemInv, [Next]_vars
    PROVE  SemInv'
<1> USE DEF Resumes, Delivered
<1>1. CASE UNCHANGED <<permits, waiters, phase>>
  BY <1>1 DEF SemInv, WaitersOK, PermitsConserved, NoLostWakeup, Holders
<1>2. ASSUME NEW j \in Job, StartNow(j)
      PROVE  SemInv'
  <2>1. /\ phase[j] = "created" /\ permits # 0 /\ permits' = permits - 1
        /\ phase' = [phase EXCEPT ![j] = "handling"] /\ waiters' = waiters
        /\ \A k \in Job : phase[k] \notin {"waiting", "granted"}
    BY <1>2 DEF StartNow, Locked
  <2>2. Holders' = Holders \union {j} /\ j \notin Holders
    BY <2>1 DEF Holders, Holding, TypeOK
  <2>3. Cardinality(Holders') = Cardinality(Holders) + 1
    BY <2>2, HoldersCount, FS_AddElement
  <2>4. PermitsConserved'
    BY <2>1, <2>3, HoldersCount, JobPoolAssumption DEF SemInv, PermitsConserved, TypeOK
  <2>5. waiters = <<>>
    <3>1. Len(waiters) \in Nat /\ \A i \in 1..Len(waiters) : waiters[i] \in Job
      BY LenProperties DEF TypeOK
    <3>2. Len(waiters) = 0
      BY <2>1, <3>1 DEF SemInv, WaitersOK
    <3> QED
      BY <3>2, EmptySeq DEF TypeOK
  <2>6. WaitersOK'
    BY <2>1, <2>5 DEF WaitersOK, TypeOK
  <2> QED
    BY <2>1, <2>4, <2>5, <2>6 DEF SemInv, NoLostWakeup
<1>3. ASSUME NEW j \in Job, StartWaiting(j)
      PROVE  SemInv'
  <2>1. /\ phase[j] = "created" /\ Locked /\ permits' = permits
        /\ phase' = [phase EXCEPT ![j] = "waiting"] /\ waiters' = Append(waiters, j)
    BY <1>3 DEF StartWaiting
  <2>2. Holders' = Holders
    BY <2>1 DEF Holders, Holding, TypeOK
  <2>3. PermitsConserved'
    BY <2>1, <2>2 DEF SemInv, PermitsConserved
  <2>4. /\ Len(waiters) \in Nat /\ \A i \in 1..Len(waiters) : waiters[i] \in Job
        /\ Len(waiters') = Len(waiters) + 1
        /\ \A i \in 1..Len(waiters) : waiters'[i] = waiters[i]
        /\ waiters'[Len(waiters) + 1] = j
    BY <2>1, LenProperties, AppendProperties DEF TypeOK
  <2>5. \A i \in 1..Len(waiters) : waiters[i] # j /\ phase'[waiters[i]] = "waiting"
    BY <2>1, <2>4 DEF SemInv, WaitersOK, TypeOK
  <2>6. WaitersOK'
    <3>1. \A i \in 1..Len(waiters') : i \in 1..Len(waiters) \/ i = Len(waiters) + 1
      BY <2>4
    <3>2. \A i \in 1..Len(waiters') : phase'[waiters'[i]] = "waiting"
      BY <2>1, <2>4, <2>5, <3>1 DEF TypeOK
    <3>3. \A i, k \in 1..Len(waiters') : waiters'[i] = waiters'[k] => i = k
      BY <2>4, <2>5, <3>1 DEF SemInv, WaitersOK
    <3>4. ASSUME NEW k \in Job, phase'[k] = "waiting"
          PROVE  \E i \in 1..Len(waiters') : waiters'[i] = k
      <4>1. CASE k = j
        BY <2>4, <4>1
      <4>2. CASE k # j
        <5>1. PICK i \in 1..Len(waiters) : waiters[i] = k
          BY <2>1, <3>4, <4>2 DEF SemInv, WaitersOK, TypeOK
        <5> QED
          BY <2>4, <5>1
      <4> QED
        BY <4>1, <4>2
    <3> QED
      BY <3>2, <3>3, <3>4 DEF WaitersOK
  <2>7. NoLostWakeup'
    <3> SUFFICES ASSUME permits > 0 PROVE \E k \in Job : phase'[k] = "granted"
      BY <2>1 DEF NoLostWakeup
    <3>1. PICK k \in Job : phase[k] \in {"waiting", "granted"}
      BY <2>1 DEF Locked, TypeOK
    <3>2. CASE phase[k] = "granted"
      BY <2>1, <3>2 DEF TypeOK
    <3>3. CASE phase[k] = "waiting"
      <4>1. PICK i \in 1..Len(waiters) : waiters[i] = k
        BY <3>3 DEF SemInv, WaitersOK
      <4>2. waiters # <<>>
        BY <2>4, <4>1, EmptySeq
      <4>3. PICK m \in Job : phase[m] = "granted"
        BY <4>2 DEF SemInv, NoLostWakeup
      <4> QED
        BY <2>1, <4>3 DEF TypeOK
    <3> QED
      BY <3>1, <3>2, <3>3
  <2> QED
    BY <2>3, <2>6, <2>7 DEF SemInv
<1>4. ASSUME NEW j \in Job,
             HandlerReturns(j) \/ ReportDone(j) \/ CancelReport(j)
      PROVE  SemInv'
  <2>1. phase[j] \in Holding \ {"granted"} /\ Release(j)
    BY <1>4 DEF HandlerReturns, ReportDone, CancelReport, Holding
  <2> QED
    BY <2>1, ReleaseStep
<1>5. ASSUME NEW j \in Job, ResumeGranted(j)
      PROVE  SemInv'
  <2>1. phase[j] = "granted" /\ LeaveAcquire(j, "handling", permits)
    BY <1>5 DEF ResumeGranted
  <2>2. permits = permits + (IF "handling" = "done" THEN 1 ELSE 0)
    BY DEF TypeOK
  <2> QED
    BY <2>1, <2>2, LeaveAcquireStep
<1>6. ASSUME NEW j \in Job, CancelGranted(j)
      PROVE  SemInv'
  <2>1. phase[j] = "granted" /\ LeaveAcquire(j, "done", permits + 1)
    BY <1>6 DEF CancelGranted
  <2>2. permits + 1 = permits + (IF "done" = "done" THEN 1 ELSE 0)
    OBVIOUS
  <2> QED
    BY <2>1, <2>2, LeaveAcquireStep
<1>7. ASSUME NEW j \in Job,
             \/ \E c \in Client : EnqueueJob(c, j)
             \/ HandlerRaises(j) \/ CancelUnstarted(j) \/ CancelHandler(j)
      PROVE  SemInv'
  <2>1. /\ UNCHANGED semVars
        /\ \E p \in Phase :
              /\ phase' = [phase EXCEPT ![j] = p]
              /\ phase[j] \notin {"waiting", "granted"} /\ p \notin {"waiting", "granted"}
              /\ phase[j] \in Holding <=> p \in Holding
    BY <1>7 DEF EnqueueJob, HandlerRaises, CancelUnstarted, CancelHandler,
                Phase, Holding, semVars
  <2> QED
    BY <2>1, QuietStep
<1>8. CASE GraceExpires
  <2>1. /\ permits' = permits /\ waiters' = <<>>
        /\ phase' = [j \in Job |-> IF phase[j] = "waiting" THEN "revoked" ELSE phase[j]]
    BY <1>8 DEF GraceExpires
  <2>2. Holders' = Holders
    BY <2>1 DEF Holders, Holding
  <2>3. WaitersOK'
    BY <2>1 DEF WaitersOK
  <2> QED
    BY <2>1, <2>2, <2>3 DEF SemInv, PermitsConserved, NoLostWakeup
<1>9. ASSUME NEW j \in Job,
             \/ Cancel(j) \/ RecordingMissing(j) \/ RecordingFound(j) \/ RunStarted(j)
             \/ ExecuteOne(j) \/ RunFinished(j) \/ SaveResult(j)
      PROVE  UNCHANGED <<permits, waiters, phase>>
  BY <1>9 DEF Cancel, RecordingMissing, RecordingFound, RunStarted, ExecuteOne,
              RunFinished, SaveResult, Advance, semVars
<1>10. ASSUME NEW c \in Client,
              Admit(c) \/ UnknownRecording(c) \/ EnqueueRefused(c)
       PROVE  UNCHANGED <<permits, waiters, phase>>
  BY <1>10 DEF Admit, UnknownRecording, EnqueueRefused, semVars
<1>11. CASE Close \/ CloseReturns \/ UNCHANGED vars
  <2>1. UNCHANGED <<permits, waiters, phase>>
    BY <1>11 DEF Close, CloseReturns, semVars, vars
  <2> QED
    BY <1>1, <2>1
<1> QED
  BY <1>1, <1>2, <1>3, <1>4, <1>5, <1>6, <1>7, <1>8, <1>9, <1>10, <1>11
  DEF Next, TaskStep, RequestStep

-----------------------------------------------------------------------------
(* Types. *)

\* Publishing an event keeps the record of a run's events well typed.
LEMMA EmitType ==
    ASSUME TypeOK, NEW j \in Job, NEW e \in RunEvent, Emit(j, e)
    PROVE  events' \in [Job -> Seq(RunEvent)]
<1>1. Append(events[j], e) \in Seq(RunEvent)
  BY AppendProperties DEF TypeOK
<1> QED
  BY <1>1 DEF Emit, TypeOK

\* Every step keeps the types; the permits stay natural because of SemInv.
LEMMA TypeStep ==
    ASSUME TypeOK, SemInv, [Next]_vars
    PROVE  TypeOK'
<1> USE DEF Resumes, Delivered, semVars, runVars
<1>1. ASSUME NEW c \in Client,
             Admit(c) \/ UnknownRecording(c) \/ EnqueueRefused(c)
      PROVE  TypeOK'
  BY <1>1 DEF TypeOK, RequestState, Admit, UnknownRecording, EnqueueRefused
<1>2. ASSUME NEW c \in Client, NEW j \in Job, EnqueueJob(c, j)
      PROVE  TypeOK'
  BY <1>2 DEF TypeOK, RequestState, Phase, Status, EnqueueJob
<1>3. ASSUME NEW j \in Job, Cancel(j)
      PROVE  TypeOK'
  BY <1>3 DEF TypeOK, Cancel
<1>4. ASSUME NEW j \in Job, StartNow(j)
      PROVE  TypeOK'
  BY <1>4 DEF TypeOK, Phase, Status, StartNow, Locked
<1>5. ASSUME NEW j \in Job, StartWaiting(j)
      PROVE  TypeOK'
  <2>1. waiters' \in Seq(Job)
    BY <1>5, AppendProperties DEF StartWaiting, TypeOK
  <2> QED
    BY <1>5, <2>1 DEF TypeOK, Phase, StartWaiting
<1>6. ASSUME NEW j \in Job, ResumeGranted(j)
      PROVE  TypeOK'
  <2>1. permits = permits + (IF "handling" = "done" THEN 1 ELSE 0)
    BY DEF TypeOK
  <2>2. permits' \in Nat /\ waiters' \in Seq(Job) /\ phase' \in [Job -> Phase]
    BY <1>6, <2>1, LeaveAcquireStep DEF ResumeGranted
  <2> QED
    BY <1>6, <2>2 DEF TypeOK, Status, ResumeGranted
<1>7. ASSUME NEW j \in Job, CancelGranted(j)
      PROVE  TypeOK'
  <2>1. permits + 1 = permits + (IF "done" = "done" THEN 1 ELSE 0)
    OBVIOUS
  <2>2. permits' \in Nat /\ waiters' \in Seq(Job) /\ phase' \in [Job -> Phase]
    BY <1>7, <2>1, LeaveAcquireStep DEF CancelGranted
  <2> QED
    BY <1>7, <2>2 DEF TypeOK, CancelGranted
<1>8. ASSUME NEW j \in Job, HandlerReturns(j) \/ ReportDone(j) \/ CancelReport(j)
      PROVE  TypeOK'
  <2>1. phase[j] \in Holding \ {"granted"} /\ Release(j)
    BY <1>8 DEF HandlerReturns, ReportDone, CancelReport, Holding
  <2>2. permits' \in Nat /\ waiters' \in Seq(Job) /\ phase' \in [Job -> Phase]
    BY <2>1, ReleaseStep
  <2>3. events' \in [Job -> Seq(RunEvent)]
    <3>1. "run_failed" \in RunEvent /\ "run_cancelled" \in RunEvent
      BY DEF RunEvent
    <3>2. CASE UNCHANGED events
      BY <3>2 DEF TypeOK
    <3>3. CASE Emit(j, "run_failed") \/ Emit(j, "run_cancelled")
      BY <3>1, <3>3, EmitType
    <3> QED
      BY <1>8, <3>2, <3>3 DEF HandlerReturns, ReportDone, CancelReport
  <2>4. status' \in [Job -> Status] /\ cancelling' \in SUBSET Job
    BY <1>8 DEF HandlerReturns, ReportDone, CancelReport, TypeOK, Status
  <2> QED
    BY <1>8, <2>2, <2>3, <2>4 DEF TypeOK, HandlerReturns, ReportDone, CancelReport
<1>9. ASSUME NEW j \in Job, RecordingMissing(j) \/ RunStarted(j) \/ RunFinished(j)
      PROVE  TypeOK'
  <2>1. events' \in [Job -> Seq(RunEvent)]
    <3>1. {"run_failed", "run_started", "run_finished"} \subseteq RunEvent
      BY DEF RunEvent
    <3> QED
      BY <1>9, <3>1, EmitType DEF RecordingMissing, RunStarted, RunFinished
  <2> QED
    BY <1>9, <2>1 DEF TypeOK, Stage, RecordingMissing, RunStarted, RunFinished, Advance
<1>10. ASSUME NEW j \in Job, RecordingFound(j) \/ SaveResult(j)
       PROVE  TypeOK'
  BY <1>10 DEF TypeOK, Stage, RecordingFound, SaveResult, Advance
<1>11. ASSUME NEW j \in Job, ExecuteOne(j)
       PROVE  TypeOK'
  BY <1>11, JobPoolAssumption DEF TypeOK, ExecuteOne
<1>12. ASSUME NEW j \in Job, HandlerRaises(j) \/ CancelUnstarted(j) \/ CancelHandler(j)
       PROVE  TypeOK'
  BY <1>12 DEF TypeOK, Phase, Status, HandlerRaises, CancelUnstarted, CancelHandler
<1>13. CASE Close \/ CloseReturns
  BY <1>13 DEF TypeOK, Close, CloseReturns
<1>14. CASE GraceExpires
  <2>1. waiters' \in Seq(Job)
    BY <1>14, EmptySeq DEF GraceExpires
  <2> QED
    BY <1>14, <2>1 DEF TypeOK, Phase, Live, GraceExpires
<1>15. CASE UNCHANGED vars
  BY <1>15 DEF TypeOK, vars
<1> QED
  BY <1>1, <1>2, <1>3, <1>4, <1>5, <1>6, <1>7, <1>8, <1>9, <1>10, <1>11, <1>12,
     <1>13, <1>14, <1>15 DEF Next, TaskStep, RequestStep

-----------------------------------------------------------------------------
(* Job states and the depth of the queue. *)

\* What one step may do to the phases and statuses of the jobs.
StatusStep(j) ==
    \/ status'[j] = status[j]
    \/ status[j] = "none" /\ status'[j] = "queued"
    \/ status[j] = "queued" /\ status'[j] = "in_progress"
    \/ status[j] = "in_progress" /\ status'[j] \in Terminal

\* A task that the semaphore moves on was waiting before: it keeps its status.
LEMMA WakeKeepsStatusOK ==
    ASSUME TypeOK, SemInv, StatusOK,
           NEW j \in Job, NEW p \in {"handling", "done"}, NEW n \in 0..Len(waiters),
           phase[j] \notin {"waiting", "none"}, MoveAndWake(j, p, n),
           status' \in [Job -> Status],
           \A k \in Job \ {j} : status'[k] = status[k],
           status'[j] # "none", status'[j] = "in_progress" <=> p = "handling"
    PROVE  StatusOK'
<1>0. p \in Phase \ {"waiting"}
  BY DEF Phase
<1>1. /\ phase'[j] = p
      /\ \A k \in Job \ {j} : \/ phase'[k] = phase[k]
                              \/ phase[k] = "waiting" /\ phase'[k] = "granted"
  BY <1>0, MoveAndWakeEffect DEF SemInv
<1> QED
  BY <1>1 DEF StatusOK

\* A step of one job that gives it a status fit for its new phase.
LEMMA MoveKeepsStatusOK ==
    ASSUME TypeOK, StatusOK, NEW j \in Job, NEW p, NEW st,
           phase' = [phase EXCEPT ![j] = p], status' = [status EXCEPT ![j] = st],
           p # "none", st # "none",
           p \in {"created", "waiting", "revoked", "granted"} => st = "queued",
           p = "handling" <=> st = "in_progress",
           \/ st = status[j]
           \/ status[j] = "none" /\ st = "queued"
           \/ status[j] = "queued" /\ st = "in_progress"
           \/ status[j] = "in_progress" /\ st \in Terminal
    PROVE  StatusOK' /\ \A k \in Job : StatusStep(k)
<1>1. phase'[j] = p /\ status'[j] = st
  BY DEF TypeOK
<1>2. \A k \in Job \ {j} : phase'[k] = phase[k] /\ status'[k] = status[k]
  BY DEF TypeOK
<1>3. StatusOK'
  BY <1>1, <1>2 DEF StatusOK
<1>4. \A k \in Job : StatusStep(k)
  BY <1>1, <1>2 DEF StatusStep
<1> QED
  BY <1>3, <1>4

\* Every step keeps statuses and phases in agreement, and moves a status forward.
LEMMA StatusOKStep ==
    ASSUME TypeOK, SemInv, StatusOK, [Next]_vars
    PROVE  StatusOK' /\ \A j \in Job : StatusStep(j)
<1> USE DEF Resumes, Delivered, semVars, runVars, StatusStep
<1>0. Len(waiters) \in Nat /\ permits \in Nat
  BY LenProperties DEF TypeOK
<1>1. CASE UNCHANGED <<phase, status>>
  BY <1>1 DEF StatusOK
<1>2. ASSUME NEW j \in Job,
             \/ \E c \in Client : EnqueueJob(c, j)
             \/ StartNow(j) \/ StartWaiting(j)
             \/ HandlerRaises(j) \/ CancelUnstarted(j) \/ CancelHandler(j)
      PROVE  StatusOK' /\ \A k \in Job : StatusStep(k)
  <2>0. /\ phase \in [Job -> Phase] /\ status \in [Job -> Status]
        /\ status[j] \in Status /\ status = [status EXCEPT ![j] = status[j]]
    BY DEF TypeOK
  <2>1. CASE \E c \in Client : EnqueueJob(c, j)
    <3>1. /\ phase[j] = "none"
          /\ phase' = [phase EXCEPT ![j] = "created"]
          /\ status' = [status EXCEPT ![j] = "queued"]
      BY <2>1 DEF EnqueueJob
    <3>2. status[j] = "none"
      BY <3>1 DEF StatusOK
    <3> QED
      BY <3>1, <3>2, MoveKeepsStatusOK
  <2>2. CASE StartNow(j)
    <3>1. /\ phase[j] = "created"
          /\ phase' = [phase EXCEPT ![j] = "handling"]
          /\ status' = [status EXCEPT ![j] = "in_progress"]
      BY <2>2 DEF StartNow
    <3>2. status[j] = "queued"
      BY <3>1 DEF StatusOK
    <3> QED
      BY <3>1, <3>2, MoveKeepsStatusOK
  <2>3. CASE StartWaiting(j)
    <3>1. /\ phase[j] = "created"
          /\ phase' = [phase EXCEPT ![j] = "waiting"]
          /\ status' = status
      BY <2>3 DEF StartWaiting
    <3>2. status[j] = "queued" /\ status' = [status EXCEPT ![j] = "queued"]
      BY <2>0, <3>1 DEF StatusOK
    <3> QED
      BY <3>1, <3>2, MoveKeepsStatusOK
  <2>4. CASE HandlerRaises(j)
    <3>1. /\ phase[j] = "handling"
          /\ phase' = [phase EXCEPT ![j] = "failing"]
          /\ status' = [status EXCEPT ![j] = "failed"]
      BY <2>4 DEF HandlerRaises
    <3>2. status[j] = "in_progress"
      BY <3>1 DEF StatusOK
    <3> QED
      BY <3>1, <3>2, MoveKeepsStatusOK DEF Terminal
  <2>5. CASE CancelUnstarted(j)
    <3>1. /\ phase[j] \in {"created", "revoked"}
          /\ phase' = [phase EXCEPT ![j] = "done"]
          /\ status' = status
      BY <2>5 DEF CancelUnstarted
    <3>2. status[j] = "queued" /\ status' = [status EXCEPT ![j] = "queued"]
      BY <2>0, <3>1 DEF StatusOK
    <3> QED
      BY <3>1, <3>2, MoveKeepsStatusOK
  <2>6. CASE CancelHandler(j)
    <3>1. /\ phase[j] = "handling"
          /\ phase' = [phase EXCEPT ![j] = "stopping"]
          /\ status' = [status EXCEPT ![j] = "cancelled"]
      BY <2>6 DEF CancelHandler
    <3>2. status[j] = "in_progress"
      BY <3>1 DEF StatusOK
    <3> QED
      BY <3>1, <3>2, MoveKeepsStatusOK DEF Terminal
  <2> QED
    BY <1>2, <2>1, <2>2, <2>3, <2>4, <2>5, <2>6
<1>3. ASSUME NEW j \in Job, HandlerReturns(j) \/ ReportDone(j) \/ CancelReport(j)
      PROVE  StatusOK' /\ \A k \in Job : StatusStep(k)
  <2>1. PICK n \in 0..Len(waiters) : MoveAndWake(j, "done", n)
    <3>1. MoveAndWake(j, "done", SmallerOf(1, Len(waiters)))
      BY <1>3 DEF HandlerReturns, ReportDone, CancelReport, Release
    <3>2. SmallerOf(1, Len(waiters)) \in 0..Len(waiters)
      BY <1>0 DEF SmallerOf
    <3> QED
      BY <3>1, <3>2
  <2>2. /\ phase[j] \in {"handling", "failing", "stopping"}
        /\ \/ status' = status /\ phase[j] # "handling"
           \/ status' = [status EXCEPT ![j] = "complete"] /\ phase[j] = "handling"
    BY <1>3 DEF HandlerReturns, ReportDone, CancelReport
  <2>3. /\ status' \in [Job -> Status]
        /\ \A k \in Job \ {j} : status'[k] = status[k]
        /\ status'[j] # "none" /\ status'[j] # "in_progress"
    BY <2>2 DEF TypeOK, Status, StatusOK
  <2>4. StatusOK'
    BY <2>1, <2>2, <2>3, WakeKeepsStatusOK
  <2>5. ASSUME NEW k \in Job PROVE StatusStep(k)
    <3>1. CASE k # j
      BY <2>3, <3>1
    <3>2. CASE k = j
      <4>1. CASE status' = status
        BY <4>1
      <4>2. CASE status' = [status EXCEPT ![j] = "complete"] /\ phase[j] = "handling"
        <5>1. status[j] = "in_progress"
          BY <4>2 DEF StatusOK
        <5>2. status'[j] = "complete"
          BY <4>2 DEF TypeOK
        <5> QED
          BY <3>2, <5>1, <5>2 DEF Terminal
      <4> QED
        BY <2>2, <4>1, <4>2
    <3> QED
      BY <3>1, <3>2
  <2> QED
    BY <2>4, <2>5
<1>4. ASSUME NEW j \in Job, ResumeGranted(j) \/ CancelGranted(j)
      PROVE  StatusOK' /\ \A k \in Job : StatusStep(k)
  <2>1. PICK n \in 0..Len(waiters), p \in {"handling", "done"} :
           /\ MoveAndWake(j, p, n)
           /\ \/ p = "handling" /\ status' = [status EXCEPT ![j] = "in_progress"]
              \/ p = "done" /\ status' = status
    <3>1. \A v \in Nat : SmallerOf(v, Len(waiters)) \in 0..Len(waiters)
      BY <1>0 DEF SmallerOf
    <3>2. CASE ResumeGranted(j)
      <4>1. /\ MoveAndWake(j, "handling", SmallerOf(permits, Len(waiters)))
            /\ status' = [status EXCEPT ![j] = "in_progress"]
        BY <3>2 DEF ResumeGranted, LeaveAcquire
      <4> QED
        BY <1>0, <3>1, <4>1
    <3>3. CASE CancelGranted(j)
      <4>1. MoveAndWake(j, "done", SmallerOf(permits + 1, Len(waiters))) /\ status' = status
        BY <3>3 DEF CancelGranted, LeaveAcquire
      <4>2. permits + 1 \in Nat
        BY <1>0
      <4> QED
        BY <3>1, <4>1, <4>2
    <3> QED
      BY <1>4, <3>2, <3>3
  <2>2. phase[j] = "granted"
    BY <1>4 DEF ResumeGranted, CancelGranted
  <2>3. StatusOK'
    <3>1. /\ status' \in [Job -> Status]
          /\ \A k \in Job \ {j} : status'[k] = status[k]
          /\ status'[j] # "none" /\ (status'[j] = "in_progress" <=> p = "handling")
      BY <2>1, <2>2 DEF TypeOK, Status, StatusOK
    <3> QED
      BY <2>1, <2>2, <3>1, WakeKeepsStatusOK
  <2>4. ASSUME NEW k \in Job PROVE StatusStep(k)
    <3>1. status[j] = "queued"
      BY <2>2 DEF StatusOK
    <3>2. CASE status' = status
      BY <3>2
    <3>3. CASE status' = [status EXCEPT ![j] = "in_progress"]
      <4>1. k # j => status'[k] = status[k]
        BY <3>3 DEF TypeOK
      <4>2. status'[j] = "in_progress"
        BY <3>3 DEF TypeOK
      <4> QED
        BY <3>1, <4>1, <4>2
    <3> QED
      BY <2>1, <3>2, <3>3
  <2> QED
    BY <2>3, <2>4
<1>5. CASE GraceExpires
  BY <1>5 DEF GraceExpires, StatusOK, TypeOK
<1>6. ASSUME NEW j \in Job,
             \/ Cancel(j) \/ RecordingMissing(j) \/ RecordingFound(j) \/ RunStarted(j)
             \/ ExecuteOne(j) \/ RunFinished(j) \/ SaveResult(j)
      PROVE  UNCHANGED <<phase, status>>
  BY <1>6 DEF Cancel, RecordingMissing, RecordingFound, RunStarted, ExecuteOne,
              RunFinished, SaveResult, Advance
<1>7. ASSUME NEW c \in Client,
             Admit(c) \/ UnknownRecording(c) \/ EnqueueRefused(c)
      PROVE  UNCHANGED <<phase, status>>
  BY <1>7 DEF Admit, UnknownRecording, EnqueueRefused
<1>8. CASE Close \/ CloseReturns \/ UNCHANGED vars
  <2>1. UNCHANGED <<phase, status>>
    BY <1>8 DEF Close, CloseReturns, vars
  <2> QED
    BY <1>1, <2>1
<1> QED
  BY <1>1, <1>2, <1>3, <1>4, <1>5, <1>6, <1>7, <1>8 DEF Next, TaskStep, RequestStep

Counted == {j \in Job : status[j] \in {"queued", "in_progress"}}
Admitted == {c \in Client : request[c] = "admitted"}

\* The jobs and requests that DepthBound counts are finitely many.
LEMMA DepthCount ==
    /\ IsFiniteSet(Counted) /\ Cardinality(Counted) \in Nat
    /\ IsFiniteSet(Admitted) /\ Cardinality(Admitted) \in Nat
    /\ Cardinality(Admitted) <= Cardinality(Client)
    /\ Cardinality(Client) \in Nat
<1>1. Counted \subseteq Job /\ Admitted \subseteq Client
  BY DEF Counted, Admitted
<1>2. IsFiniteSet(Counted) /\ IsFiniteSet(Admitted)
  BY <1>1, JobPoolAssumption, FS_Subset
<1>3. Cardinality(Admitted) <= Cardinality(Client)
  BY <1>1, JobPoolAssumption, FS_Subset
<1> QED
  BY <1>2, <1>3, JobPoolAssumption, FS_CardinalityType

\* A request is admitted only at or below the depth, and it turns into at most
\* one job; nothing else adds to the count.
LEMMA DepthStep ==
    ASSUME TypeOK, SemInv, StatusOK, DepthBound, [Next]_vars
    PROVE  DepthBound'
<1> USE DEF Resumes, Delivered, semVars, runVars
<1>0. /\ Cardinality(Counted) + Cardinality(Admitted) <= MaxDepth + Cardinality(Client)
      /\ DepthBound' <=> Cardinality(Counted') + Cardinality(Admitted')
                            <= MaxDepth + Cardinality(Client)
      /\ QueueSize = Cardinality(Counted)
  BY DEF DepthBound, QueueSize, Counted, Admitted
<1>1. ASSUME Counted' \subseteq Counted, Admitted' \subseteq Admitted
      PROVE  DepthBound'
  <2>1. /\ Cardinality(Counted') <= Cardinality(Counted) /\ Cardinality(Counted') \in Nat
        /\ Cardinality(Admitted') <= Cardinality(Admitted) /\ Cardinality(Admitted') \in Nat
    BY <1>1, DepthCount, FS_Subset, FS_CardinalityType
  <2> QED
    BY <1>0, <2>1, DepthCount, JobPoolAssumption
<1>2. ASSUME NEW c \in Client, Admit(c)
      PROVE  DepthBound'
  <2>1. Counted' = Counted /\ QueueSize <= MaxDepth
    BY <1>2 DEF Admit, Counted
  <2>2. Admitted' \subseteq Client
    BY DEF Admitted
  <2>3. Cardinality(Admitted') <= Cardinality(Client) /\ Cardinality(Admitted') \in Nat
    BY <2>2, JobPoolAssumption, FS_Subset, FS_CardinalityType
  <2> QED
    BY <1>0, <2>1, <2>3, DepthCount, JobPoolAssumption
<1>3. ASSUME NEW c \in Client, NEW j \in Job, EnqueueJob(c, j)
      PROVE  DepthBound'
  <2>1. Counted' = Counted \union {j}
    BY <1>3 DEF EnqueueJob, Counted, TypeOK
  <2>2. Admitted' = Admitted \ {c} /\ c \in Admitted
    BY <1>3 DEF EnqueueJob, Admitted, TypeOK
  <2>3. Cardinality(Counted') \in Nat /\ Cardinality(Counted') <= Cardinality(Counted) + 1
    <3>1. Cardinality(Counted \union {j}) =
             IF j \in Counted THEN Cardinality(Counted) ELSE Cardinality(Counted) + 1
      BY DepthCount, FS_AddElement
    <3> QED
      BY <2>1, <3>1, DepthCount
  <2>4. Cardinality(Admitted') = Cardinality(Admitted) - 1
    BY <2>2, DepthCount, FS_RemoveElement
  <2> QED
    BY <1>0, <2>3, <2>4, DepthCount, JobPoolAssumption
<1>4. ASSUME NEW c \in Client, UnknownRecording(c) \/ EnqueueRefused(c)
      PROVE  DepthBound'
  <2>1. Counted' = Counted
    BY <1>4 DEF UnknownRecording, EnqueueRefused, Counted
  <2>2. Admitted' \subseteq Admitted
    BY <1>4 DEF UnknownRecording, EnqueueRefused, Admitted, TypeOK
  <2> QED
    BY <1>1, <2>1, <2>2
<1>5. ASSUME request' = request, \A k \in Job : status'[k] = "queued" => status[k] = "queued"
      PROVE  DepthBound'
  <2>1. Admitted' = Admitted
    BY <1>5 DEF Admitted
  <2>2. Counted' \subseteq Counted
    BY <1>5, StatusOKStep DEF Counted, StatusStep
  <2> QED
    BY <1>1, <2>1, <2>2
<1>6. ASSUME NEW j \in Job, TaskStep(j) \/ Cancel(j)
      PROVE  request' = request /\ \A k \in Job : status'[k] = "queued" => status[k] = "queued"
  <2>1. request' = request
    BY <1>6 DEF TaskStep, Cancel, StartNow, StartWaiting, ResumeGranted, RecordingMissing,
       RecordingFound, RunStarted, ExecuteOne, RunFinished, SaveResult, HandlerReturns,
       HandlerRaises, ReportDone, CancelUnstarted, CancelGranted, CancelHandler,
       CancelReport, Advance
  <2>2. status' = status \/ \E s \in Status \ {"queued"} : status' = [status EXCEPT ![j] = s]
    BY <1>6 DEF TaskStep, Cancel, StartNow, StartWaiting, ResumeGranted, RecordingMissing,
       RecordingFound, RunStarted, ExecuteOne, RunFinished, SaveResult, HandlerReturns,
       HandlerRaises, ReportDone, CancelUnstarted, CancelGranted, CancelHandler,
       CancelReport, Advance, Status
  <2> QED
    BY <2>1, <2>2 DEF TypeOK
<1>7. CASE Close \/ GraceExpires \/ CloseReturns \/ UNCHANGED vars
  <2>1. request' = request /\ status' = status
    BY <1>7 DEF Close, GraceExpires, CloseReturns, vars
  <2> QED
    BY <1>5, <2>1
<1> QED
  BY <1>2, <1>3, <1>4, <1>5, <1>6, <1>7 DEF Next, RequestStep

-----------------------------------------------------------------------------
(* Shutdown. *)

\* A task that has ended, or never began, takes no step.
LEMMA EndedTasksRest ==
    ASSUME NEW j \in Job, phase[j] \in {"none", "done"}
    PROVE  ~TaskStep(j)
BY DEF TaskStep, Resumes, Delivered, Handling, StartNow, StartWaiting, ResumeGranted,
   RecordingMissing, RecordingFound, RunStarted, ExecuteOne, RunFinished, SaveResult,
   HandlerReturns, HandlerRaises, ReportDone, CancelUnstarted, CancelGranted,
   CancelHandler, CancelReport

\* Once close() has returned every task is over, and the state of the runs and
\* of the pool stays as it is.
LEMMA ClosedStep ==
    ASSUME TypeOK, ClosedOK, [Next]_vars
    PROVE  /\ ClosedOK'
           /\ pool = "closed" => Holders = {} /\ UNCHANGED <<events, saved, ran>>
<1> USE DEF Resumes, Delivered, semVars, runVars
<1>1. CASE pool = "closed"
  <2>1. \A j \in Job : phase[j] \in {"none", "done"}
    BY <1>1 DEF ClosedOK, Live
  <2>2. Holders = {}
    BY <2>1 DEF Holders, Holding
  <2>3. \A j \in Job : ~TaskStep(j)
    BY <2>1, EndedTasksRest
  <2>4. \/ UNCHANGED vars
        \/ \E c \in Client : RequestStep(c)
        \/ \E j \in Job : Cancel(j)
    BY <1>1, <2>3 DEF Next, Close, GraceExpires, CloseReturns
  <2>5. UNCHANGED <<pool, phase, events, saved, ran>>
    BY <1>1, <2>4 DEF vars, RequestStep, Admit, UnknownRecording,
                      EnqueueRefused, EnqueueJob, Cancel
  <2> QED
    BY <1>1, <2>2, <2>5 DEF ClosedOK, Live
<1>2. CASE pool # "closed"
  <2>1. CASE Close \/ CloseReturns
    BY <1>2, <2>1 DEF Close, CloseReturns, ClosedOK, Live
  <2>2. CASE GraceExpires \/ UNCHANGED vars
    BY <1>2, <2>2 DEF GraceExpires, ClosedOK, vars
  <2>3. ASSUME NEW c \in Client, RequestStep(c)
        PROVE  pool' = pool
    BY <2>3 DEF RequestStep, Admit, UnknownRecording, EnqueueRefused, EnqueueJob
  <2>4. ASSUME NEW j \in Job, TaskStep(j) \/ Cancel(j)
        PROVE  pool' = pool
    BY <2>4 DEF TaskStep, Cancel, StartNow, StartWaiting, ResumeGranted, RecordingMissing,
       RecordingFound, RunStarted, ExecuteOne, RunFinished, SaveResult, HandlerReturns,
       HandlerRaises, ReportDone, CancelUnstarted, CancelGranted, CancelHandler,
       CancelReport, Advance
  <2> QED
    BY <1>2, <2>1, <2>2, <2>3, <2>4 DEF Next, ClosedOK
<1> QED
  BY <1>1, <1>2

-----------------------------------------------------------------------------
(* Theorems. *)

\* Pool, deque and permits start out in agreement.
LEMMA InitInv == Init => PoolInv
<1> SUFFICES ASSUME Init PROVE PoolInv
  OBVIOUS
<1>1. TypeOK
  BY JobPoolAssumption, EmptySeq
  DEF Init, TypeOK, Phase, Status, Stage, RequestState
<1>2. WaitersOK /\ StatusOK /\ NoLostWakeup /\ ClosedOK
  BY DEF Init, WaitersOK, StatusOK, NoLostWakeup, ClosedOK
<1>3. PermitsConserved
  <2>1. Holders = {}
    BY DEF Init, Holders, Holding
  <2> QED
    BY <2>1, FS_EmptySet, JobPoolAssumption DEF Init, PermitsConserved
<1>4. DepthBound
  <2>1. Counted = {} /\ Admitted = {}
    BY DEF Init, Counted, Admitted
  <2>2. Cardinality(Counted) = 0 /\ Cardinality(Admitted) = 0
    BY <2>1, FS_EmptySet
  <2> QED
    BY <2>2, DepthCount, JobPoolAssumption DEF DepthBound, QueueSize, Counted, Admitted
<1> QED
  BY <1>1, <1>2, <1>3, <1>4 DEF PoolInv

\* The invariant is inductive.
LEMMA InvStep == PoolInv /\ [Next]_vars => PoolInv'
<1> SUFFICES ASSUME PoolInv, [Next]_vars PROVE PoolInv'
  OBVIOUS
<1>1. TypeOK /\ SemInv /\ StatusOK /\ DepthBound /\ ClosedOK
  BY DEF PoolInv, SemInv
<1>2. SemInv'
  BY <1>1, SemStep
<1>3. TypeOK'
  BY <1>1, TypeStep
<1>4. StatusOK'
  BY <1>1, StatusOKStep
<1>5. DepthBound'
  BY <1>1, DepthStep
<1>6. ClosedOK'
  BY <1>1, ClosedStep
<1> QED
  BY <1>2, <1>3, <1>4, <1>5, <1>6 DEF PoolInv, SemInv

\* The inductive invariant holds in every reachable state of the pool.
THEOREM PoolInvariant == Spec => []PoolInv
BY InitInv, InvStep, PTL DEF Spec

\* Every variable of the pool keeps its type; in particular the semaphore's
\* value never goes below zero.
THEOREM TypeCorrect == Spec => []TypeOK
<1>1. PoolInv => TypeOK
  BY DEF PoolInv
<1> QED
  BY PoolInvariant, <1>1, PTL

\* No path through _run_one loses or forges a permit, whatever the number of
\* jobs and wherever a cancellation hits.
THEOREM PermitsAreConserved == Spec => []PermitsConserved
<1>1. PoolInv => PermitsConserved
  BY DEF PoolInv
<1> QED
  BY PoolInvariant, <1>1, PTL

\* Never more than `Limit` replays are in progress: each of them holds a permit.
THEOREM ReplaysAreBounded == Spec => []ConcurrencyBound
<1>1. PoolInv => ConcurrencyBound
  <2> SUFFICES ASSUME PoolInv PROVE ConcurrencyBound
    OBVIOUS
  <2> DEFINE R == {j \in Job : status[j] = "in_progress"}
  <2>1. TypeOK /\ StatusOK /\ PermitsConserved
    BY DEF PoolInv
  <2>2. R \subseteq Holders
    BY <2>1 DEF StatusOK, Holders, Holding
  <2>3. Cardinality(R) <= Cardinality(Holders) /\ Cardinality(R) \in Nat
    BY <2>1, <2>2, HoldersCount, FS_Subset, FS_CardinalityType
  <2>4. Cardinality(Holders) <= Limit
    BY <2>1, HoldersCount, JobPoolAssumption DEF PermitsConserved, TypeOK
  <2> QED
    BY <2>1, <2>3, <2>4, HoldersCount, JobPoolAssumption DEF ConcurrencyBound
<1> QED
  BY PoolInvariant, <1>1, PTL

\* A job never waits for a permit that is free while nobody is about to pass
\* it on.
THEOREM WakeupsAreNotLost == Spec => []NoLostWakeup
<1>1. PoolInv => NoLostWakeup
  BY DEF PoolInv
<1> QED
  BY PoolInvariant, <1>1, PTL

\* Backpressure overshoots the configured depth by at most one job per client.
THEOREM DepthIsBounded == Spec => []DepthBound
<1>1. PoolInv => DepthBound
  BY DEF PoolInv
<1> QED
  BY PoolInvariant, <1>1, PTL

\* A job's status only moves forward.
THEOREM StatusMovesForward == Spec => StatusForward
<1>1. PoolInv /\ [Next]_vars =>
         [\A j \in Job : status'[j] # status[j] =>
            \/ status[j] = "none" /\ status'[j] = "queued"
            \/ status[j] = "queued" /\ status'[j] = "in_progress"
            \/ status[j] = "in_progress" /\ status'[j] \in Terminal]_vars
  <2> SUFFICES ASSUME PoolInv, [Next]_vars
               PROVE  \A j \in Job : StatusStep(j)
    BY DEF StatusStep
  <2>1. TypeOK /\ SemInv /\ StatusOK
    BY DEF PoolInv, SemInv
  <2> QED
    BY <2>1, StatusOKStep
<1> QED
  BY PoolInvariant, <1>1, PTL DEF Spec, StatusForward

\* When close() has returned, no task is left that publishes an event, stores a
\* run or runs an action: Redis and the engine can be torn down.
THEOREM ClosedIsQuiet == Spec => QuietAfterClose
<1>1. PoolInv /\ [Next]_vars =>
         [pool = "closed" => Holders = {} /\ UNCHANGED <<events, saved, ran>>]_vars
  <2> SUFFICES ASSUME PoolInv, [Next]_vars
               PROVE  pool = "closed" => Holders = {} /\ UNCHANGED <<events, saved, ran>>
    OBVIOUS
  <2>1. TypeOK /\ ClosedOK
    BY DEF PoolInv
  <2> QED
    BY <2>1, ClosedStep
<1> QED
  BY PoolInvariant, <1>1, PTL DEF Spec, QuietAfterClose
-----------------------------------------------------------------------------
(* Outcomes. *)

\* A published event is the last one, and nothing published is taken back.
LEMMA EmitEffect ==
    ASSUME TypeOK, NEW j \in Job, NEW e \in RunEvent, Emit(j, e)
    PROVE  /\ LastEvent(j)' = e
           /\ EventSet(j) \subseteq EventSet(j)'
           /\ \A k \in Job \ {j} : events'[k] = events[k]
<1>1. /\ events'[j] = Append(events[j], e)
      /\ \A k \in Job \ {j} : events'[k] = events[k]
  BY DEF Emit, TypeOK
<1>2. /\ events[j] \in Seq(RunEvent)
      /\ Len(events[j]) \in Nat
      /\ Len(events'[j]) = Len(events[j]) + 1
      /\ events'[j][Len(events[j]) + 1] = e
      /\ \A i \in 1..Len(events[j]) : events'[j][i] = events[j][i]
      /\ events'[j] # <<>>
  <2>1. PICK old \in Seq(RunEvent) : old = events[j]
    BY DEF TypeOK
  <2>2. PICK new : new = Append(old, e)
    OBVIOUS
  <2>3. Len(old) \in Nat
    BY LenProperties
  <2>4. /\ Len(new) = Len(old) + 1 /\ new # <<>> /\ new[Len(old) + 1] = e
        /\ \A i \in 1..Len(old) : new[i] = old[i]
    BY <2>2, <2>3, AppendProperties
  <2>5. events'[j] = new
    BY <1>1, <2>1, <2>2
  <2> QED
    BY <2>1, <2>3, <2>4, <2>5
<1>3. LastEvent(j)' = e
  BY <1>2 DEF LastEvent
<1>4. EventSet(j) \subseteq EventSet(j)'
  BY <1>2 DEF EventSet
<1> QED
  BY <1>1, <1>3, <1>4

\* The last event of a run that has one is among its events.
LEMMA LastIsPublished ==
    ASSUME TypeOK, NEW j \in Job, NEW e \in RunEvent, LastEvent(j) = e
    PROVE  e \in EventSet(j)
<1>1. events[j] \in Seq(RunEvent) /\ "nothing" \notin RunEvent
  BY DEF TypeOK, RunEvent
<1>2. events[j] # <<>>
  BY <1>1 DEF LastEvent
<1>3. Len(events[j]) \in 1..Len(events[j])
  BY <1>1, <1>2, LenProperties, EmptySeq
<1> QED
  BY <1>2, <1>3 DEF LastEvent, EventSet

\* A job that is not the one that steps keeps all that its outcome depends on; it
\* may be woken or have its future cancelled.
Untouched(k) ==
    /\ status'[k] = status[k] /\ stage'[k] = stage[k]
    /\ ran'[k] = ran[k] /\ events'[k] = events[k]
    /\ k \in saved' <=> k \in saved
    /\ \/ phase'[k] = phase[k]
       \/ phase[k] = "waiting" /\ phase'[k] \in {"granted", "revoked"}

\* Such a job keeps its outcome as long as close() goes forward.
LEMMA UntouchedKeeps ==
    ASSUME NEW k \in Job, OutcomeOf(k), OutcomeAgrees(k), Untouched(k),
           pool' \in {"open", "draining"} => pool \in {"open", "draining"}
    PROVE  OutcomeOf(k)' /\ OutcomeAgrees(k)'
<1>1. LastEvent(k)' = LastEvent(k) /\ EventSet(k)' = EventSet(k)
  BY DEF Untouched, LastEvent, EventSet
<1>2. OutcomeOf(k)'
  BY <1>1 DEF OutcomeOf, Untouched
<1>3. OutcomeAgrees(k)'
  <2>1. k \in saved' => ran'[k] = NActions /\ "run_finished" \in EventSet(k)'
    BY <1>1 DEF OutcomeAgrees, Untouched
  <2>2. phase'[k] = "done" => phase[k] = "done"
    BY DEF Untouched
  <2> QED
    BY <1>1, <2>1, <2>2 DEF OutcomeAgrees, Untouched
<1> QED
  BY <1>2, <1>3

\* A step of the handler that goes on.
LEMMA HandlerOutcome ==
    ASSUME TypeOK, NEW j \in Job, OutcomeOf(j), OutcomeAgrees(j),
           \/ RecordingMissing(j) \/ RecordingFound(j) \/ RunStarted(j)
           \/ ExecuteOne(j) \/ RunFinished(j) \/ SaveResult(j)
    PROVE  OutcomeOf(j)' /\ OutcomeAgrees(j)'
<1> USE DEF Handling, Resumes, Advance
<1>1. {"run_failed", "run_started", "run_finished"} \subseteq RunEvent
  BY DEF RunEvent
<1>2. CASE RecordingMissing(j)
  <2>1. LastEvent(j)' = "run_failed"
    BY <1>1, <1>2, EmitEffect DEF RecordingMissing
  <2>2. /\ phase'[j] = "handling" /\ stage'[j] = "missing"
        /\ j \notin saved'
    BY <1>2 DEF RecordingMissing, TypeOK, OutcomeOf
  <2> QED
    BY <2>1, <2>2 DEF OutcomeOf, OutcomeAgrees
<1>3. CASE RecordingFound(j)
  <2>1. /\ phase'[j] = "handling" /\ stage'[j] = "browser" /\ events'[j] = <<>>
        /\ j \notin saved'
    BY <1>3 DEF RecordingFound, TypeOK, OutcomeOf
  <2> QED
    BY <2>1 DEF OutcomeOf, OutcomeAgrees
<1>4. CASE RunStarted(j)
  <2>1. phase'[j] = "handling" /\ stage'[j] = "acting" /\ j \notin saved'
    BY <1>4 DEF RunStarted, TypeOK, OutcomeOf
  <2> QED
    BY <2>1 DEF OutcomeOf, OutcomeAgrees
<1>5. CASE ExecuteOne(j)
  <2>1. phase'[j] = "handling" /\ stage'[j] = "acting" /\ j \notin saved'
    BY <1>5 DEF ExecuteOne, TypeOK, OutcomeOf
  <2> QED
    BY <2>1 DEF OutcomeOf, OutcomeAgrees
<1>6. CASE RunFinished(j)
  <2>1. LastEvent(j)' = "run_finished"
    BY <1>1, <1>6, EmitEffect DEF RunFinished
  <2>2. /\ phase'[j] = "handling" /\ stage'[j] = "finished" /\ ran'[j] = NActions
        /\ j \notin saved'
    BY <1>6 DEF RunFinished, TypeOK, OutcomeOf
  <2> QED
    BY <2>1, <2>2 DEF OutcomeOf, OutcomeAgrees
<1>7. CASE SaveResult(j)
  <2>1. LastEvent(j) = "run_finished" /\ ran[j] = NActions
    BY <1>7 DEF SaveResult, OutcomeOf
  <2>2. "run_finished" \in EventSet(j)
    BY <1>1, <2>1, LastIsPublished
  <2>3. LastEvent(j)' = LastEvent(j) /\ EventSet(j)' = EventSet(j)
    BY <1>7 DEF SaveResult, LastEvent, EventSet
  <2>4. /\ phase'[j] = "handling" /\ stage'[j] = "saved" /\ ran'[j] = ran[j]
        /\ j \in saved'
    BY <1>7 DEF SaveResult, TypeOK
  <2> QED
    BY <2>1, <2>2, <2>3, <2>4 DEF OutcomeOf, OutcomeAgrees
<1> QED
  BY <1>2, <1>3, <1>4, <1>5, <1>6, <1>7

\* A step with which a task ends.
LEMMA EndOutcome ==
    ASSUME TypeOK, StatusOK, NEW j \in Job, OutcomeOf(j), OutcomeAgrees(j),
           cancelling # {} => pool \in {"cancelling", "closed"},
           \/ HandlerReturns(j) \/ ReportDone(j) \/ CancelReport(j)
           \/ CancelUnstarted(j) \/ CancelGranted(j),
           phase'[j] = "done"
    PROVE  OutcomeOf(j)' /\ OutcomeAgrees(j)'
<1> USE DEF Resumes, Delivered, runVars
<1>1. "run_failed" \in RunEvent /\ "run_cancelled" \in RunEvent
  BY DEF RunEvent
<1>2. OutcomeOf(j)'
  BY DEF OutcomeOf
<1>3. CASE HandlerReturns(j)
  <2>1. /\ status'[j] = "complete" /\ ran' = ran /\ saved' = saved
        /\ LastEvent(j)' = LastEvent(j) /\ EventSet(j)' = EventSet(j)
    BY <1>3 DEF HandlerReturns, TypeOK, LastEvent, EventSet
  <2>2. LastEvent(j) = IF j \in saved THEN "run_finished" ELSE "run_failed"
    BY <1>3 DEF HandlerReturns, OutcomeOf
  <2> QED
    BY <1>2, <2>1, <2>2 DEF OutcomeAgrees
<1>4. CASE ReportDone(j)
  <2>1. PICK e \in {"run_failed", "run_cancelled"} :
            /\ Emit(j, e)
            /\ e = "run_failed" => status[j] = "failed" /\ j \notin saved
            /\ e = "run_cancelled" => status[j] = "cancelled"
    BY <1>4 DEF ReportDone, OutcomeOf
  <2>2. LastEvent(j)' = e /\ EventSet(j) \subseteq EventSet(j)'
    BY <1>1, <2>1, EmitEffect
  <2>3. status' = status /\ ran' = ran /\ saved' = saved
    BY <1>4 DEF ReportDone
  <2> QED
    BY <1>2, <2>1, <2>2, <2>3 DEF OutcomeAgrees
<1>5. CASE CancelReport(j)
  <2>1. status[j] = "failed" /\ j \notin saved
    BY <1>5 DEF CancelReport, OutcomeOf
  <2>2. pool' \notin {"open", "draining"} /\ status' = status /\ saved' = saved
    BY <1>5 DEF CancelReport
  <2> QED
    BY <1>2, <2>1, <2>2 DEF OutcomeAgrees
<1>6. CASE CancelUnstarted(j) \/ CancelGranted(j)
  <2>1. /\ status[j] = "queued" /\ stage[j] = "lookup"
        /\ events[j] = <<>> /\ j \notin saved
    BY <1>6 DEF CancelUnstarted, CancelGranted, OutcomeOf, StatusOK
  <2>2. status' = status /\ events' = events /\ saved' = saved
    BY <1>6 DEF CancelUnstarted, CancelGranted
  <2> QED
    BY <1>2, <2>1, <2>2 DEF OutcomeAgrees
<1> QED
  BY <1>3, <1>4, <1>5, <1>6

\* A step that moves a task on before or after its handler, and not to its end.
LEMMA MovedOutcome ==
    ASSUME TypeOK, StatusOK, NEW j \in Job, OutcomeOf(j), OutcomeAgrees(j),
           \/ \E c \in Client : EnqueueJob(c, j)
           \/ StartNow(j) \/ StartWaiting(j) \/ HandlerRaises(j) \/ CancelHandler(j)
           \/ ResumeGranted(j) /\ phase'[j] = "handling"
    PROVE  OutcomeOf(j)' /\ OutcomeAgrees(j)'
<1> USE DEF Resumes, Delivered, runVars
<1>1. /\ stage' = stage /\ ran' = ran
      /\ LastEvent(j)' = LastEvent(j) /\ EventSet(j)' = EventSet(j) /\ events' = events
  BY DEF EnqueueJob, StartNow, StartWaiting, ResumeGranted, HandlerRaises, CancelHandler,
         LastEvent, EventSet
<1>2. CASE \/ \E c \in Client : EnqueueJob(c, j)
           \/ StartNow(j) \/ StartWaiting(j)
           \/ ResumeGranted(j) /\ phase'[j] = "handling"
  <2>1. /\ phase[j] \in {"none", "created", "granted"}
        /\ phase'[j] \in {"created", "waiting", "handling"}
        /\ saved' = saved
    BY <1>2 DEF EnqueueJob, StartNow, StartWaiting, ResumeGranted, TypeOK
  <2> QED
    BY <1>1, <2>1 DEF OutcomeOf, OutcomeAgrees
<1>3. CASE HandlerRaises(j)
  <2>1. /\ phase[j] = "handling" /\ phase'[j] = "failing" /\ status'[j] = "failed"
        /\ stage[j] # "saved" /\ saved' = saved
    BY <1>3 DEF HandlerRaises, TypeOK
  <2> QED
    BY <1>1, <2>1 DEF OutcomeOf, OutcomeAgrees
<1>4. CASE CancelHandler(j)
  <2>1. /\ phase[j] = "handling" /\ phase'[j] = "stopping" /\ status'[j] = "cancelled"
        /\ saved' = saved \/ stage[j] = "finished"
    BY <1>4 DEF CancelHandler, TypeOK
  <2>2. OutcomeOf(j)'
    BY <1>1, <2>1 DEF OutcomeOf
  <2>3. j \in saved' => ran[j] = NActions /\ "run_finished" \in EventSet(j)
    <3>1. CASE saved' = saved
      BY <3>1 DEF OutcomeAgrees
    <3>2. CASE stage[j] = "finished"
      <4>1. LastEvent(j) = "run_finished" /\ ran[j] = NActions /\ "run_finished" \in RunEvent
        BY <2>1, <3>2 DEF OutcomeOf, RunEvent
      <4> QED
        BY <4>1, LastIsPublished
    <3> QED
      BY <2>1, <3>1, <3>2
  <2> QED
    BY <1>1, <2>1, <2>2, <2>3 DEF OutcomeAgrees
<1> QED
  BY <1>2, <1>3, <1>4

\* The outcomes stay in order at every step.
LEMMA OutcomeStep ==
    ASSUME PoolInv, OutcomeInv, [Next]_vars
    PROVE  OutcomeInv'
<1> USE DEF Resumes, Delivered, semVars, runVars
<1>0. /\ TypeOK /\ SemInv /\ StatusOK
      /\ cancelling # {} => pool \in {"cancelling", "closed"}
      /\ \A j \in Job : OutcomeOf(j) /\ OutcomeAgrees(j)
  BY DEF PoolInv, SemInv, OutcomeInv, OutcomeConsistent
<1>1. /\ cancelling' # {} => pool' \in {"cancelling", "closed"}
      /\ pool' \in {"open", "draining"} => pool \in {"open", "draining"}
  <2>1. CASE pool' = pool /\ cancelling' \subseteq cancelling
    BY <1>0, <2>1
  <2>2. CASE Close \/ GraceExpires \/ CloseReturns
    BY <1>0, <2>2 DEF Close, GraceExpires, CloseReturns, TypeOK
  <2>3. ASSUME NEW c \in Client, RequestStep(c)
        PROVE  pool' = pool /\ cancelling' = cancelling
    BY <2>3 DEF RequestStep, Admit, UnknownRecording, EnqueueRefused, EnqueueJob
  <2>4. ASSUME NEW j \in Job, TaskStep(j) \/ Cancel(j)
        PROVE  pool' = pool /\ cancelling' \subseteq cancelling
    BY <2>4 DEF TaskStep, Cancel, StartNow, StartWaiting, ResumeGranted, RecordingMissing,
       RecordingFound, RunStarted, ExecuteOne, RunFinished, SaveResult, HandlerReturns,
       HandlerRaises, ReportDone, CancelUnstarted, CancelGranted, CancelHandler,
       CancelReport, Advance
  <2>5. CASE UNCHANGED vars
    BY <2>1, <2>5 DEF vars
  <2> QED
    BY <2>1, <2>2, <2>3, <2>4, <2>5 DEF Next
<1> SUFFICES \A k \in Job : OutcomeOf(k)' /\ OutcomeAgrees(k)'
  BY <1>1 DEF OutcomeInv, OutcomeConsistent
<1>2. ASSUME NEW k \in Job, Untouched(k)
      PROVE  OutcomeOf(k)' /\ OutcomeAgrees(k)'
  BY <1>0, <1>1, <1>2, UntouchedKeeps
<1>3. ASSUME NEW j \in Job,
             OutcomeOf(j)' /\ OutcomeAgrees(j)',
             \A k \in Job \ {j} : Untouched(k)
      PROVE  \A k \in Job : OutcomeOf(k)' /\ OutcomeAgrees(k)'
  BY <1>2, <1>3
<1>4. ASSUME NEW j \in Job,
             \/ RecordingMissing(j) \/ RecordingFound(j) \/ RunStarted(j)
             \/ ExecuteOne(j) \/ RunFinished(j) \/ SaveResult(j)
      PROVE  \A k \in Job : OutcomeOf(k)' /\ OutcomeAgrees(k)'
  <2>1. OutcomeOf(j)' /\ OutcomeAgrees(j)'
    BY <1>0, <1>4, HandlerOutcome
  <2>2. ASSUME NEW k \in Job \ {j}
        PROVE  Untouched(k)
    BY <1>0, <1>4 DEF Untouched, TypeOK, Emit, Advance, RecordingMissing, RecordingFound,
       RunStarted, ExecuteOne, RunFinished, SaveResult
  <2> QED
    BY <1>3, <2>1, <2>2
<1>5. ASSUME NEW j \in Job, NEW p \in {"done", "handling"}, NEW n \in 0..Len(waiters),
             MoveAndWake(j, p, n), phase[j] # "waiting"
      PROVE  /\ phase'[j] = p
             /\ \A k \in Job \ {j} : \/ phase'[k] = phase[k]
                                     \/ phase[k] = "waiting" /\ phase'[k] = "granted"
  <2>1. p \in Phase \ {"waiting"}
    BY DEF Phase
  <2> QED
    BY <1>0, <1>5, <2>1, MoveAndWakeEffect DEF SemInv
<1>6. ASSUME NEW j \in Job,
             \/ HandlerReturns(j) \/ ReportDone(j) \/ CancelReport(j)
             \/ CancelGranted(j) \/ ResumeGranted(j)
      PROVE  \A k \in Job : OutcomeOf(k)' /\ OutcomeAgrees(k)'
  <2>1. PICK p \in {"done", "handling"}, n \in 0..Len(waiters) :
            MoveAndWake(j, p, n) /\ (p = "handling" <=> ResumeGranted(j))
    <3>1. Len(waiters) \in Nat /\ permits \in Nat
      BY <1>0, LenProperties DEF TypeOK
    <3>2. \A v \in Nat : SmallerOf(v, Len(waiters)) \in 0..Len(waiters)
      BY <3>1 DEF SmallerOf
    <3>3. CASE HandlerReturns(j) \/ ReportDone(j) \/ CancelReport(j)
      <4>1. MoveAndWake(j, "done", SmallerOf(1, Len(waiters))) /\ ~ResumeGranted(j)
        BY <3>3 DEF HandlerReturns, ReportDone, CancelReport, Release, ResumeGranted
      <4> QED
        BY <3>2, <4>1
    <3>4. CASE CancelGranted(j)
      <4>1. /\ MoveAndWake(j, "done", SmallerOf(permits + 1, Len(waiters)))
            /\ ~ResumeGranted(j)
        BY <3>4 DEF CancelGranted, LeaveAcquire, ResumeGranted
      <4> QED
        BY <3>1, <3>2, <4>1
    <3>5. CASE ResumeGranted(j)
      <4>1. MoveAndWake(j, "handling", SmallerOf(permits, Len(waiters)))
        BY <3>5 DEF ResumeGranted, LeaveAcquire
      <4> QED
        BY <3>1, <3>2, <3>5, <4>1
    <3> QED
      BY <1>6, <3>3, <3>4, <3>5
  <2>2. phase[j] # "waiting"
    BY <1>6 DEF HandlerReturns, ReportDone, CancelReport, CancelGranted, ResumeGranted
  <2>3. /\ phase'[j] = p
        /\ \A k \in Job \ {j} : \/ phase'[k] = phase[k]
                                \/ phase[k] = "waiting" /\ phase'[k] = "granted"
    BY <1>5, <2>1, <2>2
  <2>4. ASSUME NEW k \in Job \ {j}
        PROVE  Untouched(k)
    <3>1. /\ status'[k] = status[k] /\ stage' = stage /\ ran' = ran
          /\ events'[k] = events[k] /\ saved' = saved
      BY <1>0, <1>6 DEF TypeOK, Emit, HandlerReturns, ReportDone, CancelReport,
         CancelGranted, ResumeGranted
    <3> QED
      BY <2>3, <3>1 DEF Untouched
  <2>5. OutcomeOf(j)' /\ OutcomeAgrees(j)'
    <3>1. CASE ResumeGranted(j)
      BY <1>0, <2>1, <2>3, <3>1, MovedOutcome
    <3>2. CASE ~ResumeGranted(j)
      BY <1>0, <1>6, <2>1, <2>3, <3>2, EndOutcome
    <3> QED
      BY <3>1, <3>2
  <2> QED
    BY <1>3, <2>4, <2>5
<1>7. ASSUME NEW j \in Job,
             \/ \E c \in Client : EnqueueJob(c, j)
             \/ StartNow(j) \/ StartWaiting(j) \/ HandlerRaises(j)
             \/ CancelHandler(j) \/ CancelUnstarted(j)
      PROVE  \A k \in Job : OutcomeOf(k)' /\ OutcomeAgrees(k)'
  <2>1. ASSUME NEW k \in Job \ {j}
        PROVE  Untouched(k)
    BY <1>0, <1>7 DEF Untouched, TypeOK, EnqueueJob, StartNow, StartWaiting, HandlerRaises,
       CancelHandler, CancelUnstarted
  <2>2. CancelUnstarted(j) => phase'[j] = "done"
    BY <1>0 DEF CancelUnstarted, TypeOK
  <2>3. OutcomeOf(j)' /\ OutcomeAgrees(j)'
    BY <1>0, <1>7, <2>2, MovedOutcome, EndOutcome
  <2> QED
    BY <1>3, <2>1, <2>3
<1>8. ASSUME \/ Close \/ GraceExpires \/ CloseReturns \/ UNCHANGED vars
             \/ \E j \in Job : Cancel(j)
             \/ \E c \in Client : Admit(c) \/ UnknownRecording(c)
                                    \/ EnqueueRefused(c)
      PROVE  \A k \in Job : OutcomeOf(k)' /\ OutcomeAgrees(k)'
  <2>1. ASSUME NEW k \in Job
        PROVE  Untouched(k)
    BY <1>0, <1>8 DEF Untouched, Close, GraceExpires, CloseReturns, vars, Cancel, Admit,
       UnknownRecording, EnqueueRefused
  <2> QED
    BY <1>2, <2>1
<1> QED
  BY <1>4, <1>6, <1>7, <1>8 DEF Next, TaskStep, RequestStep

\* Status, last event and stored run of every job agree once its task is over,
\* however it ended, and a run is stored only after it was finished and announced.
THEOREM OutcomesAreConsistent == Spec => []OutcomeConsistent
<1>1. Init => OutcomeInv
  BY DEF Init, OutcomeInv, OutcomeConsistent, OutcomeOf, OutcomeAgrees
<1>2. PoolInv /\ OutcomeInv /\ [Next]_vars => OutcomeInv'
  BY OutcomeStep
<1>3. OutcomeInv => OutcomeConsistent
  BY DEF OutcomeInv
<1> QED
  BY <1>1, <1>2, <1>3, PoolInvariant, PTL DEF Spec
-----------------------------------------------------------------------------
(* Refinement. *)

\* A task that is about to run its handler finds a place among those that run.
LEMMA RoomToStart ==
    ASSUME PoolInv, NEW j \in Job, StartNow(j) \/ ResumeGranted(j)
    PROVE  Cardinality(Life!Running) < Limit
<1> DEFINE R == Life!Running
<1>1. TypeOK /\ StatusOK /\ PermitsConserved
  BY DEF PoolInv
<1>2. R \subseteq Holders
  BY <1>1 DEF StatusOK, Holders, Holding, Life!Running
<1>3. /\ IsFiniteSet(Holders) /\ Cardinality(Holders) \in Nat
      /\ permits \in Nat /\ Limit \in Nat
  BY <1>1, HoldersCount, JobPoolAssumption DEF TypeOK
<1>4. CASE StartNow(j)
  <2>1. permits > 0
    BY <1>3, <1>4 DEF StartNow, Locked
  <2>2. Cardinality(R) <= Cardinality(Holders) /\ Cardinality(R) \in Nat
    BY <1>2, <1>3, FS_Subset, FS_CardinalityType
  <2> QED
    BY <1>1, <1>3, <2>1, <2>2 DEF PermitsConserved
<1>5. CASE ResumeGranted(j)
  <2>1. phase[j] = "granted"
    BY <1>5 DEF ResumeGranted, Resumes
  <2>2. j \in Holders /\ R \subseteq Holders \ {j}
    BY <1>1, <1>2, <2>1 DEF Holders, Holding, StatusOK, Life!Running
  <2>3. /\ IsFiniteSet(Holders \ {j})
        /\ Cardinality(Holders \ {j}) = Cardinality(Holders) - 1
    BY <1>3, <2>2, FS_RemoveElement
  <2>4. Cardinality(R) <= Cardinality(Holders \ {j}) /\ Cardinality(R) \in Nat
    BY <2>2, <2>3, FS_Subset, FS_CardinalityType
  <2> QED
    BY <1>1, <1>3, <2>3, <2>4 DEF PermitsConserved
<1> QED
  BY <1>4, <1>5

\* While a handler runs, close() has not returned.
LEMMA RunningNeedsOpen ==
    ASSUME PoolInv, NEW j \in Job, phase[j] \notin {"none", "done"}
    PROVE  Gate # "closed"
BY DEF PoolInv, ClosedOK, Live, Gate, TypeOK

\* The pool implements JobLife: each of its steps, seen through the status of
\* the jobs and the gate, is a step of JobLife or none.
THEOREM PoolImplementsJobLife == Spec => ImplementsJobLife
<1> USE DEF Resumes, Delivered, semVars, runVars
<1>1. Init => Life!Init
  BY DEF Init, Life!Init, Gate
<1>2. ASSUME PoolInv, [Next]_vars
      PROVE  [Life!Next]_(Life!vars)
  <2>0. /\ TypeOK /\ StatusOK
        /\ status \in [Job -> Status] /\ pool \in {"open", "draining", "cancelling", "closed"}
    BY <1>2 DEF PoolInv, TypeOK
  <2>1. CASE UNCHANGED <<status, pool>>
    BY <2>1 DEF Life!vars, Gate
  <2>2. ASSUME NEW j \in Job, NEW c \in Client, EnqueueJob(c, j)
        PROVE  Life!Submit(j)
    BY <2>0, <2>2 DEF EnqueueJob, Life!Submit, Gate, StatusOK
  <2>3. ASSUME NEW j \in Job, StartNow(j) \/ ResumeGranted(j)
        PROVE  Life!Start(j)
    <3>1. phase[j] \in {"created", "granted"}
      BY <2>3 DEF StartNow, ResumeGranted
    <3>2. Gate # "closed" /\ status[j] = "queued"
      BY <1>2, <2>0, <3>1, RunningNeedsOpen DEF StatusOK
    <3>3. Cardinality(Life!Running) < Limit
      BY <1>2, <2>3, RoomToStart
    <3>4. status' = [status EXCEPT ![j] = "in_progress"] /\ pool' = pool
      BY <2>3 DEF StartNow, ResumeGranted
    <3>5. Life!Cardinality(Life!Running) = Cardinality(Life!Running)
      BY DEF Cardinality, Life!Cardinality
    <3> QED
      BY <3>2, <3>3, <3>4, <3>5 DEF Life!Start, Gate
  <2>4. ASSUME NEW j \in Job, HandlerReturns(j) \/ HandlerRaises(j) \/ CancelHandler(j)
        PROVE  \E outcome \in {"complete", "failed", "cancelled"} : Life!End(j, outcome)
    <3>1. /\ phase[j] = "handling"
          /\ pool' = pool
          /\ \E outcome \in {"complete", "failed", "cancelled"} :
                status' = [status EXCEPT ![j] = outcome]
      BY <2>4 DEF HandlerReturns, HandlerRaises, CancelHandler
    <3>2. Gate # "closed" /\ status[j] = "in_progress"
      BY <1>2, <2>0, <3>1, RunningNeedsOpen DEF StatusOK
    <3> QED
      BY <3>1, <3>2 DEF Life!End, Gate
  <2>5. CASE Close \/ GraceExpires \/ CloseReturns
    <3>1. Live = {} => Life!Running = {}
      BY <2>0 DEF Live, Life!Running, StatusOK
    <3> QED
      BY <2>0, <2>5, <3>1 DEF Close, GraceExpires, CloseReturns, Life!Next, Life!Seal, Life!Shut,
                              Life!vars, Gate
  <2>6. ASSUME NEW j \in Job,
               \/ StartWaiting(j) \/ RecordingMissing(j) \/ RecordingFound(j) \/ RunStarted(j)
               \/ ExecuteOne(j) \/ RunFinished(j) \/ SaveResult(j) \/ ReportDone(j)
               \/ CancelUnstarted(j) \/ CancelGranted(j) \/ CancelReport(j) \/ Cancel(j)
        PROVE  UNCHANGED <<status, pool>>
    BY <2>6 DEF StartWaiting, RecordingMissing, RecordingFound, RunStarted, ExecuteOne,
       RunFinished, SaveResult, ReportDone, CancelUnstarted, CancelGranted, CancelReport,
       Cancel, Advance
  <2>7. ASSUME NEW c \in Client,
               Admit(c) \/ UnknownRecording(c) \/ EnqueueRefused(c)
        PROVE  UNCHANGED <<status, pool>>
    BY <2>7 DEF Admit, UnknownRecording, EnqueueRefused
  <2>8. CASE UNCHANGED vars
    BY <2>8, <2>1 DEF vars
  <2> QED
    BY <1>2, <2>1, <2>2, <2>3, <2>4, <2>5, <2>6, <2>7, <2>8
       DEF Next, TaskStep, RequestStep, Life!Next
<1> QED
  BY <1>1, <1>2, PoolInvariant, PTL DEF Spec, ImplementsJobLife, Life!Spec
=============================================================================
