--------------------------- MODULE WsManagerProofs ---------------------------
(***************************************************************************)
(* Theorems about WsManager, for every finite set of connections and every  *)
(* set of runs.                                                             *)
(***************************************************************************)
EXTENDS WsManager, FiniteSetTheorems, SequenceTheorems, TLAPS

Task == Conn \union {Closer}

-----------------------------------------------------------------------------
(* The lock. *)

\* Queueing for the lock keeps its queue right; behind close() only a connection
\* that leaves may queue.
LEMMA LockRequested ==
    ASSUME TypeOK, LockOK,
           NEW t \in Task, ~Wants(t), Request(t), Wants(t)',
           \A u \in Task \ {t} : Wants(u)' <=> Wants(u),
           \A c \in Conn \ {t} : pc'[c] = pc[c],
           t \in Conn => pc'[t] \in {"acquiring", "leaving"},
           pc'[t] = "leaving" \/ \A i \in 1..Len(lock) : lock[i] # Closer
    PROVE  LockOK' /\ lock' \in Seq(Task)
<1>1. /\ lock \in Seq(Task) /\ Len(lock) \in Nat
      /\ \A i \in 1..Len(lock) : lock[i] \in Task
  BY LenProperties DEF TypeOK, Task
<1>2. /\ lock' \in Seq(Task) /\ Len(lock') = Len(lock) + 1
      /\ \A i \in 1..Len(lock) : lock'[i] = lock[i]
      /\ lock'[Len(lock) + 1] = t
  BY <1>1, AppendProperties DEF Request
<1>3. \A i \in 1..Len(lock') : i \in 1..Len(lock) \/ i = Len(lock) + 1
  BY <1>1, <1>2
<1>4. \A i \in 1..Len(lock) : lock[i] # t
  BY DEF LockOK
<1>5. ASSUME NEW i \in 1..Len(lock')
      PROVE  \E u \in Task : lock'[i] = u /\ Wants(u)'
  <2>1. CASE i \in 1..Len(lock)
    BY <1>1, <1>2, <1>4, <2>1 DEF LockOK
  <2>2. CASE i = Len(lock) + 1
    BY <1>2, <2>2
  <2> QED
    BY <1>3, <2>1, <2>2
<1>6. \A u \in Task : Wants(u)' => \E i \in 1..Len(lock') : lock'[i] = u
  <2> SUFFICES ASSUME NEW u \in Task, Wants(u)'
               PROVE  \E i \in 1..Len(lock') : lock'[i] = u
    OBVIOUS
  <2>1. CASE u = t
    BY <1>1, <1>2, <2>1
  <2>2. CASE u # t
    <3>1. PICK i \in 1..Len(lock) : lock[i] = u
      BY <2>2 DEF LockOK, Task
    <3> QED
      BY <1>1, <1>2, <3>1
  <2> QED
    BY <2>1, <2>2
<1>7. \A i, k \in 1..Len(lock') : lock'[i] = lock'[k] => i = k
  BY <1>2, <1>3, <1>4 DEF LockOK
<1>8. \A i, k \in 1..Len(lock') : lock'[i] = Closer /\ i < k => pc'[lock'[k]] = "leaving"
  <2> SUFFICES ASSUME NEW i \in 1..Len(lock'), NEW k \in 1..Len(lock'),
                      lock'[i] = Closer, i < k
               PROVE  pc'[lock'[k]] = "leaving"
    OBVIOUS
  <2>1. i \in 1..Len(lock) /\ lock[i] = Closer
    BY <1>1, <1>2, <1>3
  <2>2. CASE k \in 1..Len(lock)
    <3>1. pc[lock[k]] = "leaving" /\ lock[k] # Closer
      BY <2>1, <2>2 DEF LockOK
    <3> QED
      BY <1>1, <1>2, <1>4, <2>2, <3>1 DEF Task
  <2>3. CASE k = Len(lock) + 1
    BY <1>2, <2>1, <2>3
  <2> QED
    BY <1>3, <2>2, <2>3
<1>9. \A c \in Conn : pc'[c] = "subscribing" => lock'[1] = c
  <2> SUFFICES ASSUME NEW c \in Conn, pc'[c] = "subscribing"
               PROVE  lock'[1] = c
    OBVIOUS
  <2>1. pc[c] = "subscribing"
    OBVIOUS
  <2>2. Wants(c)
    BY <2>1, WsManagerAssumption DEF Wants
  <2>3. Len(lock) > 0 /\ lock[1] = c
    BY <1>1, <2>1, <2>2 DEF LockOK
  <2> QED
    BY <1>1, <1>2, <2>3
<1> QED
  BY <1>2, <1>5, <1>6, <1>7, <1>8, <1>9 DEF LockOK, Task

\* Releasing the lock hands it to the next in the queue.
LEMMA LockReleased ==
    ASSUME TypeOK, LockOK,
           NEW t \in Task, Holds(t), Unlock, ~Wants(t)',
           \A u \in Task \ {t} : Wants(u)' <=> Wants(u),
           \A c \in Conn \ {t} : pc'[c] = pc[c]
    PROVE  LockOK' /\ lock' \in Seq(Task)
<1>1. /\ lock \in Seq(Task) /\ Len(lock) \in Nat
      /\ \A i \in 1..Len(lock) : lock[i] \in Task
  BY LenProperties DEF TypeOK, Task
<1>2. /\ lock' \in Seq(Task) /\ Len(lock') = Len(lock) - 1 /\ Len(lock) > 0
      /\ \A i \in 1..Len(lock') : lock'[i] = lock[i + 1]
  BY <1>1, HeadTailProperties, EmptySeq DEF Unlock, Holds
<1>3. lock[1] = t
  BY <1>1 DEF Holds
<1>4. \A i \in 1..Len(lock') : /\ i + 1 \in 1..Len(lock)
                               /\ lock[i + 1] # t
  BY <1>1, <1>2, <1>3 DEF LockOK
<1>5. ASSUME NEW i \in 1..Len(lock')
      PROVE  \E u \in Task : lock'[i] = u /\ Wants(u)'
  BY <1>1, <1>2, <1>4 DEF LockOK
<1>6. \A u \in Task : Wants(u)' => \E i \in 1..Len(lock') : lock'[i] = u
  <2> SUFFICES ASSUME NEW u \in Task, Wants(u)'
               PROVE  \E i \in 1..Len(lock') : lock'[i] = u
    OBVIOUS
  <2>1. PICK i \in 1..Len(lock) : lock[i] = u
    BY DEF LockOK, Task
  <2>2. i - 1 \in 1..Len(lock') /\ (i - 1) + 1 = i
    BY <1>1, <1>2, <1>3, <2>1
  <2> QED
    BY <1>2, <2>1, <2>2
<1>7. \A i, k \in 1..Len(lock') : lock'[i] = lock'[k] => i = k
  BY <1>1, <1>2, <1>4 DEF LockOK
<1>8. \A i, k \in 1..Len(lock') : lock'[i] = Closer /\ i < k => pc'[lock'[k]] = "leaving"
  <2> SUFFICES ASSUME NEW i \in 1..Len(lock'), NEW k \in 1..Len(lock'),
                      lock'[i] = Closer, i < k
               PROVE  pc'[lock'[k]] = "leaving"
    OBVIOUS
  <2>1. lock[i + 1] = Closer /\ lock'[k] = lock[k + 1] /\ i + 1 < k + 1
    BY <1>1, <1>2
  <2>2. pc[lock[k + 1]] = "leaving" /\ lock[k + 1] # Closer
    BY <1>4, <2>1 DEF LockOK
  <2> QED
    BY <1>1, <1>4, <2>1, <2>2 DEF Task
<1>9. \A c \in Conn : pc'[c] # "subscribing"
  <2> SUFFICES ASSUME NEW c \in Conn, pc'[c] = "subscribing"
               PROVE  FALSE
    OBVIOUS
  <2>1. c # t
    BY WsManagerAssumption DEF Wants
  <2> QED
    BY <1>3, <2>1 DEF LockOK
<1> QED
  BY <1>2, <1>5, <1>6, <1>7, <1>8, <1>9 DEF LockOK, Task

\* What nobody asks for or gives back stays as it is.
LEMMA LockUntouched ==
    ASSUME TypeOK, LockOK, lock' = lock,
           \A u \in Task : Wants(u)' <=> Wants(u),
           \A c \in Conn : pc[c] = "leaving" => pc'[c] = "leaving",
           \A c \in Conn : pc'[c] = "subscribing" => pc[c] = "subscribing" \/ Holds(c)
    PROVE  LockOK' /\ lock' \in Seq(Task)
<1>1. /\ lock \in Seq(Task) /\ Len(lock) \in Nat
      /\ \A i \in 1..Len(lock) : lock[i] \in Task
  BY LenProperties DEF TypeOK, Task
<1>2. \A i, k \in 1..Len(lock) : lock[i] = Closer /\ i < k => pc'[lock[k]] = "leaving"
  BY <1>1 DEF LockOK, Task
<1>3. \A c \in Conn : pc'[c] = "subscribing" => lock[1] = c
  BY <1>1 DEF LockOK, Holds
<1>4. ASSUME NEW i \in 1..Len(lock')
      PROVE  \E u \in Task : lock'[i] = u /\ Wants(u)'
  BY <1>1 DEF LockOK
<1>5. \A u \in Task : Wants(u)' => \E i \in 1..Len(lock) : lock[i] = u
  BY DEF LockOK, Task
<1> QED
  BY <1>1, <1>2, <1>3, <1>4, <1>5 DEF LockOK, Task

\* Every step keeps the queue of the lock right.
LEMMA LockStep ==
    ASSUME WsInv, Next
    PROVE  LockOK' /\ lock' \in Seq(Task)
<1> USE WsManagerAssumption DEF closeVars, chanVars, Goto, Wants, Task
<1>0. /\ TypeOK /\ LockOK /\ CloserOK
      /\ pc \in [Conn -> PC]
  BY DEF WsInv, TypeOK
<1>1. ASSUME NEW c \in Conn, Connect(c)
      PROVE  LockOK' /\ lock' \in Seq(Task)
  <2>1. \A i \in 1..Len(lock) : lock[i] # Closer
    BY <1>0, <1>1 DEF Connect, CloserOK, LockOK
  <2> QED
    BY <1>0, <1>1, <2>1, LockRequested DEF Connect
<1>2. ASSUME NEW c \in Conn, Leave(c)
      PROVE  LockOK' /\ lock' \in Seq(Task)
  BY <1>0, <1>2, LockRequested DEF Leave
<1>3. ASSUME NEW c \in Conn, Reject(c) \/ Disconnect(c) \/ OpenChannel(c) \/ TearDown(c) \/ ReaderEnds(c)
      PROVE  LockOK' /\ lock' \in Seq(Task)
  BY <1>0, <1>3, LockUntouched DEF Reject, Disconnect, OpenChannel, TearDown, ReaderEnds
<1>4. ASSUME NEW c \in Conn,
             Join(c) \/ ChannelOpened(c) \/ OpenFails(c) \/ ReleaseShared(c) \/ ReleaseLast(c)
      PROVE  LockOK' /\ lock' \in Seq(Task)
  <2>1. Holds(c) /\ Unlock
    <3>1. pc[c] = "subscribing" => Holds(c)
      <4> SUFFICES ASSUME pc[c] = "subscribing" PROVE Holds(c)
        OBVIOUS
      <4>1. lock[1] = c /\ \E i \in 1..Len(lock) : lock[i] = c
        BY <1>0 DEF LockOK
      <4>2. lock \in Seq(Task) /\ lock # <<>>
        BY <1>0, <4>1, EmptySeq, LenProperties DEF TypeOK
      <4> QED
        BY <4>1, <4>2 DEF Holds
    <3> QED
      BY <1>4, <3>1 DEF Join, ChannelOpened, OpenFails, ReleaseShared, ReleaseLast, Detach
  <2> QED
    BY <1>0, <1>4, <2>1, LockReleased
    DEF Join, ChannelOpened, OpenFails, ReleaseShared, ReleaseLast, Detach
<1>5. ASSUME CloseCalled
      PROVE  LockOK' /\ lock' \in Seq(Task)
  <2>1. \A i \in 1..Len(lock) : lock[i] # Closer
    BY <1>0, <1>5 DEF CloseCalled, CloserOK, LockOK
  <2> QED
    BY <1>0, <1>5, <2>1, LockRequested DEF CloseCalled, CloserOK
<1>6. ASSUME CloseSnapshot
      PROVE  LockOK' /\ lock' \in Seq(Task)
  BY <1>0, <1>6, LockReleased DEF CloseSnapshot
<1>7. ASSUME CloseDone \/ ChannelClosed \/ \E d \in Conn : CloseChannel(d)
      PROVE  LockOK' /\ lock' \in Seq(Task)
  BY <1>0, <1>7, LockUntouched DEF CloseDone, ChannelClosed, CloseChannel
<1> QED
  BY <1>1, <1>2, <1>3, <1>4, <1>5, <1>6, <1>7 DEF Next, ConnStep, CloseStep

-----------------------------------------------------------------------------
(* Reference counts. *)

\* The channel of an attached connection counts it, and counts it alone only if
\* it is the only one.
LEMMA Counted ==
    ASSUME TypeOK, RefCountExact, NEW c \in Conn, pc[c] \in Attached, handle[c] \in Conn
    PROVE  /\ refs[handle[c]] \in Nat \ {0}
           /\ refs[handle[c]] <= 1 => Sharing(handle[c]) = {c}
<1> DEFINE S == Sharing(handle[c])
<1>1. IsFiniteSet(S) /\ c \in S /\ refs[handle[c]] = Cardinality(S)
  BY WsManagerAssumption, FS_Subset DEF Sharing, RefCountExact
<1>2. IsFiniteSet(S \ {c}) /\ Cardinality(S \ {c}) = Cardinality(S) - 1
  <2> HIDE DEF S
  <2> QED
    BY <1>1, FS_RemoveElement
<1>3. Cardinality(S) \in Nat /\ Cardinality(S \ {c}) \in Nat
  BY <1>1, <1>2, FS_CardinalityType
<1>4. Cardinality(S) <= 1 => S \ {c} = {}
  BY <1>2, <1>3, FS_EmptySet
<1> QED
  BY <1>1, <1>2, <1>3, <1>4

\* Types are preserved.
LEMMA TypeStep ==
    ASSUME WsInv, Next
    PROVE  TypeOK'
<1> USE DEF closeVars, chanVars, Goto, PC
<1>0. TypeOK /\ lock' \in Seq(Conn \union {Closer})
  BY LockStep DEF WsInv, Task
<1>1. ASSUME NEW c \in Conn,
             Connect(c) \/ Reject(c) \/ Disconnect(c) \/ OpenChannel(c) \/ OpenFails(c) \/ Leave(c)
      PROVE  TypeOK'
  <2>1. UNCHANGED <<closed, closer, draining, closing, channels, members, refs, reader, pubsub,
                    run, handle>>
    BY <1>1 DEF Connect, Reject, Disconnect, OpenChannel, OpenFails, Leave
  <2>2. pc' \in [Conn -> PC]
    <3>1. \/ pc' = pc
          \/ \E p \in {"rejected", "acquiring", "subscribing", "failed", "leaving"} :
                pc' = [pc EXCEPT ![c] = p]
      BY <1>1 DEF Connect, Reject, Disconnect, OpenChannel, OpenFails, Leave
    <3> QED
      BY <1>0, <3>1 DEF TypeOK
  <2>3. shutdown' = shutdown \/ shutdown' = shutdown \union {c}
    BY <1>1 DEF Connect, Reject, Disconnect, OpenChannel, OpenFails, Leave
  <2>4. shutdown' \in SUBSET Conn
    BY <1>0, <2>3 DEF TypeOK
  <2> QED
    BY <1>0, <2>1, <2>2, <2>4 DEF TypeOK
<1>2. ASSUME NEW c \in Conn, Join(c)
      PROVE  TypeOK'
  BY <1>0, <1>2 DEF TypeOK, Join
<1>3. ASSUME NEW c \in Conn, ChannelOpened(c)
      PROVE  TypeOK'
  BY <1>0, <1>3 DEF TypeOK, ChannelOpened
<1>4. ASSUME NEW c \in Conn, ReleaseShared(c) \/ ReleaseLast(c)
      PROVE  TypeOK'
  <2>0. Detach(c)
    BY <1>4 DEF ReleaseShared, ReleaseLast
  <2>1. refs[handle[c]] - 1 \in Nat /\ handle[c] \in Conn
    BY <2>0, Counted DEF WsInv, UserOK, Detach, Attached
  <2>2. refs' \in [Conn -> Nat] /\ members' \in [Conn -> SUBSET Conn]
    BY <1>0, <2>0, <2>1 DEF TypeOK, Detach
  <2>3. /\ channels' \in [Run -> Conn \union {None}] /\ pc' \in [Conn -> PC]
        /\ reader' \in [Conn -> {"none", "running", "cancelled", "ended"}]
    <3>1. CASE ReleaseShared(c)
      BY <1>0, <3>1 DEF TypeOK, ReleaseShared
    <3>2. CASE ReleaseLast(c)
      BY <1>0, <3>2 DEF TypeOK, ReleaseLast
    <3> QED
      BY <1>4, <3>1, <3>2
  <2> QED
    BY <1>0, <2>0, <2>2, <2>3 DEF TypeOK, Detach
<1>5. ASSUME NEW c \in Conn, TearDown(c) \/ ReaderEnds(c)
      PROVE  TypeOK'
  BY <1>0, <1>5 DEF TypeOK, TearDown, ReaderEnds
<1>6. ASSUME CloseCalled \/ CloseDone \/ ChannelClosed
      PROVE  TypeOK'
  BY <1>0, <1>6 DEF TypeOK, CloseCalled, CloseDone, ChannelClosed
<1>8. ASSUME CloseSnapshot
      PROVE  TypeOK'
  <2>1. draining' \in SUBSET Conn
    BY <1>0, <1>8 DEF TypeOK, CloseSnapshot
  <2>2. channels' \in [Run -> Conn \union {None}]
    BY <1>8 DEF CloseSnapshot
  <2> QED
    BY <1>0, <1>8, <2>1, <2>2 DEF TypeOK, CloseSnapshot
<1>7. ASSUME NEW d \in Conn, CloseChannel(d)
      PROVE  TypeOK'
  BY <1>0, <1>7 DEF TypeOK, CloseChannel
<1> QED
  BY <1>1, <1>2, <1>3, <1>4, <1>5, <1>6, <1>7, <1>8 DEF Next, ConnStep, CloseStep

\* The counts stay exact: a connection joins, opens or leaves a channel in the
\* same step in which it is entered in, or struck off, the channel's list.
LEMMA RefStep ==
    ASSUME WsInv, Next
    PROVE  RefCountExact'
<1> USE WsManagerAssumption DEF closeVars, chanVars, Goto, Attached, Unopened
<1>0. /\ TypeOK /\ RefCountExact /\ \A c \in Conn : UserOK(c) /\ ChannelOK(c)
      /\ OneChannelPerRun
      /\ \A d \in Conn : IsFiniteSet(Sharing(d))
  BY FS_Subset DEF WsInv, Sharing
<1>1. ASSUME members' = members, refs' = refs, handle' = handle,
             \A c \in Conn : pc'[c] \in Attached <=> pc[c] \in Attached
      PROVE  RefCountExact'
  <2>1. \A d \in Conn : Sharing(d)' = Sharing(d)
    BY <1>1 DEF Sharing
  <2> QED
    BY <1>0, <1>1, <2>1 DEF RefCountExact
<1>2. ASSUME NEW c \in Conn, Join(c)
      PROVE  RefCountExact'
  <2>1. PICK d \in Conn : d = channels[run[c]]
    BY <1>0, <1>2 DEF Join, TypeOK
  <2>2. c \notin Sharing(d) /\ Sharing(d)' = Sharing(d) \union {c}
    BY <1>0, <1>2, <2>1 DEF Join, Sharing, TypeOK
  <2>3. \A e \in Conn \ {d} : Sharing(e)' = Sharing(e)
    BY <1>0, <1>2, <2>1 DEF Join, Sharing, TypeOK
  <2>4. members'[d] = Sharing(d)' /\ refs'[d] = Cardinality(Sharing(d)')
    <3>1. members'[d] = members[d] \union {c} /\ refs'[d] = refs[d] + 1
      BY <1>0, <1>2, <2>1 DEF Join, TypeOK
    <3> QED
      <4>1. members[d] = Sharing(d) /\ refs[d] = Cardinality(Sharing(d)) /\ IsFiniteSet(Sharing(d))
        BY <1>0 DEF RefCountExact
      <4>2. Cardinality(Sharing(d) \union {c}) = Cardinality(Sharing(d)) + 1
        BY <2>2, <4>1, FS_AddElement
      <4> QED
        BY <2>2, <3>1, <4>1, <4>2
  <2>5. \A e \in Conn \ {d} : members'[e] = members[e] /\ refs'[e] = refs[e]
    BY <1>0, <1>2, <2>1 DEF Join, TypeOK
  <2> QED
    BY <1>0, <2>3, <2>4, <2>5 DEF RefCountExact
<1>3. ASSUME NEW c \in Conn, ChannelOpened(c)
      PROVE  RefCountExact'
  <2>1. \A e \in Conn : handle[e] # c
    BY <1>0, <1>3 DEF ChannelOpened, ChannelOK
  <2>2. Sharing(c)' = {c}
    BY <1>0, <1>3, <2>1 DEF ChannelOpened, Sharing, TypeOK
  <2>3. \A e \in Conn \ {c} : Sharing(e)' = Sharing(e)
    BY <1>0, <1>3 DEF ChannelOpened, Sharing, TypeOK
  <2>4. members'[c] = {c} /\ refs'[c] = 1
    BY <1>0, <1>3 DEF ChannelOpened, TypeOK
  <2>5. \A e \in Conn \ {c} : members'[e] = members[e] /\ refs'[e] = refs[e]
    BY <1>0, <1>3 DEF ChannelOpened, TypeOK
  <2>6. members'[c] = Sharing(c)' /\ refs'[c] = Cardinality(Sharing(c)')
    BY <2>2, <2>4, FS_Singleton
  <2>7. \A e \in Conn \ {c} : members'[e] = Sharing(e)' /\ refs'[e] = Cardinality(Sharing(e)')
    BY <1>0, <2>3, <2>5 DEF RefCountExact
  <2> QED
    BY <2>6, <2>7 DEF RefCountExact
<1>4. ASSUME NEW c \in Conn, ReleaseShared(c) \/ ReleaseLast(c)
      PROVE  RefCountExact'
  <2>0. Detach(c) /\ pc'[c] \notin Attached /\ \A e \in Conn \ {c} : pc'[e] = pc[e]
    BY <1>0, <1>4 DEF ReleaseShared, ReleaseLast, TypeOK
  <2>1. pc[c] \in Attached /\ handle[c] \in Conn
    BY <1>0, <2>0 DEF UserOK, Detach
  <2>6. PICK d \in Conn : d = handle[c]
    BY <2>1
  <2>2. c \in Sharing(d) /\ Sharing(d)' = Sharing(d) \ {c}
    BY <1>0, <2>0, <2>1, <2>6 DEF Detach, Sharing
  <2>3. \A e \in Conn \ {d} : Sharing(e)' = Sharing(e)
    BY <1>0, <2>0, <2>1, <2>6 DEF Detach, Sharing
  <2>4. members'[d] = Sharing(d)' /\ refs'[d] = Cardinality(Sharing(d)')
    <3>1. members'[d] = members[d] \ {c} /\ refs'[d] = refs[d] - 1
      BY <1>0, <2>0, <2>6 DEF Detach, TypeOK
    <3>2. members[d] = Sharing(d) /\ refs[d] = Cardinality(Sharing(d)) /\ IsFiniteSet(Sharing(d))
      BY <1>0 DEF RefCountExact
    <3>3. Cardinality(Sharing(d) \ {c}) = Cardinality(Sharing(d)) - 1
      BY <2>2, <3>2, FS_RemoveElement
    <3> QED
      BY <2>2, <3>1, <3>2, <3>3
  <2>5. \A e \in Conn \ {d} : members'[e] = members[e] /\ refs'[e] = refs[e]
    BY <1>0, <2>0, <2>6 DEF Detach, TypeOK
  <2> QED
    BY <1>0, <2>3, <2>4, <2>5 DEF RefCountExact
<1>5. ASSUME NEW c \in Conn,
             \/ Connect(c) \/ Reject(c) \/ Disconnect(c) \/ OpenChannel(c) \/ OpenFails(c)
             \/ Leave(c) \/ TearDown(c) \/ ReaderEnds(c)
      PROVE  RefCountExact'
  BY <1>0, <1>1, <1>5 DEF TypeOK, Connect, Reject, Disconnect, OpenChannel, OpenFails, Leave,
                          TearDown, ReaderEnds
<1>6. ASSUME CloseCalled \/ CloseSnapshot \/ CloseDone \/ ChannelClosed \/ \E d \in Conn : CloseChannel(d)
      PROVE  RefCountExact'
  BY <1>1, <1>6 DEF CloseCalled, CloseSnapshot, CloseDone, ChannelClosed, CloseChannel
<1> QED
  BY <1>2, <1>3, <1>4, <1>5, <1>6 DEF Next, ConnStep, CloseStep

-----------------------------------------------------------------------------
(* Shutdown. *)

\* The snapshot of close() finds no connection on its way to a channel, because
\* those were before it in the queue of the lock, and every channel in use in
\* _channels; from then on each turn of the loop tells all users of one of them.
LEMMA CloserStep ==
    ASSUME WsInv, Next
    PROVE  CloserOK'
<1> USE WsManagerAssumption DEF closeVars, chanVars, Goto
<1>0. /\ TypeOK /\ CloserOK /\ LockOK /\ \A c \in Conn : UserOK(c) /\ ChannelOK(c)
      /\ RefCountExact /\ OneChannelPerRun
  BY DEF WsInv
<1>1. ASSUME NEW c \in Conn,
             \/ Connect(c) \/ Reject(c) \/ Disconnect(c) \/ Join(c) \/ OpenChannel(c)
             \/ ChannelOpened(c) \/ OpenFails(c) \/ Leave(c)
      PROVE  CloserOK'
  <2>1. closed' = closed /\ closer' = closer /\ draining' = draining /\ closing' = closing
    BY <1>1 DEF Connect, Reject, Disconnect, Join, OpenChannel, ChannelOpened, OpenFails, Leave
  <2>2. CASE closer \in {"draining", "done"}
    <3>1. channels' = channels /\ handle' = handle /\ shutdown \subseteq shutdown'
      BY <1>0, <1>1, <2>2 DEF CloserOK, Connect, Reject, Disconnect, Join, OpenChannel,
                              ChannelOpened, OpenFails, Leave
    <3>2. \A x \in Conn : /\ pc'[x] \notin {"acquiring", "subscribing"}
                          /\ pc'[x] = "serving" => pc[x] = "serving"
      BY <1>0, <1>1, <2>2 DEF TypeOK, CloserOK, Connect, Reject, Disconnect, Join, OpenChannel,
                              ChannelOpened, OpenFails, Leave
    <3> QED
      BY <1>0, <2>1, <3>1, <3>2 DEF CloserOK
  <2> QED
    BY <1>0, <2>1, <2>2 DEF CloserOK
<1>2. ASSUME NEW c \in Conn, ReleaseShared(c) \/ ReleaseLast(c) \/ TearDown(c) \/ ReaderEnds(c)
      PROVE  CloserOK'
  <2>1. /\ closed' = closed /\ closer' = closer /\ draining' = draining /\ closing' = closing
        /\ handle' = handle /\ shutdown' = shutdown
    BY <1>2 DEF ReleaseShared, ReleaseLast, Detach, TearDown, ReaderEnds
  <2>2. \A r \in Run : channels[r] = None => channels'[r] = None
    BY <1>0, <1>2 DEF TypeOK, ReleaseShared, ReleaseLast, Detach, TearDown, ReaderEnds
  <2>3. \A x \in Conn : pc'[x] = pc[x] \/ pc'[x] \in {"gone", "tearing"}
    BY <1>0, <1>2 DEF TypeOK, ReleaseShared, ReleaseLast, Detach, TearDown, ReaderEnds
  <2> QED
    BY <1>0, <2>1, <2>2, <2>3 DEF CloserOK
<1>3. ASSUME CloseCalled
      PROVE  CloserOK'
  BY <1>0, <1>3 DEF CloserOK, CloseCalled
<1>4. ASSUME CloseSnapshot
      PROVE  CloserOK'
  <2>1. /\ closer = "locking" /\ closer' = "draining" /\ closed' = closed /\ closing' = closing
        /\ pc' = pc /\ handle' = handle /\ shutdown' = shutdown
        /\ \A r \in Run : channels'[r] = None
        /\ draining' = {channels[r] : r \in Run} \ {None}
    BY <1>4 DEF CloseSnapshot
  <2>2. lock # <<>> /\ lock[1] = Closer /\ Len(lock) \in Nat
    BY <1>0, <1>4, LenProperties DEF CloseSnapshot, Holds, TypeOK
  <2>3. ASSUME NEW c \in Conn, pc[c] \in {"acquiring", "subscribing"}
        PROVE  FALSE
    <3>1. PICK i \in 1..Len(lock) : lock[i] = c
      BY <1>0, <2>3 DEF LockOK, Wants
    <3>2. 1 < i /\ 1 \in 1..Len(lock)
      BY <2>2, <3>1
    <3> QED
      BY <1>0, <2>2, <2>3, <3>1, <3>2 DEF LockOK
  <2>4. ASSUME NEW c \in Conn, pc[c] = "serving"
        PROVE  handle[c] \in draining'
    BY <1>0, <2>1, <2>4 DEF UserOK, OneChannelPerRun, Attached, TypeOK
  <2> QED
    BY <1>0, <2>1, <2>3, <2>4 DEF CloserOK
<1>5. ASSUME NEW d \in Conn, CloseChannel(d)
      PROVE  CloserOK'
  <2>1. \A c \in Conn : pc[c] = "serving" => c \in shutdown' \/ handle[c] \in draining'
    BY <1>0, <1>5 DEF CloserOK, CloseChannel, RefCountExact, Sharing, Attached
  <2> QED
    BY <1>0, <1>5, <2>1 DEF CloserOK, CloseChannel
<1>6. ASSUME ChannelClosed \/ CloseDone
      PROVE  CloserOK'
  BY <1>0, <1>6 DEF CloserOK, ChannelClosed, CloseDone
<1> QED
  BY <1>1, <1>2, <1>3, <1>4, <1>5, <1>6 DEF Next, ConnStep, CloseStep

-----------------------------------------------------------------------------
(* Channels. *)

\* What is registered stays the channel that its run's connections share: only
\* the holder of the lock writes _channels, and the last one out of a channel
\* finds none but its own under its run.
LEMMA RegistryStep ==
    ASSUME WsInv, Next
    PROVE  OneChannelPerRun' /\ RegisteredOK'
<1> USE WsManagerAssumption DEF closeVars, chanVars, Goto, Attached, Unopened
<1>0. /\ TypeOK /\ CloserOK /\ RefCountExact /\ OneChannelPerRun /\ RegisteredOK
      /\ \A c \in Conn : UserOK(c) /\ ChannelOK(c)
      /\ CloserOK'
  BY CloserStep DEF WsInv
<1>1. ASSUME channels' = channels, run' = run, handle' = handle,
             closer' \in {"idle", "locking"} => closer \in {"idle", "locking"},
             \A c \in Conn : pc'[c] \in Attached => pc[c] \in Attached,
             \A r \in Run : channels[r] # None =>
                 /\ refs'[channels[r]] > 0
                 /\ pubsub'[channels[r]] = "open"
                 /\ reader'[channels[r]] # "cancelled"
      PROVE  OneChannelPerRun' /\ RegisteredOK'
  BY <1>0, <1>1 DEF OneChannelPerRun, RegisteredOK
<1>2. ASSUME NEW c \in Conn,
             \/ Connect(c) \/ Reject(c) \/ Disconnect(c) \/ OpenChannel(c) \/ OpenFails(c) \/ Leave(c)
      PROVE  OneChannelPerRun' /\ RegisteredOK'
  <2>1. /\ UNCHANGED <<chanVars, channels, run, handle, closer>>
        /\ \A x \in Conn : pc'[x] \in Attached => pc[x] \in Attached
    BY <1>0, <1>2 DEF TypeOK, Connect, Reject, Disconnect, OpenChannel, OpenFails, Leave
  <2>2. \A r \in Run : channels[r] # None =>
                 /\ refs'[channels[r]] > 0
                 /\ pubsub'[channels[r]] = "open"
                 /\ reader'[channels[r]] # "cancelled"
    BY <1>0, <2>1 DEF OneChannelPerRun
  <2> QED
    BY <1>1, <2>1, <2>2
<1>3. ASSUME NEW c \in Conn, Join(c)
      PROVE  OneChannelPerRun' /\ RegisteredOK'
  <2>1. PICK d \in Conn : d = channels[run[c]] /\ d # None
    BY <1>0, <1>3 DEF Join, TypeOK
  <2>2. /\ UNCHANGED <<channels, run, pubsub, reader, closer>>
        /\ \A e \in Conn : refs'[e] = IF e = d THEN refs[d] + 1 ELSE refs[e]
        /\ \A x \in Conn : handle'[x] = IF x = c THEN d ELSE handle[x]
        /\ \A x \in Conn \ {c} : pc'[x] = pc[x]
    BY <1>0, <1>3, <2>1 DEF Join, TypeOK
  <2>3. \A r \in Run : channels[r] # None => channels[r] \in Conn /\ refs[channels[r]] \in Nat
    BY <1>0 DEF TypeOK
  <2> QED
    BY <1>0, <2>1, <2>2, <2>3 DEF OneChannelPerRun, RegisteredOK
<1>4. ASSUME NEW c \in Conn, ChannelOpened(c)
      PROVE  OneChannelPerRun' /\ RegisteredOK'
  <2>1. /\ UNCHANGED <<run, closer>>
        /\ \A e \in Conn \ {c} : UNCHANGED <<refs[e], pubsub[e], reader[e], handle[e], pc[e]>>
        /\ refs'[c] = 1 /\ pubsub'[c] = "open" /\ reader'[c] = "running" /\ handle'[c] = c
    BY <1>0, <1>4 DEF ChannelOpened, TypeOK
  <2>2. /\ \A r \in Run \ {run[c]} : channels'[r] = channels[r]
        /\ channels'[run[c]] = c /\ run[c] \in Run
    BY <1>0, <1>4 DEF ChannelOpened, TypeOK
  <2>3. ASSUME closer \in {"idle", "locking"}, NEW x \in Conn \ {c}, pc[x] \in Attached
        PROVE  run[x] # run[c] /\ channels[run[x]] = handle[x]
    BY <1>0, <1>4, <2>3 DEF OneChannelPerRun, UserOK, ChannelOpened
  <2>4. \A x \in Conn : run[x] \in Run
    BY <1>0 DEF TypeOK
  <2>5. \A r \in Run : channels[r] # None => channels[r] \in Conn /\ channels[r] # c
    BY <1>0, <1>4 DEF OneChannelPerRun, ChannelOK, ChannelOpened, TypeOK
  <2>6. closer' \in {"idle", "locking"} =>
            \A x \in Conn : pc'[x] \in Attached => channels'[run'[x]] = handle'[x]
    BY <2>1, <2>2, <2>3, <2>4
  <2>7. \A r \in Run : channels'[r] # None =>
            /\ refs'[channels'[r]] > 0
            /\ pubsub'[channels'[r]] = "open"
            /\ reader'[channels'[r]] # "cancelled"
            /\ run'[channels'[r]] = r
    <3> SUFFICES ASSUME NEW r \in Run, channels'[r] # None
                 PROVE  /\ refs'[channels'[r]] > 0
                        /\ pubsub'[channels'[r]] = "open"
                        /\ reader'[channels'[r]] # "cancelled"
                        /\ run'[channels'[r]] = r
      OBVIOUS
    <3>1. CASE r = run[c]
      BY <2>1, <2>2, <3>1
    <3>2. CASE r # run[c]
      BY <1>0, <2>1, <2>2, <2>5, <3>2 DEF OneChannelPerRun, RegisteredOK
    <3> QED
      BY <3>1, <3>2
  <2> QED
    BY <2>6, <2>7 DEF OneChannelPerRun, RegisteredOK
<1>5. ASSUME NEW c \in Conn, ReleaseShared(c) \/ ReleaseLast(c)
      PROVE  OneChannelPerRun' /\ RegisteredOK'
  <2>0. Detach(c) /\ \A x \in Conn : pc'[x] \in Attached => pc[x] \in Attached /\ x # c
    BY <1>0, <1>5 DEF ReleaseShared, ReleaseLast, Detach, TypeOK
  <2>1. PICK d \in Conn : d = handle[c] /\ run[d] = run[c] /\ c \in Sharing(d)
    BY <1>0, <2>0 DEF UserOK, Detach, Sharing
  <2>2. /\ UNCHANGED <<run, handle, pubsub, closer>>
        /\ \A e \in Conn \ {d} : refs'[e] = refs[e]
        /\ refs'[d] = refs[d] - 1 /\ refs[d] \in Nat
    BY <1>0, <2>0, <2>1 DEF Detach, TypeOK
  <2>3. CASE ReleaseShared(c)
    <3>1. channels' = channels /\ reader' = reader /\ refs'[d] > 0
      BY <2>1, <2>2, <2>3 DEF ReleaseShared
    <3>2. \A r \in Run : channels[r] # None => channels[r] \in Conn
      BY <1>0 DEF TypeOK
    <3> QED
      BY <1>0, <1>1, <2>0, <2>2, <3>1, <3>2 DEF OneChannelPerRun
  <2>4. CASE ReleaseLast(c)
    <3>1. /\ channels' = [channels EXCEPT ![run[c]] = None]
          /\ \A e \in Conn \ {d} : reader'[e] = reader[e]
          /\ refs[d] <= 1
      BY <1>0, <2>1, <2>4 DEF ReleaseLast, TypeOK
    <3>2. Sharing(d) = {c}
      BY <1>0, <2>0, <2>1, <3>1, Counted DEF Detach
    <3>3. \A r \in Run : channels'[r] # None =>
              /\ channels'[r] = channels[r] /\ channels[r] \in Conn \ {d}
      <4> SUFFICES ASSUME NEW r \in Run, channels'[r] # None
                   PROVE  channels'[r] = channels[r] /\ channels[r] \in Conn \ {d}
        OBVIOUS
      <4>1. r # run[c] /\ channels'[r] = channels[r] /\ channels[r] \in Conn
        BY <1>0, <3>1 DEF TypeOK
      <4> QED
        BY <1>0, <2>1, <4>1 DEF RegisteredOK
    <3>4. closer' \in {"idle", "locking"} =>
              \A x \in Conn : pc'[x] \in Attached => channels'[run'[x]] = handle'[x]
      <4> SUFFICES ASSUME closer \in {"idle", "locking"}, NEW x \in Conn, pc'[x] \in Attached
                   PROVE  channels'[run[x]] = handle[x]
        BY <2>2
      <4>1. channels[run[x]] = handle[x] /\ handle[x] # d /\ run[x] \in Run
        BY <1>0, <2>0, <3>2 DEF OneChannelPerRun, Sharing, TypeOK
      <4>2. run[x] # run[c]
        BY <1>0, <2>0, <2>1, <4>1 DEF OneChannelPerRun, Detach
      <4> QED
        BY <1>0, <3>1, <4>1, <4>2 DEF TypeOK
    <3> QED
      BY <1>0, <2>2, <3>1, <3>3, <3>4 DEF OneChannelPerRun, RegisteredOK
  <2> QED
    BY <1>5, <2>3, <2>4
<1>6. ASSUME NEW c \in Conn, TearDown(c)
      PROVE  OneChannelPerRun' /\ RegisteredOK'
  <2>1. /\ UNCHANGED <<channels, run, handle, closer, refs, reader>>
        /\ \A x \in Conn : pc'[x] \in Attached => pc[x] \in Attached
    BY <1>0, <1>6 DEF TypeOK, TearDown
  <2>2. \A r \in Run : channels[r] # None =>
            channels[r] \in Conn /\ channels[r] # handle[c]
    BY <1>0, <1>6 DEF TypeOK, OneChannelPerRun, UserOK, TearDown
  <2>3. \A e \in Conn : e # handle[c] => pubsub'[e] = pubsub[e]
    BY <1>0, <1>6 DEF TypeOK, TearDown
  <2> QED
    BY <1>0, <1>1, <2>1, <2>2, <2>3 DEF OneChannelPerRun
<1>7. ASSUME NEW c \in Conn, ReaderEnds(c)
      PROVE  OneChannelPerRun' /\ RegisteredOK'
  <2>1. /\ UNCHANGED <<channels, run, handle, closer, refs, pubsub, pc>>
        /\ \A e \in Conn : reader'[e] = reader[e] \/ reader'[e] = "ended"
    BY <1>0, <1>7 DEF TypeOK, ReaderEnds
  <2>2. \A r \in Run : channels[r] # None => channels[r] \in Conn
    BY <1>0 DEF TypeOK
  <2> QED
    BY <1>0, <1>1, <2>1, <2>2 DEF OneChannelPerRun
<1>8. ASSUME CloseCalled
      PROVE  OneChannelPerRun' /\ RegisteredOK'
  BY <1>0, <1>1, <1>8 DEF CloseCalled, CloserOK, OneChannelPerRun, TypeOK
<1>9. ASSUME CloseSnapshot \/ ChannelClosed \/ CloseDone \/ \E d \in Conn : CloseChannel(d)
      PROVE  OneChannelPerRun' /\ RegisteredOK'
  <2>1. closer' \in {"draining", "done"}
    BY <1>0, <1>9 DEF CloseSnapshot, ChannelClosed, CloseDone, CloseChannel, CloserOK
  <2>2. \A r \in Run : channels'[r] = None
    BY <1>0, <2>1 DEF CloserOK
  <2> QED
    BY <2>1, <2>2 DEF OneChannelPerRun, RegisteredOK
<1> QED
  BY <1>2, <1>3, <1>4, <1>5, <1>6, <1>7, <1>8, <1>9 DEF Next, ConnStep, CloseStep

\* A connection never holds a channel of another run, and tears down only what
\* nobody refers to any more.
LEMMA UserStep ==
    ASSUME WsInv, Next
    PROVE  \A c \in Conn : UserOK(c)'
<1> USE WsManagerAssumption DEF closeVars, chanVars, Goto, Attached, Unopened
<1>0. /\ TypeOK /\ RefCountExact /\ OneChannelPerRun /\ RegisteredOK /\ LockOK
      /\ \A c \in Conn : UserOK(c) /\ ChannelOK(c)
      /\ run' = run
  BY DEF WsInv, Next, ConnStep, CloseStep, Connect, Reject, Disconnect, Join, OpenChannel,
         ChannelOpened, OpenFails, Leave, ReleaseShared, ReleaseLast, Detach, TearDown,
         ReaderEnds, CloseCalled, CloseSnapshot, CloseChannel, ChannelClosed, CloseDone
<1>1. ASSUME NEW c \in Conn,
             \/ Connect(c) \/ Reject(c) \/ Disconnect(c) \/ OpenFails(c) \/ Leave(c)
             \/ TearDown(c) \/ ReaderEnds(c)
      PROVE  \A x \in Conn : UserOK(x)'
  <2>1. UNCHANGED <<channels, handle, refs>>
    BY <1>1 DEF Connect, Reject, Disconnect, OpenFails, Leave, TearDown, ReaderEnds
  <2>2. \A x \in Conn : /\ pc'[x] \in Attached => pc[x] \in Attached
                        /\ pc'[x] = "tearing" => pc[x] = "tearing"
                        /\ pc'[x] = "subscribing" => pc[x] = "subscribing"
    BY <1>0, <1>1 DEF TypeOK, Connect, Reject, Disconnect, OpenFails, Leave, TearDown, ReaderEnds
  <2> QED
    BY <1>0, <2>1, <2>2 DEF UserOK
<1>2. ASSUME NEW c \in Conn, OpenChannel(c)
      PROVE  \A x \in Conn : UserOK(x)'
  BY <1>0, <1>2 DEF UserOK, OpenChannel, TypeOK
<1>3. ASSUME NEW c \in Conn, Join(c)
      PROVE  \A x \in Conn : UserOK(x)'
  <2>1. PICK d \in Conn : d = channels[run[c]] /\ d # None /\ run[d] = run[c] /\ refs[d] > 0
    BY <1>0, <1>3 DEF Join, TypeOK, RegisteredOK, OneChannelPerRun
  <2>2. /\ channels' = channels
        /\ \A e \in Conn : e # d => refs'[e] = refs[e]
        /\ \A x \in Conn : handle'[x] = IF x = c THEN d ELSE handle[x]
        /\ \A x \in Conn \ {c} : pc'[x] = pc[x]
        /\ pc'[c] = "serving"
    BY <1>0, <1>3, <2>1 DEF Join, TypeOK
  <2> QED
    BY <1>0, <2>1, <2>2 DEF UserOK
<1>4. ASSUME NEW c \in Conn, ChannelOpened(c)
      PROVE  \A x \in Conn : UserOK(x)'
  <2>1. /\ \A r \in Run : r # run[c] => channels'[r] = channels[r]
        /\ \A e \in Conn : e # c => refs'[e] = refs[e] /\ handle'[e] = handle[e] /\ pc'[e] = pc[e]
        /\ pc'[c] = "serving" /\ handle'[c] = c
    BY <1>0, <1>4 DEF ChannelOpened, TypeOK
  <2>2. \A x \in Conn : handle[x] # c
    BY <1>0, <1>4 DEF ChannelOpened, ChannelOK
  <2>3. \A x \in Conn : x # c => pc[x] # "subscribing"
    BY <1>0, <1>4 DEF ChannelOpened, LockOK
  <2> QED
    BY <1>0, <2>1, <2>2, <2>3 DEF UserOK
<1>5. ASSUME NEW c \in Conn, ReleaseShared(c) \/ ReleaseLast(c)
      PROVE  \A x \in Conn : UserOK(x)'
  <2>0. Detach(c)
    BY <1>5 DEF ReleaseShared, ReleaseLast
  <2>1. PICK d \in Conn : d = handle[c] /\ c \in Sharing(d)
    BY <1>0, <2>0 DEF UserOK, Detach, Sharing
  <2>2. /\ handle' = handle
        /\ \A e \in Conn : e # d => refs'[e] = refs[e]
        /\ refs'[d] = refs[d] - 1 /\ refs[d] \in Nat \ {0}
    BY <1>0, <2>0, <2>1, Counted DEF Detach, TypeOK
  <2>3. CASE ReleaseShared(c)
    BY <1>0, <2>1, <2>2, <2>3 DEF UserOK, ReleaseShared, TypeOK
  <2>4. CASE ReleaseLast(c)
    <3>1. /\ refs'[d] = 0
          /\ \A r \in Run : channels[r] = None => channels'[r] = None
          /\ \A x \in Conn \ {c} : pc'[x] = pc[x]
          /\ pc'[c] = "tearing"
      BY <1>0, <2>1, <2>2, <2>4 DEF ReleaseLast, TypeOK
    <3>2. \A x \in Conn : run[x] \in Run
      BY <1>0 DEF TypeOK
    <3> QED
      BY <1>0, <2>1, <2>2, <3>1, <3>2 DEF UserOK
  <2> QED
    BY <1>5, <2>3, <2>4
<1>6. ASSUME \/ CloseCalled \/ CloseSnapshot \/ ChannelClosed \/ CloseDone
             \/ \E d \in Conn : CloseChannel(d)
      PROVE  \A x \in Conn : UserOK(x)'
  <2>1. /\ UNCHANGED <<handle, refs, pc>>
        /\ \A r \in Run : channels[r] = None => channels'[r] = None
    BY <1>6 DEF CloseCalled, CloseSnapshot, ChannelClosed, CloseDone, CloseChannel
  <2>2. \A x \in Conn : run[x] \in Run
    BY <1>0 DEF TypeOK
  <2> QED
    BY <1>0, <2>1, <2>2 DEF UserOK
<1> QED
  BY <1>1, <1>2, <1>3, <1>4, <1>5, <1>6 DEF Next, ConnStep, CloseStep

\* Who releases a channel last tears it down, and who tears it down ends its
\* reader and closes its subscription.
LEMMA ChannelStep ==
    ASSUME WsInv, Next
    PROVE  \A d \in Conn : ChannelOK(d)'
<1> USE WsManagerAssumption DEF closeVars, chanVars, Goto, Attached, Unopened
<1>0. /\ TypeOK /\ RefCountExact /\ OneChannelPerRun /\ RegisteredOK
      /\ \A c \in Conn : UserOK(c) /\ ChannelOK(c)
  BY DEF WsInv
<1>1. ASSUME UNCHANGED <<handle, refs>>,
             draining' \subseteq draining,
             closing' = None \/ closing' = closing \/ closing' \in draining,
             \A d \in Conn : /\ pc'[d] \in Unopened => pc[d] \in Unopened
                             /\ pc'[d] = "tearing" <=> pc[d] = "tearing"
                             /\ pubsub'[d] = pubsub[d]
                             /\ \/ reader'[d] = reader[d]
                                \/ (reader[d] = "running" /\ reader'[d] = "cancelled")
                                \/ (reader[d] # "none" /\ reader'[d] = "ended")
      PROVE  \A d \in Conn : ChannelOK(d)'
  BY <1>0, <1>1 DEF ChannelOK
<1>2. ASSUME NEW c \in Conn,
             \/ Connect(c) \/ Reject(c) \/ Disconnect(c) \/ OpenChannel(c) \/ OpenFails(c)
             \/ Leave(c) \/ ReaderEnds(c)
      PROVE  \A d \in Conn : ChannelOK(d)'
  <2>1. UNCHANGED <<handle, refs, pubsub, draining, closing>>
    BY <1>2 DEF Connect, Reject, Disconnect, OpenChannel, OpenFails, Leave, ReaderEnds
  <2>2. \A d \in Conn : /\ pc'[d] \in Unopened => pc[d] \in Unopened
                        /\ pc'[d] = "tearing" <=> pc[d] = "tearing"
    BY <1>0, <1>2 DEF TypeOK, Connect, Reject, Disconnect, OpenChannel, OpenFails, Leave, ReaderEnds
  <2>3. \A d \in Conn : reader'[d] = reader[d] \/ (reader[d] # "none" /\ reader'[d] = "ended")
    BY <1>0, <1>2 DEF TypeOK, Connect, Reject, Disconnect, OpenChannel, OpenFails, Leave, ReaderEnds
  <2> QED
    BY <1>1, <2>1, <2>2, <2>3
<1>3. ASSUME NEW c \in Conn, Join(c)
      PROVE  \A d \in Conn : ChannelOK(d)'
  <2>1. PICK d \in Conn : d = channels[run[c]] /\ d # None /\ refs[d] > 0 /\ pubsub[d] = "open"
    BY <1>0, <1>3 DEF Join, TypeOK, OneChannelPerRun
  <2>2. /\ UNCHANGED <<reader, pubsub, draining, closing>>
        /\ \A e \in Conn : refs'[e] = IF e = d THEN refs[d] + 1 ELSE refs[e]
        /\ \A x \in Conn : handle'[x] = IF x = c THEN d ELSE handle[x]
        /\ \A x \in Conn \ {c} : pc'[x] = pc[x]
        /\ pc[c] = "acquiring" /\ pc'[c] = "serving"
    BY <1>0, <1>3, <2>1 DEF Join, TypeOK
  <2>3. refs[d] \in Nat
    BY <1>0 DEF TypeOK
  <2> QED
    BY <1>0, <2>1, <2>2, <2>3 DEF ChannelOK
<1>4. ASSUME NEW c \in Conn, ChannelOpened(c)
      PROVE  \A d \in Conn : ChannelOK(d)'
  <2>1. /\ \A e \in Conn \ {c} : UNCHANGED <<refs[e], pubsub[e], reader[e], handle[e], pc[e]>>
        /\ refs'[c] = 1 /\ handle'[c] = c /\ pc'[c] = "serving" /\ pc[c] = "subscribing"
        /\ UNCHANGED <<draining, closing>>
    BY <1>0, <1>4 DEF ChannelOpened, TypeOK
  <2> QED
    BY <1>0, <2>1 DEF ChannelOK
<1>5. ASSUME NEW c \in Conn, ReleaseShared(c) \/ ReleaseLast(c)
      PROVE  \A d \in Conn : ChannelOK(d)'
  <2>0. Detach(c)
    BY <1>5 DEF ReleaseShared, ReleaseLast
  <2>1. PICK d \in Conn : d = handle[c]
    BY <1>0, <2>0 DEF UserOK, Detach
  <2>2. /\ UNCHANGED <<handle, pubsub, draining, closing>>
        /\ \A e \in Conn : e # d => refs'[e] = refs[e]
        /\ refs'[d] = refs[d] - 1 /\ refs[d] \in Nat
        /\ pc[c] = "leaving"
    BY <1>0, <2>0, <2>1 DEF Detach, TypeOK
  <2>3. CASE ReleaseShared(c)
    <3>1. reader' = reader /\ refs'[d] > 0 /\ pc'[c] = "gone" /\ \A x \in Conn \ {c} : pc'[x] = pc[x]
      BY <1>0, <2>1, <2>2, <2>3 DEF ReleaseShared, TypeOK
    <3> QED
      BY <1>0, <2>1, <2>2, <3>1 DEF ChannelOK
  <2>4. CASE ReleaseLast(c)
    <3>1. pc'[c] = "tearing" /\ \A x \in Conn \ {c} : pc'[x] = pc[x]
      BY <1>0, <2>4 DEF ReleaseLast, TypeOK
    <3>2. \A e \in Conn : reader'[e] = reader[e] \/ (e = d /\ reader[d] = "running")
      <4>1. \A e \in Conn : e # d => reader'[e] = reader[e]
        BY <1>0, <2>1, <2>4 DEF ReleaseLast, TypeOK
      <4>2. reader[d] # "running" => reader'[d] = reader[d]
        BY <1>0, <2>1, <2>4 DEF ReleaseLast, TypeOK
      <4> QED
        BY <4>1, <4>2
    <3> QED
      BY <1>0, <2>0, <2>1, <2>2, <3>1, <3>2 DEF ChannelOK, Detach
  <2> QED
    BY <1>5, <2>3, <2>4
<1>6. ASSUME NEW c \in Conn, TearDown(c)
      PROVE  \A d \in Conn : ChannelOK(d)'
  <2>1. /\ UNCHANGED <<handle, refs, reader, draining, closing>>
        /\ \A x \in Conn \ {c} : pc'[x] = pc[x]
        /\ pc[c] = "tearing" /\ pc'[c] = "gone"
        /\ \A e \in Conn : e # handle[c] => pubsub'[e] = pubsub[e]
        /\ handle[c] \in Conn /\ pubsub'[handle[c]] = "closed" /\ reader[handle[c]] = "ended"
    BY <1>0, <1>6 DEF TearDown, TypeOK, UserOK
  <2> QED
    BY <1>0, <2>1 DEF ChannelOK
<1>7. ASSUME CloseCalled \/ CloseDone
      PROVE  \A d \in Conn : ChannelOK(d)'
  BY <1>1, <1>7 DEF CloseCalled, CloseDone
<1>8. ASSUME CloseSnapshot
      PROVE  \A d \in Conn : ChannelOK(d)'
  <2>1. /\ UNCHANGED <<handle, refs, reader, pubsub, pc, closing>>
        /\ draining' = {channels[r] : r \in Run} \ {None}
    BY <1>8 DEF CloseSnapshot
  <2>2. ASSUME NEW d \in Conn, d \in draining'
        PROVE  pc[d] \notin Unopened
    <3>1. refs[d] > 0
      BY <1>0, <2>1, <2>2 DEF OneChannelPerRun
    <3>2. Sharing(d) # {}
      BY <1>0, <3>1, FS_EmptySet DEF RefCountExact
    <3> QED
      BY <1>0, <3>2 DEF Sharing, ChannelOK
  <2> QED
    BY <1>0, <2>1, <2>2 DEF ChannelOK
<1>9. ASSUME NEW d \in Conn, CloseChannel(d)
      PROVE  \A e \in Conn : ChannelOK(e)'
  <2>1. /\ UNCHANGED <<handle, refs, pubsub, pc>>
        /\ closing' = d /\ d \in draining /\ draining' \subseteq draining
    BY <1>9 DEF CloseChannel
  <2>2. \A e \in Conn : e # d => reader'[e] = reader[e]
    BY <1>0, <1>9 DEF CloseChannel, TypeOK
  <2>3. reader'[d] = IF reader[d] = "running" THEN "cancelled" ELSE reader[d]
    BY <1>0, <1>9 DEF CloseChannel, TypeOK
  <2> QED
    BY <1>1, <2>1, <2>2, <2>3
<1>10. ASSUME ChannelClosed
       PROVE  \A d \in Conn : ChannelOK(d)'
  <2>1. /\ UNCHANGED <<handle, refs, reader, pc, draining>>
        /\ closing' = None /\ closing \in Conn
        /\ \A e \in Conn : pubsub'[e] = IF e = closing THEN "closed" ELSE pubsub[e]
    BY <1>0, <1>10 DEF ChannelClosed, TypeOK
  <2> QED
    BY <1>0, <2>1 DEF ChannelOK
<1> QED
  BY <1>2, <1>3, <1>4, <1>5, <1>6, <1>7, <1>8, <1>9, <1>10 DEF Next, ConnStep, CloseStep

-----------------------------------------------------------------------------
(* The theorems. *)

\* Initially nobody is connected and the lock is free.
LEMMA WsInvInit == Init => WsInv
<1> SUFFICES ASSUME Init PROVE WsInv
  OBVIOUS
<1> USE WsManagerAssumption DEF Init
<1>1. TypeOK
  BY EmptySeq DEF TypeOK, PC
<1>2. LockOK
  BY EmptySeq DEF LockOK, Wants
<1>3. CloserOK
  BY DEF CloserOK
<1>4. RefCountExact
  <2>1. \A d \in Conn : Sharing(d) = {}
    BY DEF Sharing, Attached
  <2> QED
    BY <2>1, FS_EmptySet DEF RefCountExact
<1>5. OneChannelPerRun /\ RegisteredOK
  BY DEF OneChannelPerRun, RegisteredOK, Attached
<1>6. \A c \in Conn : UserOK(c) /\ ChannelOK(c)
  BY DEF UserOK, ChannelOK, Attached, Unopened
<1> QED
  BY <1>1, <1>2, <1>3, <1>4, <1>5, <1>6 DEF WsInv

\* The invariant is inductive.
LEMMA WsInvStep == WsInv /\ [Next]_vars => WsInv'
<1> SUFFICES ASSUME WsInv, [Next]_vars PROVE WsInv'
  OBVIOUS
<1>1. CASE Next
  BY <1>1, LockStep, TypeStep, RefStep, CloserStep, RegistryStep, UserStep, ChannelStep DEF WsInv
<1>2. CASE UNCHANGED vars
  <2> USE <1>2 DEF vars
  <2>1. TypeOK' /\ CloserOK' /\ OneChannelPerRun' /\ RegisteredOK'
    BY DEF WsInv, TypeOK, CloserOK, OneChannelPerRun, RegisteredOK
  <2>2. LockOK'
    BY DEF WsInv, LockOK, Wants
  <2>3. RefCountExact'
    BY DEF WsInv, RefCountExact, Sharing
  <2>4. \A c \in Conn : UserOK(c)' /\ ChannelOK(c)'
    BY DEF WsInv, UserOK, ChannelOK
  <2> QED
    BY <2>1, <2>2, <2>3, <2>4 DEF WsInv
<1> QED
  BY <1>1, <1>2

\* In every behaviour of manager.py's life cycle the types are right, the lock is
\* held and waited for by exactly those that asked for it, and the registry, the
\* channels and their users fit together.
THEOREM WsInvariant == Spec => []WsInv
  BY WsInvInit, WsInvStep, PTL DEF Spec

\* _RunChannel.ref_count is, at every suspension point, the number of connections
\* that have yet to release the channel.
THEOREM RefCountsAreExact == Spec => []RefCountExact
<1>1. WsInv => RefCountExact
  BY DEF WsInv
<1> QED
  BY <1>1, WsInvariant, PTL

\* Until close() takes over, _channels names the one channel that all connections
\* of a run share, and its subscription and reader live.
THEOREM ChannelsAreShared == Spec => []OneChannelPerRun
<1>1. WsInv => OneChannelPerRun
  BY DEF WsInv
<1> QED
  BY <1>1, WsInvariant, PTL

\* When close() is over nobody is left who was not told to stop.
THEOREM CloseReachesEveryone == Spec => []CloseReachesAll
<1>1. WsInv => CloseReachesAll
  BY DEF WsInv, CloserOK, CloseReachesAll
<1> QED
  BY <1>1, WsInvariant, PTL

\* When no connection is active no Redis subscription and no reader task is left.
THEOREM NothingIsLeaked == Spec => []NothingLeaks
<1>1. WsInv => NothingLeaks
  <2> SUFFICES ASSUME WsInv, \A c \in Conn : pc[c] \in AtRest, NEW d \in Conn
               PROVE  pubsub[d] # "open" /\ reader[d] \in {"none", "ended"}
    BY DEF NothingLeaks
  <2>1. Sharing(d) = {}
    BY DEF Sharing, Attached, AtRest
  <2>2. refs[d] = 0
    BY <2>1, FS_EmptySet DEF WsInv, RefCountExact
  <2>3. pubsub[d] # "open" /\ reader[d] \notin {"running", "cancelled"}
    BY <2>2 DEF WsInv, ChannelOK, AtRest, Unopened
  <2> QED
    BY <2>3 DEF WsInv, TypeOK
<1> QED
  BY <1>1, WsInvariant, PTL
=============================================================================
