------------------------------ MODULE WsManager ------------------------------
(***************************************************************************)
(* Life cycle of the WebSocket subscriptions (api/streaming/manager.py):    *)
(* one shared, reference-counted Redis subscription per run, guarded by one *)
(* asyncio.Lock, and the shutdown of all of them.  What flows through a     *)
(* subscription is modelled in RunStream.                                   *)
(*                                                                          *)
(* A _RunChannel is created by one call of subscribe() and a connection     *)
(* makes one such call, so a channel is named by the connection that        *)
(* created it.  The fields of channel d are members[d], refs[d], reader[d]  *)
(* and pubsub[d]; handle[c] is the local variable `channel` of connection c.*)
(***************************************************************************)
EXTENDS Naturals, Sequences, FiniteSets

CONSTANTS
    Conn,   \* WebSocket connections
    Run,    \* run ids
    None,   \* no channel
    Closer  \* the task that runs WebSocketManager.close()

ASSUME WsManagerAssumption ==
    /\ IsFiniteSet(Conn)
    /\ None \notin Conn
    /\ Closer \notin Conn

VARIABLES
    closed,     \* _closed
    closer,     \* where close() is: "idle", "locking", "draining", "done"
    draining,   \* channels that close() has still to signal
    closing,    \* the channel whose pubsub close() is closing, or None
    lock,       \* _lock: its holder, then the waiters in FIFO order
    channels,   \* _channels: run -> channel or None
    members,    \* _RunChannel.subscribers
    refs,       \* _RunChannel.ref_count
    reader,     \* state of _RunChannel.reader_task
    pubsub,     \* state of _RunChannel.pubsub
    pc,         \* where subscribe() is, per connection
    run,        \* the run a connection asked for
    handle,     \* the channel a connection has acquired
    shutdown    \* subscribers whose shutdown event is set

chanVars == <<members, refs, reader, pubsub>>
closeVars == <<closed, closer, draining, closing>>
vars == <<closed, closer, draining, closing, lock, channels, members, refs,
          reader, pubsub, pc, run, handle, shutdown>>

-----------------------------------------------------------------------------
PC == {"idle",
       "acquiring",    \* in _acquire_channel, waiting for or holding the lock
       "subscribing",  \* holding the lock, awaiting pubsub.subscribe()
       "serving",      \* backfill, then waiting for the shutdown event
       "leaving",      \* in _release_channel, waiting for or holding the lock
       "tearing",      \* last one out: awaiting the reader, then the pubsub
       "gone", "rejected", "failed"}

Attached == {"serving", "leaving"}
AtRest == {"idle", "gone", "rejected", "failed"}

Sharing(d) == {c \in Conn : pc[c] \in Attached /\ handle[c] = d}

TypeOK ==
    /\ closed \in BOOLEAN
    /\ closer \in {"idle", "locking", "draining", "done"}
    /\ draining \in SUBSET Conn
    /\ closing \in Conn \union {None}
    /\ lock \in Seq(Conn \union {Closer})
    /\ channels \in [Run -> Conn \union {None}]
    /\ members \in [Conn -> SUBSET Conn]
    /\ refs \in [Conn -> Nat]
    /\ reader \in [Conn -> {"none", "running", "cancelled", "ended"}]
    /\ pubsub \in [Conn -> {"none", "open", "closed"}]
    /\ pc \in [Conn -> PC]
    /\ run \in [Conn -> Run]
    /\ handle \in [Conn -> Conn \union {None}]
    /\ shutdown \in SUBSET Conn

Init ==
    /\ closed = FALSE
    /\ closer = "idle"
    /\ draining = {}
    /\ closing = None
    /\ lock = <<>>
    /\ channels = [r \in Run |-> None]
    /\ members = [d \in Conn |-> {}]
    /\ refs = [d \in Conn |-> 0]
    /\ reader = [d \in Conn |-> "none"]
    /\ pubsub = [d \in Conn |-> "none"]
    /\ pc = [c \in Conn |-> "idle"]
    /\ run \in [Conn -> Run]
    /\ handle = [c \in Conn |-> None]
    /\ shutdown = {}

-----------------------------------------------------------------------------
(* asyncio.Lock grants in FIFO order; a release leaves the lock to the next *)
(* waiter.                                                                  *)

Request(t) == lock' = Append(lock, t)
Holds(t) == lock # <<>> /\ Head(lock) = t
Unlock == lock' = Tail(lock)

Goto(c, p) == pc' = [pc EXCEPT ![c] = p]

-----------------------------------------------------------------------------
(* subscribe(), one connection *)

\* subscribe() after close(): 1013.
Reject(c) ==
    /\ pc[c] = "idle"
    /\ closed
    /\ Goto(c, "rejected")
    /\ UNCHANGED <<closeVars, lock, channels, chanVars, run, handle, shutdown>>

\* subscribe() before close(): no suspension between the check and the lock.
Connect(c) ==
    /\ pc[c] = "idle"
    /\ ~closed
    /\ Request(c)
    /\ Goto(c, "acquiring")
    /\ UNCHANGED <<closeVars, channels, chanVars, run, handle, shutdown>>

\* Mutant: joining a channel does not count.
JoinUncounted(c) ==
    /\ pc[c] = "acquiring" /\ Holds(c)
    /\ LET d == channels[run[c]] IN
       /\ d # None
       /\ members' = [members EXCEPT ![d] = @ \union {c}]
       /\ handle' = [handle EXCEPT ![c] = d]
    /\ Unlock
    /\ Goto(c, "serving")
    /\ UNCHANGED <<closeVars, channels, refs, reader, pubsub, run, shutdown>>

\* _acquire_channel finds the channel of the run.
Join(c) ==
    /\ pc[c] = "acquiring" /\ Holds(c)
    /\ LET d == channels[run[c]] IN
       /\ d # None
       /\ members' = [members EXCEPT ![d] = @ \union {c}]
       /\ refs' = [refs EXCEPT ![d] = @ + 1]
       /\ handle' = [handle EXCEPT ![c] = d]
    /\ Unlock
    /\ Goto(c, "serving")
    /\ UNCHANGED <<closeVars, channels, reader, pubsub, run, shutdown>>

\* _acquire_channel finds none and awaits pubsub.subscribe(), lock in hand ...
OpenChannel(c) ==
    /\ pc[c] = "acquiring" /\ Holds(c)
    /\ channels[run[c]] = None
    /\ Goto(c, "subscribing")
    /\ UNCHANGED <<closeVars, lock, channels, chanVars, run, handle, shutdown>>

\* ... starts the reader and registers the channel ...
ChannelOpened(c) ==
    /\ pc[c] = "subscribing"
    /\ channels' = [channels EXCEPT ![run[c]] = c]
    /\ pubsub' = [pubsub EXCEPT ![c] = "open"]
    /\ reader' = [reader EXCEPT ![c] = "running"]
    /\ refs' = [refs EXCEPT ![c] = 1]
    /\ members' = [members EXCEPT ![c] = {c}]
    /\ handle' = [handle EXCEPT ![c] = c]
    /\ Unlock
    /\ Goto(c, "serving")
    /\ UNCHANGED <<closeVars, run, shutdown>>

\* ... or Redis refuses: the exception leaves subscribe(), nothing registered.
OpenFails(c) ==
    /\ pc[c] = "subscribing"
    /\ Unlock
    /\ Goto(c, "failed")
    /\ UNCHANGED <<closeVars, channels, chanVars, run, handle, shutdown>>

\* The receiver sees the disconnect, or the sender or the heartbeat fails.
Disconnect(c) ==
    /\ pc[c] = "serving"
    /\ c \notin shutdown
    /\ shutdown' = shutdown \union {c}
    /\ UNCHANGED <<closeVars, lock, channels, chanVars, pc, run, handle>>

\* shutdown.wait() returns; the three side tasks are cancelled and awaited.
Leave(c) ==
    /\ pc[c] = "serving"
    /\ c \in shutdown
    /\ Request(c)
    /\ Goto(c, "leaving")
    /\ UNCHANGED <<closeVars, channels, chanVars, run, handle, shutdown>>

Detach(c) ==
    /\ pc[c] = "leaving" /\ Holds(c)
    /\ members' = [members EXCEPT ![handle[c]] = @ \ {c}]
    /\ refs' = [refs EXCEPT ![handle[c]] = @ - 1]
    /\ Unlock
    /\ UNCHANGED <<closeVars, pubsub, run, handle, shutdown>>

\* Mutant: the early return for other subscribers is missing.
ReleaseAlways(c) ==
    /\ Detach(c)
    /\ channels' = [channels EXCEPT ![run[c]] = None]
    /\ reader' = [reader EXCEPT ![handle[c]] = IF @ = "running" THEN "cancelled" ELSE @]
    /\ Goto(c, "tearing")

\* _release_channel while others stay.
ReleaseShared(c) ==
    /\ Detach(c)
    /\ refs[handle[c]] > 1
    /\ Goto(c, "gone")
    /\ UNCHANGED <<channels, reader>>

\* _release_channel by the last one: whatever the run is mapped to is dropped,
\* the reader is cancelled.
ReleaseLast(c) ==
    /\ Detach(c)
    /\ refs[handle[c]] <= 1
    /\ channels' = [channels EXCEPT ![run[c]] = None]
    /\ reader' = [reader EXCEPT ![handle[c]] = IF @ = "running" THEN "cancelled" ELSE @]
    /\ Goto(c, "tearing")

\* Mutant: the pubsub is left open.
TearDownOpen(c) ==
    /\ pc[c] = "tearing"
    /\ reader[handle[c]] = "ended"
    /\ Goto(c, "gone")
    /\ UNCHANGED <<closeVars, lock, channels, chanVars, run, handle, shutdown>>

\* The reader is over; unsubscribe and aclose, errors suppressed.
TearDown(c) ==
    /\ pc[c] = "tearing"
    /\ reader[handle[c]] = "ended"
    /\ pubsub' = [pubsub EXCEPT ![handle[c]] = "closed"]
    /\ Goto(c, "gone")
    /\ UNCHANGED <<closeVars, lock, channels, members, refs, reader, run, handle, shutdown>>

-----------------------------------------------------------------------------
(* _reader *)

\* The reader ends: cancelled, or because listen() raised, which is only logged.
ReaderEnds(d) ==
    /\ reader[d] \in {"running", "cancelled"}
    /\ reader' = [reader EXCEPT ![d] = "ended"]
    /\ UNCHANGED <<closeVars, lock, channels, members, refs, pubsub, pc, run,
                   handle, shutdown>>

-----------------------------------------------------------------------------
(* close() *)

CloseCalled ==
    /\ ~closed
    /\ closed' = TRUE
    /\ closer' = "locking"
    /\ Request(Closer)
    /\ UNCHANGED <<draining, closing, channels, chanVars, pc, run, handle, shutdown>>

\* Mutant: the channels are taken over without the lock.
CloseSnapshotUnlocked ==
    /\ closer = "locking"
    /\ draining' = {channels[r] : r \in Run} \ {None}
    /\ channels' = [r \in Run |-> None]
    /\ lock' = SelectSeq(lock, LAMBDA t : t # Closer)
    /\ closer' = "draining"
    /\ UNCHANGED <<closed, closing, chanVars, pc, run, handle, shutdown>>

\* Under the lock: take the channels over and clear the map.
CloseSnapshot ==
    /\ closer = "locking" /\ Holds(Closer)
    /\ draining' = {channels[r] : r \in Run} \ {None}
    /\ channels' = [r \in Run |-> None]
    /\ Unlock
    /\ closer' = "draining"
    /\ UNCHANGED <<closed, closing, chanVars, pc, run, handle, shutdown>>

\* Mutant: the subscribers are not told.
CloseChannelSilent(d) ==
    /\ closer = "draining" /\ closing = None
    /\ d \in draining
    /\ draining' = draining \ {d}
    /\ closing' = d
    /\ reader' = [reader EXCEPT ![d] = IF @ = "running" THEN "cancelled" ELSE @]
    /\ UNCHANGED <<closed, closer, lock, channels, members, refs, pubsub, pc, run,
                   handle, shutdown>>

\* One turn of the loop up to the await of aclose().
CloseChannel(d) ==
    /\ closer = "draining" /\ closing = None
    /\ d \in draining
    /\ draining' = draining \ {d}
    /\ closing' = d
    /\ shutdown' = shutdown \union members[d]
    /\ reader' = [reader EXCEPT ![d] = IF @ = "running" THEN "cancelled" ELSE @]
    /\ UNCHANGED <<closed, closer, lock, channels, members, refs, pubsub, pc, run, handle>>

\* aclose() is over.
ChannelClosed ==
    /\ closing # None
    /\ pubsub' = [pubsub EXCEPT ![closing] = "closed"]
    /\ closing' = None
    /\ UNCHANGED <<closed, closer, draining, lock, channels, members, refs, reader,
                   pc, run, handle, shutdown>>

CloseDone ==
    /\ closer = "draining" /\ closing = None /\ draining = {}
    /\ closer' = "done"
    /\ UNCHANGED <<closed, draining, closing, lock, channels, chanVars, pc, run,
                   handle, shutdown>>

-----------------------------------------------------------------------------
ConnStep(c) ==
    \/ Join(c) \/ OpenChannel(c) \/ ChannelOpened(c) \/ OpenFails(c)
    \/ Leave(c) \/ ReleaseShared(c) \/ ReleaseLast(c) \/ TearDown(c)

CloseStep ==
    \/ CloseSnapshot \/ ChannelClosed \/ CloseDone
    \/ \E d \in Conn : CloseChannel(d)

Next ==
    \/ \E c \in Conn : \/ Connect(c) \/ Reject(c) \/ Disconnect(c)
                       \/ ConnStep(c) \/ ReaderEnds(c)
    \/ CloseCalled \/ CloseStep

Spec == Init /\ [][Next]_vars

\* The event loop runs every ready task, Redis answers or fails, and a cancelled
\* reader ends.  Clients need neither connect nor disconnect, close() need not
\* be called.
FairSpec ==
    /\ Spec
    /\ \A c \in Conn : WF_vars(ConnStep(c))
    /\ \A d \in Conn : WF_vars(reader[d] = "cancelled" /\ ReaderEnds(d))
    /\ WF_vars(CloseStep)

-----------------------------------------------------------------------------
(* Properties. *)

\* ref_count, the subscriber list and the connections that will still release
\* the channel agree at every suspension point.
RefCountExact ==
    \A d \in Conn : members[d] = Sharing(d) /\ refs[d] = Cardinality(Sharing(d))

\* Until close() takes over, all connections of a run share the one channel that
\* _channels names: nobody's release ever pops the channel of somebody else.  A
\* channel that a newcomer can find is in use, its Redis subscription is open and
\* nobody has cancelled its reader.
OneChannelPerRun ==
    /\ closer \in {"idle", "locking"} =>
          \A c \in Conn : pc[c] \in Attached => channels[run[c]] = handle[c]
    /\ \A r \in Run : channels[r] # None =>
          /\ refs[channels[r]] > 0
          /\ pubsub[channels[r]] = "open"
          /\ reader[channels[r]] # "cancelled"

\* subscribe() and close() may overlap anyhow: once close() is over every
\* connection is turned away, told to shut down, or past serving.
CloseReachesAll ==
    closer = "done" =>
        \A c \in Conn : /\ pc[c] \notin {"acquiring", "subscribing"}
                        /\ pc[c] = "serving" => c \in shutdown

\* When no connection is active no Redis subscription and no reader is left.
NothingLeaks ==
    (\A c \in Conn : pc[c] \in AtRest) =>
        \A d \in Conn : pubsub[d] # "open" /\ reader[d] \in {"none", "ended"}

\* After close() every connection ends and close() itself returns.
CloseDrains == closed ~> closer = "done" /\ \A c \in Conn : pc[c] \in AtRest

-----------------------------------------------------------------------------
(* The inductive invariant behind the theorems of WsManagerProofs.          *)

\* Who waits for the lock or holds it.
Wants(t) == IF t = Closer THEN closer = "locking"
            ELSE pc[t] \in {"acquiring", "subscribing", "leaving"}

\* The lock's queue holds exactly those, each once; what awaits Redis with the
\* lock in hand is at its head; and behind close() there are only leavers.
LockOK ==
    /\ \A i \in 1..Len(lock) : Wants(lock[i])
    /\ \A t \in Conn \union {Closer} : Wants(t) => \E i \in 1..Len(lock) : lock[i] = t
    /\ \A i, k \in 1..Len(lock) : lock[i] = lock[k] => i = k
    /\ \A i, k \in 1..Len(lock) : lock[i] = Closer /\ i < k => pc[lock[k]] = "leaving"
    /\ \A c \in Conn : pc[c] = "subscribing" => lock[1] = c

\* From the snapshot on no channel is registered and none is on its way, and who
\* still serves is told to stop, or about to be.
CloserOK ==
    /\ closed <=> closer # "idle"
    /\ closer # "draining" => draining = {} /\ closing = None
    /\ closer \in {"draining", "done"} =>
          /\ \A r \in Run : channels[r] = None
          /\ \A c \in Conn : /\ pc[c] \notin {"acquiring", "subscribing"}
                             /\ pc[c] = "serving" => c \in shutdown \/ handle[c] \in draining

\* Connection c as a user of a channel: it has one, of its run, while it is
\* attached, and tears one down only when nobody refers to it.
UserOK(c) ==
    /\ pc[c] \in Attached => handle[c] \in Conn /\ run[handle[c]] = run[c]
    /\ pc[c] = "tearing" => handle[c] \in Conn /\ refs[handle[c]] = 0
    /\ pc[c] = "subscribing" => channels[run[c]] = None

\* A connection there has opened no channel.
Unopened == {"idle", "acquiring", "subscribing", "rejected", "failed"}

\* Channel d: nothing of it exists before its connection has opened it, and its
\* Redis subscription and its reader exist only as long as somebody refers to it
\* or is tearing it down.
ChannelOK(d) ==
    /\ pc[d] \in Unopened =>
          /\ reader[d] = "none" /\ pubsub[d] = "none"
          /\ d \notin draining /\ closing # d
          /\ \A c \in Conn : handle[c] # d
    /\ pubsub[d] = "open" \/ reader[d] \in {"running", "cancelled"} =>
          refs[d] > 0 \/ \E c \in Conn : pc[c] = "tearing" /\ handle[c] = d

\* A channel is registered under the run of the connection that opened it.
RegisteredOK == \A r \in Run : channels[r] # None => run[channels[r]] = r

WsInv ==
    /\ TypeOK
    /\ LockOK
    /\ CloserOK
    /\ RefCountExact
    /\ OneChannelPerRun
    /\ RegisteredOK
    /\ \A c \in Conn : UserOK(c) /\ ChannelOK(c)
=============================================================================
