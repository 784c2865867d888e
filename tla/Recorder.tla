------------------------------ MODULE Recorder -------------------------------
(***************************************************************************)
(* Capture of a recording (browser/recorder.py): the page's envelopes       *)
(* become RecordedActions in memory and, through a bounded queue and a      *)
(* drain task, lines of the bronze event log; stop() sends a sentinel,      *)
(* waits for the drain task and cancels it when it takes too long.          *)
(* BronzeWriter (medallion/bronze.py) keeps a pointer row for the log, whose*)
(* size finalize_recording takes in the end.                                *)
(*                                                                          *)
(* The n-th envelope that is captured is the number n, the sentinel is 0.   *)
(* _on_capture has no await in it, so an action is one envelope.            *)
(***************************************************************************)
EXTENDS Naturals, Sequences, FiniteSets

CONSTANTS
    QueueSize,   \* bronze_queue_size
    BatchSize,   \* _BRONZE_BATCH_SIZE
    MaxCaptures, \* bound: envelopes the page sends
    MaxNavs      \* bound: main-frame navigations

ASSUME RecorderAssumption ==
    /\ QueueSize \in Nat \ {0}
    /\ BatchSize \in Nat \ {0}
    /\ MaxCaptures \in Nat
    /\ MaxNavs \in Nat

Sentinel == 0

VARIABLES
    captured,   \* envelopes accepted by _on_capture
    navs,       \* navigations seen
    sequence,   \* _sequence
    actions,    \* sequence numbers of _actions
    queue,      \* _bronze_queue
    dropped,    \* envelopes the full queue turned away
    drain,      \* where _drain_bronze is
    batch,      \* its local batch, or the leftover it rescues
    written,    \* lines of the event log
    unwritten,  \* envelopes of a write that failed
    stray,      \* a batch in a file whose close() was abandoned to its thread
    late,       \* history: the envelopes of that batch
    rows,       \* pointer rows of the log
    known,      \* the recording is in _registered_jsonl
    size,       \* lines of the log according to the row
    stop        \* where stop() is: "no", "waiting", "overrun", "done"

recVars == <<captured, navs, sequence, actions, dropped>>
logVars == <<written, unwritten, stray, late, rows, known, size>>
vars == <<captured, navs, sequence, actions, queue, dropped, drain, batch,
          written, unwritten, stray, late, rows, known, size, stop>>

-----------------------------------------------------------------------------
Drain == {"fetching",    \* awaiting the first item of a batch
          "collecting",  \* awaiting more, for _BRONZE_BATCH_WAIT_SECS at most
          "flushing",    \* awaiting append_events
          "last",        \* the same, sentinel seen
          "rescuing",    \* the same, after the cancellation
          "ended"}

Envelope == 1..MaxCaptures
Elems(s) == {s[i] : i \in 1..Len(s)}

TypeOK ==
    /\ captured \in 0..MaxCaptures
    /\ navs \in 0..MaxNavs
    /\ sequence \in 0..(MaxCaptures + MaxNavs)
    /\ actions \in Seq(1..(MaxCaptures + MaxNavs))
    /\ queue \in Seq(Envelope \union {Sentinel}) /\ Len(queue) <= QueueSize
    /\ dropped \in SUBSET Envelope
    /\ drain \in Drain
    /\ batch \in Seq(Envelope)
    /\ written \in Seq(Envelope)
    /\ unwritten \in SUBSET Envelope
    /\ stray \in Seq(Envelope)
    /\ late \in SUBSET Envelope
    /\ rows \in 0..2
    /\ known \in BOOLEAN
    /\ size \in Nat
    /\ stop \in {"no", "waiting", "overrun", "done"}

\* start() has run with a bronze writer.
Init ==
    /\ captured = 0
    /\ navs = 0
    /\ sequence = 0
    /\ actions = <<>>
    /\ queue = <<>>
    /\ dropped = {}
    /\ drain = "fetching"
    /\ batch = <<>>
    /\ written = <<>>
    /\ unwritten = {}
    /\ stray = <<>>
    /\ late = {}
    /\ rows = 0
    /\ known = FALSE
    /\ size = 0
    /\ stop = "no"

-----------------------------------------------------------------------------
(* _on_capture *)

\* put_nowait, or the envelope is dropped.
Enqueue(e) ==
    \/ /\ Len(queue) < QueueSize
       /\ queue' = Append(queue, e)
       /\ UNCHANGED dropped
    \/ /\ Len(queue) = QueueSize
       /\ dropped' = dropped \union {e}
       /\ UNCHANGED queue

Record ==
    /\ sequence' = sequence + 1
    /\ actions' = Append(actions, sequence + 1)

\* RecordedAction itself is refused after the number was taken.
RecordRefused ==
    /\ sequence' = sequence + 1
    /\ UNCHANGED actions

\* One envelope.  It may be of an unknown type or fail validation, before the
\* sequence number is taken or after.
Capture ==
    /\ stop = "no"
    /\ captured < MaxCaptures
    /\ captured' = captured + 1
    /\ Enqueue(captured + 1)
    /\ Record \/ RecordRefused \/ UNCHANGED <<sequence, actions>>
    /\ UNCHANGED <<navs, drain, batch, logVars, stop>>

\* _on_framenavigated on the main frame, to a new URL: no envelope.
Navigate ==
    /\ stop = "no"
    /\ navs < MaxNavs
    /\ navs' = navs + 1
    /\ Record
    /\ UNCHANGED <<captured, queue, dropped, drain, batch, logVars, stop>>

-----------------------------------------------------------------------------
(* _drain_bronze *)

\* Mutant: a sentinel that ends a batch ends the task without the flush.
FetchUnflushed ==
    /\ drain = "collecting"
    /\ queue # <<>>
    /\ queue' = Tail(queue)
    /\ IF Head(queue) = Sentinel
       THEN drain' = "ended" /\ UNCHANGED batch
       ELSE /\ batch' = Append(batch, Head(queue))
            /\ drain' = IF Len(batch) + 1 = BatchSize THEN "flushing" ELSE "collecting"
    /\ UNCHANGED <<recVars, logVars, stop>>

\* The first item of a batch, or the sentinel.
FetchFirst ==
    /\ drain = "fetching"
    /\ queue # <<>>
    /\ queue' = Tail(queue)
    /\ IF Head(queue) = Sentinel
       THEN drain' = "ended" /\ UNCHANGED batch
       ELSE /\ batch' = <<Head(queue)>>
            /\ drain' = IF BatchSize = 1 THEN "flushing" ELSE "collecting"
    /\ UNCHANGED <<recVars, logVars, stop>>

\* A further item; a full batch or the sentinel starts the write.
FetchMore ==
    /\ drain = "collecting"
    /\ queue # <<>>
    /\ queue' = Tail(queue)
    /\ IF Head(queue) = Sentinel
       THEN drain' = "last" /\ UNCHANGED batch
       ELSE /\ batch' = Append(batch, Head(queue))
            /\ drain' = IF Len(batch) + 1 = BatchSize THEN "flushing" ELSE "collecting"
    /\ UNCHANGED <<recVars, logVars, stop>>

\* No further item in time.
BatchTimeout ==
    /\ drain = "collecting"
    /\ drain' = "flushing"
    /\ UNCHANGED <<recVars, queue, batch, logVars, stop>>

\* Mutant: the row is added before the lines are out.
StoredRowFirst ==
    /\ rows' = rows + (IF known THEN 0 ELSE 1)
    /\ known' = TRUE
    /\ \/ written' = written \o batch /\ UNCHANGED unwritten
       \/ unwritten' = unwritten \union Elems(batch) /\ UNCHANGED written

\* append_events: the lines are in the log, then the row is added once, or an
\* error is logged.
Stored ==
    \/ /\ written' = written \o batch
       /\ \/ ~known /\ known' = TRUE /\ rows' = rows + 1
          \/ UNCHANGED <<known, rows>>
       /\ UNCHANGED unwritten
    \/ /\ unwritten' = unwritten \union Elems(batch)
       /\ UNCHANGED <<written, known, rows>>

\* flush() returns.
Flushed ==
    /\ drain \in {"flushing", "last", "rescuing"}
    /\ Stored
    /\ batch' = <<>>
    /\ drain' = IF drain = "flushing" THEN "fetching" ELSE "ended"
    /\ UNCHANGED <<recVars, queue, stray, late, size, stop>>

-----------------------------------------------------------------------------
(* stop() *)

\* Listeners off, sentinel in, unless the queue is full.
Stop ==
    /\ stop = "no"
    /\ stop' = "waiting"
    /\ queue' = IF Len(queue) < QueueSize THEN Append(queue, Sentinel) ELSE queue
    /\ UNCHANGED <<recVars, drain, batch, logVars>>

\* What the cancelled task finds: the sentinel is skipped, and nothing is put after it.
Leftover == IF Sentinel \in Elems(queue) THEN SubSeq(queue, 1, Len(queue) - 1) ELSE queue

\* After stop() nothing is put, so a drain task that is not writing has emptied
\* the queue before it is suspended.
Suspended == drain \in {"flushing", "last"} \/ (drain # "ended" /\ queue = <<>>)

\* The CancelledError meets a write in open() (nothing is written), in write()
\* or the insert that follows (the lines are out, the row may be there without
\* being remembered), or in close(), whose thread goes on by itself.
Interrupted ==
    \/ UNCHANGED <<written, rows, stray, late>>
    \/ /\ drain \in {"flushing", "last"}
       /\ \/ /\ written' = written \o batch
             /\ rows' \in {rows, IF known THEN rows ELSE rows + 1}
             /\ UNCHANGED <<stray, late>>
          \/ /\ stray' = batch
             /\ late' = Elems(batch)
             /\ UNCHANGED <<written, rows>>

\* Mutant: only a task that is writing is cancelled.
OverrunWriting ==
    /\ stop = "waiting"
    /\ drain \in {"flushing", "last"}
    /\ stop' = "overrun"
    /\ queue' = <<>>
    /\ batch' = Leftover
    /\ drain' = IF Leftover = <<>> THEN "ended" ELSE "rescuing"
    /\ Interrupted
    /\ UNCHANGED <<recVars, unwritten, known, size>>

\* Mutant: the batch in hand is written after the rest of the queue.
OverrunReordering ==
    /\ stop = "waiting"
    /\ Suspended
    /\ stop' = "overrun"
    /\ queue' = <<>>
    /\ batch' = Leftover \o batch
    /\ drain' = "rescuing"
    /\ UNCHANGED <<recVars, logVars>>

\* _BRONZE_DRAIN_TIMEOUT_SECS are over: wait_for cancels the task, which then
\* empties the queue and writes that.  The batch in hand is given up.
Overrun ==
    /\ stop = "waiting"
    /\ Suspended
    /\ stop' = "overrun"
    /\ queue' = <<>>
    /\ batch' = Leftover
    /\ drain' = IF Leftover = <<>> THEN "ended" ELSE "rescuing"
    /\ Interrupted
    /\ UNCHANGED <<recVars, unwritten, known, size>>

\* Mutant: stop() returns after the timeout without awaiting the task.
StopReturnsEarly ==
    /\ stop = "overrun" \/ (stop = "waiting" /\ drain = "ended")
    /\ stop' = "done"
    /\ UNCHANGED <<recVars, queue, drain, batch, logVars>>

\* The drain task has ended.
StopReturns ==
    /\ stop \in {"waiting", "overrun"}
    /\ drain = "ended"
    /\ stop' = "done"
    /\ UNCHANGED <<recVars, queue, drain, batch, logVars>>

\* The abandoned close() gets the lines out after all.
StrayLands ==
    /\ stray # <<>>
    /\ written' = written \o stray
    /\ stray' = <<>>
    /\ UNCHANGED <<recVars, queue, drain, batch, unwritten, late, rows, known, size, stop>>

\* finalize_recording: the size goes into the row; no log or two rows of the
\* same path raise, which is logged.
Finalize ==
    /\ stop = "done"
    /\ size' = IF written # <<>> /\ rows = 1 THEN Len(written) ELSE size
    /\ UNCHANGED <<recVars, queue, drain, batch, written, unwritten, stray, late,
                   rows, known, stop>>

-----------------------------------------------------------------------------
DrainStep == FetchFirst \/ FetchMore \/ BatchTimeout \/ Flushed

Next ==
    \/ Capture \/ Navigate \/ DrainStep
    \/ Stop \/ Overrun \/ StopReturns \/ StrayLands \/ Finalize

Spec == Init /\ [][Next]_vars

\* Writes come back, the timers fire.
FairSpec ==
    /\ Spec
    /\ WF_vars(DrainStep)
    /\ WF_vars(Overrun)
    /\ WF_vars(StopReturns)

-----------------------------------------------------------------------------
(* Properties. *)

Increasing(s) == \A i, j \in 1..Len(s) : i < j => s[i] < s[j]

\* The event log is a subsequence of what was captured: batches, the sentinel and
\* the rescue after a cancellation neither repeat an envelope nor reorder them,
\* save for one batch whose close() was abandoned.
LogInOrder ==
    /\ \A i, j \in 1..Len(written) :
            i < j /\ {written[i], written[j]} \cap late = {} => written[i] < written[j]
    /\ \A i, j \in 1..Len(written) : written[i] = written[j] => i = j

Missing == 1..captured \ (Elems(written) \union unwritten \union dropped)

\* When the drain task ends by the sentinel, every envelope that the queue took
\* has been through the store; when it has to be cancelled instead, what is lost
\* is at most the one batch it had in hand.
LossBounded ==
    /\ stop = "waiting" /\ drain = "ended" => Missing = {}
    /\ stop = "done" => Cardinality(Missing) <= BatchSize

\* After stop() has returned nothing is captured and the log gets no line, those
\* of an abandoned close() excepted.
FrozenAfterStop ==
    [][stop = "done" =>
          /\ UNCHANGED <<actions, sequence>>
          /\ written' \in {written, written \o stray}]_vars

\* A pointer row never exists before the file that it points to, and
\* finalize_recording records the size of the whole log, unless a batch was
\* abandoned in close().
LogRegistered ==
    /\ rows > 0 => written # <<>>
    /\ size # 0 /\ late = {} => size = Len(written)

\* stop() returns, also when the sentinel found no room.
StopCompletes == stop = "waiting" ~> stop = "done"

-----------------------------------------------------------------------------
(* The inductive invariant that the properties follow from. *)

\* stop() has not given up on the drain task.
Patient == stop \in {"no", "waiting"}

\* e was captured before all the envelopes of t.
Before(e, t) == \A j \in 1..Len(t) : t[j] # Sentinel => e < t[j]

\* The sentinel is the last thing put, and when it was taken the queue is empty.
QueueOK ==
    /\ \A i \in 1..Len(queue) : queue[i] = Sentinel => i = Len(queue) /\ stop # "no"
    /\ \A i, j \in 1..Len(queue) : i < j /\ queue[j] # Sentinel => queue[i] < queue[j]
    /\ ~Patient \/ drain \in {"last", "ended"} => queue = <<>>

\* What the drain task does and how far stop() is.
DrainOK ==
    /\ batch = <<>> <=> drain \in {"fetching", "ended"}
    /\ drain \in {"last", "ended"} => stop # "no"
    /\ stop = "done" => drain = "ended"
    /\ drain = "rescuing" <=> stop = "overrun" /\ drain # "ended"
    /\ Patient => Len(batch) <= BatchSize
    /\ drain = "collecting" => Len(batch) < BatchSize

\* From the log through the batch to the queue the envelopes go up, save for the
\* one batch of an abandoned close().
OrderOK ==
    /\ LogInOrder
    /\ Increasing(batch) /\ Increasing(stray)
    /\ \A i \in 1..Len(batch) : Before(batch[i], queue)
    /\ \A i \in 1..Len(written) : written[i] \notin late =>
            Before(written[i], batch) /\ Before(written[i], queue)
    /\ late \cap (Elems(batch) \cup Elems(queue)) = {}
    /\ stray # <<>> => Elems(stray) = late /\ late # {} /\ late \cap Elems(written) = {}
    /\ Patient => stray = <<>> /\ late = {}

\* Nothing is anywhere that was not captured.
CapturedOK ==
    /\ sequence <= captured + navs
    /\ Elems(written) \cup Elems(batch) \cup Elems(stray) \subseteq 1..captured
    /\ Elems(queue) \subseteq 0..captured

\* What is missing is on its way; after a cancellation, all but one batch is.
LossOK ==
    /\ Patient => Missing \subseteq Elems(batch) \cup Elems(queue)
    /\ ~Patient => Cardinality(Missing \ Elems(batch)) <= BatchSize

\* The row comes after the lines; it may be there without being remembered.
RowsOK ==
    /\ rows > 0 => written # <<>>
    /\ ~known => rows <= 1
    /\ ~known /\ Patient => rows = 0
    /\ size # 0 => stop = "done" /\ (late = {} => size = Len(written))

RecorderInv ==
    /\ TypeOK
    /\ QueueOK
    /\ DrainOK
    /\ OrderOK
    /\ CapturedOK
    /\ LossOK
    /\ RowsOK
=============================================================================
