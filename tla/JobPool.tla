------------------------------- MODULE JobPool -------------------------------
(***************************************************************************)
(* The replay queue of `InProcessQueuePool` (queues/in_process.py), the     *)
(* HTTP path that feeds it (BackpressureMiddleware, POST .../replay,        *)
(* POST /runs/{id}/cancel) and the handler that its tasks run               *)
(* (queues/replay_handler.py, with the run loop of browser/executor.py).    *)
(*                                                                          *)
(* Everything runs in one asyncio loop, so an action is the code between    *)
(* two suspension points.  The pool keeps one semaphore per queue and the   *)
(* queues share nothing but the closed flag; this module is one queue.      *)
(***************************************************************************)
EXTENDS Naturals, Sequences, FiniteSets

CONSTANTS
    Job,        \* job ids; each replay job owns one fresh run id
    Client,     \* HTTP clients, each with one request in flight at a time
    Limit,      \* semaphore capacity of the queue (replay_queue: 2)
    MaxDepth,   \* Config.max_queue_depth
    NActions,   \* actions in the recording being replayed
    MaxCancels  \* bound: how many runs are asked to cancel

ASSUME JobPoolAssumption ==
    /\ IsFiniteSet(Job)
    /\ IsFiniteSet(Client)
    /\ Limit \in Nat \ {0}
    /\ MaxDepth \in Nat
    /\ NActions \in Nat
    /\ MaxCancels \in Nat

VARIABLES
    pool,       \* "open", then close(): "draining", "cancelling", "closed"
    permits,    \* asyncio.Semaphore._value
    waiters,    \* pending futures of Semaphore._waiters, oldest first
    phase,      \* where the task of a job is suspended
    status,     \* _JobState.status, "none" before enqueue_job
    cancelling, \* jobs whose task.cancel() is not delivered yet
    stage,      \* how far run_replay is
    ran,        \* actions of the run that have been started
    events,     \* run-level events handed to publish_progress, per job
    saved,      \* jobs whose RunResult row is committed
    flagged,    \* jobs whose run has its cancel event set
    request     \* where the request of a client is; answers are not kept

semVars == <<permits, waiters>>
runVars == <<stage, ran, events, saved>>
vars == <<pool, permits, waiters, phase, status, cancelling,
          stage, ran, events, saved, flagged, request>>

-----------------------------------------------------------------------------
Phase == {"none",       \* no task yet
          "created",    \* create_task done, the coroutine has not started
          "waiting",    \* in sem.acquire(), future pending
          "revoked",    \* in sem.acquire(), future cancelled
          "granted",    \* in sem.acquire(), future resolved
          "handling",   \* awaiting the handler
          "failing",    \* handler raised, awaiting publish of run_failed
          "stopping",   \* handler cancelled, awaiting publish of run_cancelled
          "done"}

Status == {"none", "queued", "in_progress", "complete", "failed", "cancelled"}
Terminal == {"complete", "failed", "cancelled"}

Stage == {"lookup", "missing", "browser", "acting", "finished", "saved"}

RunEvent == {"run_started", "run_finished", "run_failed", "run_cancelled"}

RequestState == {"idle", "admitted"}

\* Tasks between the end of sem.acquire() and the release, and those the
\* semaphore has already counted although they have not resumed yet.
Holding == {"granted", "handling", "failing", "stopping"}
Holders == {j \in Job : phase[j] \in Holding}

Created == {j \in Job : phase[j] # "none"}
Live == {j \in Job : phase[j] \notin {"none", "done"}}

QueueSize == Cardinality({j \in Job : status[j] \in {"queued", "in_progress"}})

TypeOK ==
    /\ pool \in {"open", "draining", "cancelling", "closed"}
    /\ permits \in Nat
    /\ waiters \in Seq(Job)
    /\ phase \in [Job -> Phase]
    /\ status \in [Job -> Status]
    /\ cancelling \in SUBSET Job
    /\ stage \in [Job -> Stage]
    /\ ran \in [Job -> 0..NActions]
    /\ events \in [Job -> Seq(RunEvent)]
    /\ saved \in SUBSET Job
    /\ flagged \in SUBSET Job
    /\ request \in [Client -> RequestState]

Init ==
    /\ pool = "open"
    /\ permits = Limit
    /\ waiters = <<>>
    /\ phase = [j \in Job |-> "none"]
    /\ status = [j \in Job |-> "none"]
    /\ cancelling = {}
    /\ stage = [j \in Job |-> "lookup"]
    /\ ran = [j \in Job |-> 0]
    /\ events = [j \in Job |-> <<>>]
    /\ saved = {}
    /\ flagged = {}
    /\ request = [c \in Client |-> "idle"]

-----------------------------------------------------------------------------
(* asyncio.Semaphore.  A release hands its permit to the first pending      *)
(* waiter at once; the waiter stays in the deque until its task resumes,    *)
(* and until then nobody can overtake it, even when permits are left.       *)

Locked == permits = 0 \/ \E j \in Job : phase[j] \in {"waiting", "granted"}

SmallerOf(a, b) == IF a < b THEN a ELSE b

\* Job j moves to phase p, and n pending waiters are woken.
MoveAndWake(j, p, n) ==
    /\ waiters' = SubSeq(waiters, n + 1, Len(waiters))
    /\ phase' = [k \in Job |->
                    IF k = j THEN p
                    ELSE IF \E i \in 1..n : waiters[i] = k THEN "granted"
                    ELSE phase[k]]

\* Mutant: the freed permit is put back without waking anybody.
ReleaseSilent(j) ==
    /\ permits' = permits + 1
    /\ MoveAndWake(j, "done", 0)

\* Semaphore.release() by job j: one permit back, one waiter woken.
Release(j) ==
    LET n == SmallerOf(1, Len(waiters)) IN
    /\ permits' = permits + 1 - n
    /\ MoveAndWake(j, "done", n)

\* The end of Semaphore.acquire() after a wait: "wake up as many as are
\* allowed" out of `value` permits.
LeaveAcquire(j, p, value) ==
    LET n == SmallerOf(value, Len(waiters)) IN
    /\ permits' = value - n
    /\ MoveAndWake(j, p, n)

-----------------------------------------------------------------------------
(* The HTTP side. *)

\* Mutant: the depth is not checked.
AdmitAlways(c) ==
    /\ request[c] = "idle"
    /\ request' = [request EXCEPT ![c] = "admitted"]
    /\ UNCHANGED <<pool, semVars, phase, status, cancelling, runVars, flagged>>

\* BackpressureMiddleware.dispatch lets the request through; in front of a longer
\* queue it answers 429, which changes nothing.
Admit(c) ==
    /\ request[c] = "idle"
    /\ QueueSize <= MaxDepth
    /\ request' = [request EXCEPT ![c] = "admitted"]
    /\ UNCHANGED <<pool, semVars, phase, status, cancelling, runVars, flagged>>

\* start_replay finds no recording: 404.
UnknownRecording(c) ==
    /\ request[c] = "admitted"
    /\ request' = [request EXCEPT ![c] = "idle"]
    /\ UNCHANGED <<pool, semVars, phase, status, cancelling, runVars, flagged>>

\* uuid4(): some id that no job has; which one makes no difference.
FreshJob == CHOOSE j \in Job : phase[j] = "none"

\* enqueue_job on an open pool: a fresh job, its task created but not started.
EnqueueJob(c, j) ==
    /\ request[c] = "admitted"
    /\ pool = "open"
    /\ phase[j] = "none"
    /\ j = FreshJob
    /\ phase' = [phase EXCEPT ![j] = "created"]
    /\ status' = [status EXCEPT ![j] = "queued"]
    /\ request' = [request EXCEPT ![c] = "idle"]
    /\ UNCHANGED <<pool, semVars, cancelling, runVars, flagged>>

\* enqueue_job raises once the pool is closed: 500.
EnqueueRefused(c) ==
    /\ request[c] = "admitted"
    /\ pool # "open"
    /\ request' = [request EXCEPT ![c] = "idle"]
    /\ UNCHANGED <<pool, semVars, phase, status, cancelling, runVars, flagged>>

\* cancel(run_id): sets the Redis flag and the local event, nothing else.
Cancel(j) ==
    /\ j \in Created
    /\ j \notin flagged
    /\ Cardinality(flagged) < MaxCancels
    /\ flagged' = flagged \union {j}
    /\ UNCHANGED <<pool, semVars, phase, status, cancelling, runVars, request>>

-----------------------------------------------------------------------------
(* The task of a job: _run_one around run_replay. *)

\* A task resumes normally only while no CancelledError is due.
Resumes(j, p) == phase[j] = p /\ j \notin cancelling

\* First step of the coroutine: `async with sem` takes a permit at once ...
StartNow(j) ==
    /\ Resumes(j, "created")
    /\ ~Locked
    /\ permits' = permits - 1
    /\ phase' = [phase EXCEPT ![j] = "handling"]
    /\ status' = [status EXCEPT ![j] = "in_progress"]
    /\ UNCHANGED <<pool, waiters, cancelling, runVars, flagged, request>>

\* ... or queues up behind the others.
StartWaiting(j) ==
    /\ Resumes(j, "created")
    /\ Locked
    /\ waiters' = Append(waiters, j)
    /\ phase' = [phase EXCEPT ![j] = "waiting"]
    /\ UNCHANGED <<pool, permits, status, cancelling, runVars, flagged, request>>

\* A woken waiter resumes, passes on permits that are left, and calls the handler.
ResumeGranted(j) ==
    /\ Resumes(j, "granted")
    /\ LeaveAcquire(j, "handling", permits)
    /\ status' = [status EXCEPT ![j] = "in_progress"]
    /\ UNCHANGED <<pool, cancelling, runVars, flagged, request>>

Handling(j, s) == Resumes(j, "handling") /\ stage[j] = s

Emit(j, e) == events' = [events EXCEPT ![j] = Append(@, e)]

\* run_replay advances to stage s without leaving the handler.
Advance(j, s) ==
    /\ stage' = [stage EXCEPT ![j] = s]
    /\ UNCHANGED <<pool, semVars, phase, status, cancelling, flagged, request>>

\* Mutant: a missing recording is only logged.
MissingUnreported(j) ==
    /\ Handling(j, "lookup")
    /\ Advance(j, "missing")
    /\ UNCHANGED <<ran, events, saved>>

\* The recording was deleted after the request looked it up.
RecordingMissing(j) ==
    /\ Handling(j, "lookup")
    /\ Emit(j, "run_failed")
    /\ Advance(j, "missing")
    /\ UNCHANGED <<ran, saved>>

RecordingFound(j) ==
    /\ Handling(j, "lookup")
    /\ Advance(j, "browser")
    /\ UNCHANGED <<ran, events, saved>>

\* The browser is up; Executor.run announces the run.
RunStarted(j) ==
    /\ Handling(j, "browser")
    /\ Emit(j, "run_started")
    /\ Advance(j, "acting")
    /\ UNCHANGED <<ran, saved>>

\* One turn of Executor.run's loop.  The cancel event is not consulted.
ExecuteOne(j) ==
    /\ Handling(j, "acting")
    /\ ran[j] < NActions
    /\ ran' = [ran EXCEPT ![j] = @ + 1]
    /\ UNCHANGED <<pool, semVars, phase, status, cancelling, stage, events,
                   saved, flagged, request>>

\* The loop is over: run_finished goes out before anything is stored.
RunFinished(j) ==
    /\ Handling(j, "acting")
    /\ ran[j] = NActions
    /\ Emit(j, "run_finished")
    /\ Advance(j, "finished")
    /\ UNCHANGED <<ran, saved>>

\* Browser torn down, RunResultRepository.save committed.
SaveResult(j) ==
    /\ Handling(j, "finished")
    /\ saved' = saved \union {j}
    /\ Advance(j, "saved")
    /\ UNCHANGED <<ran, events>>

\* The handler returns, for a missing recording too: status "complete".
HandlerReturns(j) ==
    /\ Resumes(j, "handling")
    /\ stage[j] \in {"missing", "saved"}
    /\ status' = [status EXCEPT ![j] = "complete"]
    /\ Release(j)
    /\ UNCHANGED <<pool, cancelling, runVars, flagged, request>>

\* Lookup, browser, an action or the save raises: status "failed".
HandlerRaises(j) ==
    /\ Resumes(j, "handling")
    /\ stage[j] \in {"lookup", "browser", "acting", "finished"}
    /\ status' = [status EXCEPT ![j] = "failed"]
    /\ phase' = [phase EXCEPT ![j] = "failing"]
    /\ UNCHANGED <<pool, semVars, cancelling, runVars, flagged, request>>

\* The publish of run_failed or run_cancelled is over; the task ends.
ReportDone(j) ==
    /\ \/ Resumes(j, "failing") /\ Emit(j, "run_failed")
       \/ Resumes(j, "stopping") /\ Emit(j, "run_cancelled")
    /\ Release(j)
    /\ UNCHANGED <<pool, status, cancelling, stage, ran, saved, flagged, request>>

-----------------------------------------------------------------------------
(* close(), and the CancelledError that its timeout sends into every task. *)

\* close() with nothing in flight returns at once, else it waits for the tasks.
Close ==
    /\ pool = "open"
    /\ pool' = IF Live = {} THEN "closed" ELSE "draining"
    /\ UNCHANGED <<semVars, phase, status, cancelling, runVars, flagged, request>>

\* Mutant: close() cancels the tasks and returns without awaiting them.
GraceExpiresUnawaited ==
    /\ pool = "draining"
    /\ Live # {}
    /\ pool' = "closed"
    /\ cancelling' = Live
    /\ waiters' = <<>>
    /\ phase' = [j \in Job |-> IF phase[j] = "waiting" THEN "revoked" ELSE phase[j]]
    /\ UNCHANGED <<permits, status, runVars, flagged, request>>

\* shutdown_grace_s is over: gather cancels every unfinished task.  A pending
\* semaphore future is cancelled on the spot, everything else learns later.
GraceExpires ==
    /\ pool = "draining"
    /\ Live # {}
    /\ pool' = "cancelling"
    /\ cancelling' = Live
    /\ waiters' = <<>>
    /\ phase' = [j \in Job |-> IF phase[j] = "waiting" THEN "revoked" ELSE phase[j]]
    /\ UNCHANGED <<permits, status, runVars, flagged, request>>

\* Mutant: close() polls queue_size() instead of the tasks.
CloseReturnsOnEmpty ==
    /\ pool \in {"draining", "cancelling"}
    /\ QueueSize = 0
    /\ pool' = "closed"
    /\ UNCHANGED <<semVars, phase, status, cancelling, runVars, flagged, request>>

\* gather returns once all of its tasks have ended.
CloseReturns ==
    /\ pool \in {"draining", "cancelling"}
    /\ Live = {}
    /\ pool' = "closed"
    /\ UNCHANGED <<semVars, phase, status, cancelling, runVars, flagged, request>>

Delivered(j) == j \in cancelling /\ cancelling' = cancelling \ {j}

\* CancelledError before the first step of the coroutine or inside
\* sem.acquire(): outside the inner try, so the status stays "queued".
CancelUnstarted(j) ==
    /\ Delivered(j)
    /\ phase[j] \in {"created", "revoked"}
    /\ phase' = [phase EXCEPT ![j] = "done"]
    /\ UNCHANGED <<pool, semVars, status, runVars, flagged, request>>

\* Mutant: the permit of a resolved future is forgotten.
CancelGrantedLeaks(j) ==
    /\ Delivered(j)
    /\ phase[j] = "granted"
    /\ LeaveAcquire(j, "done", permits)
    /\ UNCHANGED <<pool, status, runVars, flagged, request>>

\* The same after the future was resolved: the permit goes back.
CancelGranted(j) ==
    /\ Delivered(j)
    /\ phase[j] = "granted"
    /\ LeaveAcquire(j, "done", permits + 1)
    /\ UNCHANGED <<pool, status, runVars, flagged, request>>

\* CancelledError inside the handler.  Cancelling the await of the commit does
\* not take the commit back, so the row may be there or not.
CancelHandler(j) ==
    /\ Delivered(j)
    /\ phase[j] = "handling"
    /\ phase' = [phase EXCEPT ![j] = "stopping"]
    /\ status' = [status EXCEPT ![j] = "cancelled"]
    /\ \/ UNCHANGED saved
       \/ stage[j] = "finished" /\ saved' = saved \union {j}
    /\ UNCHANGED <<pool, semVars, stage, ran, events, flagged, request>>

\* Mutant: a cancellation during the report overwrites the status.
CancelReportOverwrites(j) ==
    /\ Delivered(j)
    /\ phase[j] = "failing"
    /\ status' = [status EXCEPT ![j] = "cancelled"]
    /\ UNCHANGED events \/ Emit(j, "run_failed")
    /\ Release(j)
    /\ UNCHANGED <<pool, stage, ran, saved, flagged, request>>

\* CancelledError while run_failed is being published: `suppress(Exception)`
\* lets it through, and the event is out or not.
CancelReport(j) ==
    /\ Delivered(j)
    /\ phase[j] = "failing"
    /\ UNCHANGED events \/ Emit(j, "run_failed")
    /\ Release(j)
    /\ UNCHANGED <<pool, status, stage, ran, saved, flagged, request>>

-----------------------------------------------------------------------------
TaskStep(j) ==
    \/ StartNow(j) \/ StartWaiting(j) \/ ResumeGranted(j)
    \/ RecordingMissing(j) \/ RecordingFound(j) \/ RunStarted(j)
    \/ ExecuteOne(j) \/ RunFinished(j) \/ SaveResult(j)
    \/ HandlerReturns(j) \/ HandlerRaises(j) \/ ReportDone(j)
    \/ CancelUnstarted(j) \/ CancelGranted(j) \/ CancelHandler(j) \/ CancelReport(j)

RequestStep(c) ==
    \/ Admit(c) \/ UnknownRecording(c) \/ EnqueueRefused(c)
    \/ \E j \in Job : EnqueueJob(c, j)

Next ==
    \/ \E c \in Client : RequestStep(c)
    \/ \E j \in Job : TaskStep(j) \/ Cancel(j)
    \/ Close \/ GraceExpires \/ CloseReturns

Spec == Init /\ [][Next]_vars

\* The event loop runs every ready task, and no await of the handler is
\* endless: Playwright calls and recovery strategies carry timeouts.
FairSpec ==
    /\ Spec
    /\ \A j \in Job : WF_vars(TaskStep(j))
    /\ WF_vars(CloseReturns)

-----------------------------------------------------------------------------
(* Properties. *)

\* No permit is lost or created on any path through _run_one, cancellation in
\* every phase included: those left and those held add up to the queue's limit.
PermitsConserved == permits + Cardinality(Holders) = Limit

\* At most `Limit` replays (browsers) run at once.
ConcurrencyBound ==
    Cardinality({j \in Job : status[j] = "in_progress"}) <= Limit

\* A permit is idle while jobs wait only for the moment until a woken task,
\* which will pass it on, resumes: no wakeup is lost.
NoLostWakeup ==
    waiters # <<>> /\ permits > 0 => \E j \in Job : phase[j] = "granted"

\* The middleware checks the depth before the route enqueues, so concurrent
\* requests overshoot max_queue_depth, but by no more than one job per client.
DepthBound ==
    QueueSize + Cardinality({c \in Client : request[c] = "admitted"})
        <= MaxDepth + Cardinality(Client)

EventSet(j) == {events[j][i] : i \in 1..Len(events[j])}
LastEvent(j) == IF events[j] = <<>> THEN "nothing" ELSE events[j][Len(events[j])]

\* What a subscriber saw last, the job's status and the stored run agree once
\* the task is over, and a run is stored only after all its actions ran and
\* run_finished was announced.  A job cancelled before it started stays silent.
OutcomeAgrees(j) ==
    /\ j \in saved => ran[j] = NActions /\ "run_finished" \in EventSet(j)
    /\ phase[j] = "done" =>
          CASE status[j] = "complete" ->
                  LastEvent(j) = IF j \in saved THEN "run_finished" ELSE "run_failed"
            [] status[j] = "failed" ->
                  /\ j \notin saved
                  /\ pool \in {"open", "draining"} => LastEvent(j) = "run_failed"
            [] status[j] = "cancelled" -> LastEvent(j) = "run_cancelled"
            [] OTHER -> status[j] = "queued" /\ events[j] = <<>> /\ j \notin saved

\* This is so for every job, wherever its task is.
OutcomeConsistent == \A j \in Job : OutcomeAgrees(j)

\* A job's status only moves forward; a final status is final.
StatusForward ==
    [][\A j \in Job : status'[j] # status[j] =>
            \/ status[j] = "none" /\ status'[j] = "queued"
            \/ status[j] = "queued" /\ status'[j] = "in_progress"
            \/ status[j] = "in_progress" /\ status'[j] \in Terminal]_vars

\* After close() has returned (the lifespan then closes Redis and disposes the
\* engine) no task publishes, stores or holds a browser any more.
QuietAfterClose ==
    [][pool = "closed" => Holders = {} /\ UNCHANGED <<events, saved, ran>>]_vars

\* Every accepted job ends.
EveryJobEnds == \A j \in Job : phase[j] = "created" ~> phase[j] = "done"

\* close() returns.
CloseCompletes == pool = "draining" ~> pool = "closed"

\* The tasks that close() cancels are drained like the others.
Gate == IF pool = "cancelling" THEN "draining" ELSE pool

Life == INSTANCE JobLife WITH life <- status, gate <- Gate

\* The pool, with its semaphore, its tasks and its two-stage shutdown, does what
\* JobLife says: every job queued once, run within the limit and ended once, no
\* job taken after close() was called, none moved after it has returned.
ImplementsJobLife == Life!Spec

-----------------------------------------------------------------------------
(* The inductive invariant behind the theorems of JobPoolProofs.            *)

\* The deque holds exactly the jobs that wait, each once.
WaitersOK ==
    /\ \A i \in 1..Len(waiters) : phase[waiters[i]] = "waiting"
    /\ \A i, k \in 1..Len(waiters) : waiters[i] = waiters[k] => i = k
    /\ \A j \in Job : phase[j] = "waiting" => \E i \in 1..Len(waiters) : waiters[i] = j

\* _jobs and the tasks come into being together, a job is queued until its task
\* is past the semaphore, and in progress exactly while its handler runs.
StatusOK ==
    \A j \in Job :
        /\ phase[j] = "none" <=> status[j] = "none"
        /\ phase[j] \in {"created", "waiting", "revoked", "granted"} => status[j] = "queued"
        /\ phase[j] = "handling" <=> status[j] = "in_progress"

\* close() returns when, and only when, no task is left.
ClosedOK == pool = "closed" => Live = {}

\* TypeOK, the agreement of deque, phases and statuses, and the three bounds.
PoolInv ==
    /\ TypeOK
    /\ WaitersOK
    /\ StatusOK
    /\ PermitsConserved
    /\ NoLostWakeup
    /\ DepthBound
    /\ ClosedOK

\* How far the run of a job has come tells what was published and stored of it:
\* nothing before it has started, run_failed for a missing recording, and
\* run_finished, after the last action, before the row.
OutcomeOf(j) ==
    /\ phase[j] \in {"none", "created", "waiting", "revoked", "granted"} =>
            stage[j] = "lookup" /\ j \notin saved
    /\ phase[j] # "done" =>
            /\ stage[j] \in {"lookup", "browser"} => events[j] = <<>>
            /\ stage[j] = "missing" => LastEvent(j) = "run_failed"
            /\ stage[j] \in {"finished", "saved"} =>
                    LastEvent(j) = "run_finished" /\ ran[j] = NActions
    /\ phase[j] = "handling" => (j \in saved <=> stage[j] = "saved")
    /\ phase[j] = "failing" => status[j] = "failed" /\ j \notin saved
    /\ phase[j] = "stopping" => status[j] = "cancelled"

\* Only close() cancels a task, and that makes OutcomeConsistent inductive.
OutcomeInv ==
    /\ cancelling # {} => pool \in {"cancelling", "closed"}
    /\ \A j \in Job : OutcomeOf(j)
    /\ OutcomeConsistent
=============================================================================
