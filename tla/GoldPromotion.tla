---------------------------- MODULE GoldPromotion ----------------------------
(***************************************************************************)
(* The silver -> gold job (workers/jobs/medallion.py) and the cold tables   *)
(* it writes (medallion/gold_cold.py): a Redis `SET NX EX` lock around a    *)
(* hot recompute and a TaskGroup of table writers, each of which reads      *)
(* silver and hands the write to a thread.                                  *)
(*                                                                          *)
(* Silver is a version number; a table is the version it was computed from. *)
(* The stored lock value is never read back, so `lock` names the job that   *)
(* set it.  The TTL (600 s) is shorter than the job timeout (1800 s), hence *)
(* the lock may expire at any point of a job.                               *)
(***************************************************************************)
EXTENDS Naturals, FiniteSets

CONSTANTS
    Job,         \* executions of promote_silver_to_gold, cron, on demand or retried
    Table,       \* cold tables
    None,        \* the lock key does not exist
    MaxVersion,  \* bound: changes of silver
    MaxExpiries, \* bound: how often the lock expires under a running job
    MaxAborts    \* bound: task failures and job timeouts

ASSUME GoldAssumption ==
    /\ IsFiniteSet(Job)
    /\ None \notin Job
    /\ MaxVersion \in Nat
    /\ MaxExpiries \in Nat
    /\ MaxAborts \in Nat

VARIABLES
    silver,     \* version of the silver tables
    lock,       \* the job that set lock:gold_promote, or None
    pc,         \* where a job is
    task,       \* the TaskGroup's task for each job and table
    thread,     \* version that the to_thread call of a task is writing, 0 if none
    gold,       \* version of each table on disk
    expiries,   \* history: locks that expired while their job ran
    aborts      \* history: failures and timeouts

vars == <<silver, lock, pc, task, thread, gold, expiries, aborts>>

-----------------------------------------------------------------------------
PC == {"idle", "hot", "cold", "releasing", "done", "skipped", "crashed"}

\* Jobs between SET and DELETE.
Active == {j \in Job : pc[j] \in {"hot", "cold", "releasing"}}

TypeOK ==
    /\ silver \in 1..(MaxVersion + 1)
    /\ lock \in Job \union {None}
    /\ pc \in [Job -> PC]
    /\ task \in [Job -> [Table -> {"none", "reading", "writing", "ended"}]]
    /\ thread \in [Job -> [Table -> 0..(MaxVersion + 1)]]
    /\ gold \in [Table -> 0..(MaxVersion + 1)]
    /\ expiries \in 0..MaxExpiries
    /\ aborts \in 0..MaxAborts

Init ==
    /\ silver = 1
    /\ lock = None
    /\ pc = [j \in Job |-> "idle"]
    /\ task = [j \in Job |-> [t \in Table |-> "none"]]
    /\ thread = [j \in Job |-> [t \in Table |-> 0]]
    /\ gold = [t \in Table |-> 0]
    /\ expiries = 0
    /\ aborts = 0

Goto(j, p) == pc' = [pc EXCEPT ![j] = p]

-----------------------------------------------------------------------------
\* A confirmation, a classification or an LLM call changes silver.
SilverChanges ==
    /\ silver <= MaxVersion
    /\ silver' = silver + 1
    /\ UNCHANGED <<lock, pc, task, thread, gold, expiries, aborts>>

\* Mutant: SET without NX.
AcquireAnyway(j) ==
    /\ pc[j] = "idle"
    /\ lock' = j
    /\ Goto(j, "hot")
    /\ UNCHANGED <<silver, task, thread, gold, expiries, aborts>>

\* SET NX EX succeeds.
Acquire(j) ==
    /\ pc[j] = "idle"
    /\ lock = None
    /\ lock' = j
    /\ Goto(j, "hot")
    /\ UNCHANGED <<silver, task, thread, gold, expiries, aborts>>

\* The lock is held: the job is skipped, not queued.
SkipLocked(j) ==
    /\ pc[j] = "idle"
    /\ lock # None
    /\ Goto(j, "skipped")
    /\ UNCHANGED <<silver, lock, task, thread, gold, expiries, aborts>>

\* Hot gold is committed; the TaskGroup starts one task per table.
HotDone(j) ==
    /\ pc[j] = "hot"
    /\ Goto(j, "cold")
    /\ task' = [task EXCEPT ![j] = [t \in Table |-> "reading"]]
    /\ UNCHANGED <<silver, lock, thread, gold, expiries, aborts>>

\* A task has read silver and starts the thread that writes the table.
ReadSilver(j, t) ==
    /\ task[j][t] = "reading"
    /\ task' = [task EXCEPT ![j][t] = "writing"]
    /\ thread' = [thread EXCEPT ![j][t] = silver]
    /\ UNCHANGED <<silver, lock, pc, gold, expiries, aborts>>

\* The thread renames its file over the table, whether or not somebody awaits it.
WriteDone(j, t) ==
    /\ thread[j][t] # 0
    /\ gold' = [gold EXCEPT ![t] = thread[j][t]]
    /\ thread' = [thread EXCEPT ![j][t] = 0]
    /\ task' = [task EXCEPT ![j][t] = "ended"]
    /\ UNCHANGED <<silver, lock, pc, expiries, aborts>>

CancelTasks(j) == task' = [task EXCEPT ![j] = [t \in Table |-> "ended"]]

\* A task raises while reading: the TaskGroup cancels the other ones, which ends
\* their awaits but not their threads.
ReadFails(j, t) ==
    /\ aborts < MaxAborts
    /\ aborts' = aborts + 1
    /\ task[j][t] = "reading"
    /\ CancelTasks(j)
    /\ UNCHANGED <<silver, lock, pc, thread, gold, expiries>>

\* The same when the write itself raises: its temporary file is removed.
WriteFails(j, t) ==
    /\ aborts < MaxAborts
    /\ aborts' = aborts + 1
    /\ thread[j][t] # 0
    /\ thread' = [thread EXCEPT ![j][t] = 0]
    /\ CancelTasks(j)
    /\ UNCHANGED <<silver, lock, pc, gold, expiries>>

\* The TaskGroup is over; its errors are logged.
ColdDone(j) ==
    /\ pc[j] = "cold"
    /\ \A t \in Table : task[j][t] = "ended"
    /\ Goto(j, "releasing")
    /\ UNCHANGED <<silver, lock, task, thread, gold, expiries, aborts>>

\* The hot recompute raises, or the job is cancelled (timeout, shutdown).
Abort(j) ==
    /\ aborts < MaxAborts
    /\ aborts' = aborts + 1
    /\ pc[j] \in {"hot", "cold"}
    /\ CancelTasks(j)
    /\ Goto(j, "releasing")
    /\ UNCHANGED <<silver, lock, thread, gold, expiries>>

\* finally: DELETE, whoever has set the key ...
Release(j) ==
    /\ pc[j] = "releasing"
    /\ lock' = None
    /\ Goto(j, "done")
    /\ UNCHANGED <<silver, task, thread, gold, expiries, aborts>>

\* ... unless Redis fails, which is logged.
ReleaseFails(j) ==
    /\ pc[j] = "releasing"
    /\ Goto(j, "done")
    /\ UNCHANGED <<silver, lock, task, thread, gold, expiries, aborts>>

\* The worker process dies, its threads with it.
Crash(j) ==
    /\ j \in Active
    /\ Goto(j, "crashed")
    /\ task' = [task EXCEPT ![j] = [t \in Table |-> "ended"]]
    /\ thread' = [thread EXCEPT ![j] = [t \in Table |-> 0]]
    /\ UNCHANGED <<silver, lock, gold, expiries, aborts>>

\* The TTL ends under the job that set the key ...
ExpireUnderJob ==
    /\ lock \in Active
    /\ expiries < MaxExpiries
    /\ expiries' = expiries + 1
    /\ lock' = None
    /\ UNCHANGED <<silver, pc, task, thread, gold, aborts>>

\* Mutant: SET without EX.
ExpireNever ==
    /\ FALSE
    /\ UNCHANGED vars

\* ... or long after.
ExpireAbandoned ==
    /\ lock # None
    /\ lock \notin Active
    /\ lock' = None
    /\ UNCHANGED <<silver, pc, task, thread, gold, expiries, aborts>>

-----------------------------------------------------------------------------
JobStep(j) ==
    \/ HotDone(j) \/ ColdDone(j) \/ Release(j) \/ ReleaseFails(j)
    \/ \E t \in Table : ReadSilver(j, t) \/ WriteDone(j, t)

Next ==
    \/ SilverChanges \/ ExpireUnderJob \/ ExpireAbandoned
    \/ \E j \in Job :
          \/ JobStep(j) \/ Acquire(j) \/ SkipLocked(j) \/ Abort(j) \/ Crash(j)
          \/ \E t \in Table : ReadFails(j, t) \/ WriteFails(j, t)

Spec == Init /\ [][Next]_vars

\* A running job goes on unless it is aborted or crashes, and Redis expires keys.
FairSpec ==
    /\ Spec
    /\ \A j \in Job : WF_vars(JobStep(j))
    /\ WF_vars(ExpireAbandoned)

-----------------------------------------------------------------------------
(* Properties. *)

\* DELETE is unconditional, so one expiry lets a chain of jobs delete each
\* other's locks; yet there is never more than one job at work, plus one per lock
\* that expired under its job.
OverlapBounded == Cardinality(Active) <= 1 + expiries

\* Without an expiry or an abort a table is never overwritten with older data.
GoldForward ==
    [][expiries = 0 /\ aborts = 0 => \A t \in Table : gold'[t] >= gold[t]]_vars

\* Whatever happens to the job that holds it, the lock comes free.
LockComesFree == lock # None ~> lock = None

-----------------------------------------------------------------------------
\* The inductive invariant behind OverlapBounded: the key of a running job stands
\* for one running job; the others are paid for by expiries.
LockInv ==
    /\ lock \in Job \union {None}
    /\ pc \in [Job -> PC]
    /\ expiries \in Nat
    /\ Cardinality(Active) <= expiries + (IF lock \in Active THEN 1 ELSE 0)

\* The inductive invariant behind GoldForward.  Until something expires or fails a
\* thread is awaited by its task, in the one job at work, and what it writes is
\* no older than the table and no newer than silver.
ForwardInv ==
    /\ TypeOK
    /\ LockInv
    /\ \A t \in Table : gold[t] <= silver
    /\ expiries = 0 /\ aborts = 0 =>
          \A j \in Job, t \in Table :
              /\ pc[j] # "cold" => task[j][t] \in {"none", "ended"}
              /\ thread[j][t] # 0 => task[j][t] = "writing" /\ thread[j][t] >= gold[t]
    /\ \A j \in Job, t \in Table : thread[j][t] <= silver
=============================================================================
