------------------------------- MODULE JobLife -------------------------------
(***************************************************************************)
(* What a queue pool promises (QueuePool, queues/protocol.py): a job lives  *)
(* through a fixed sequence of states, a bounded number of jobs run at      *)
(* once, and a pool that is being closed takes no job and, once closed,     *)
(* moves none.  A job may stay queued for ever: close() drops it.           *)
(***************************************************************************)
EXTENDS Naturals, FiniteSets

CONSTANTS
    Job,
    Limit       \* most jobs that run at once

VARIABLES
    life,       \* life[j]: "none", "queued", "in_progress" or how it ended
    gate        \* "open", "draining" or "closed"

vars == <<life, gate>>

Running == {j \in Job : life[j] = "in_progress"}

Init ==
    /\ life = [j \in Job |-> "none"]
    /\ gate = "open"

Submit(j) ==
    /\ gate = "open"
    /\ life[j] = "none"
    /\ life' = [life EXCEPT ![j] = "queued"]
    /\ UNCHANGED gate

Start(j) ==
    /\ gate # "closed"
    /\ life[j] = "queued"
    /\ Cardinality(Running) < Limit
    /\ life' = [life EXCEPT ![j] = "in_progress"]
    /\ UNCHANGED gate

End(j, outcome) ==
    /\ gate # "closed"
    /\ life[j] = "in_progress"
    /\ life' = [life EXCEPT ![j] = outcome]
    /\ UNCHANGED gate

Seal ==
    /\ gate = "open"
    /\ gate' = "draining"
    /\ UNCHANGED life

\* With nothing to wait for, a pool closes without draining.
Shut ==
    /\ gate # "closed"
    /\ Running = {}
    /\ gate' = "closed"
    /\ UNCHANGED life

Next ==
    \/ \E j \in Job : Submit(j) \/ Start(j)
    \/ \E j \in Job, outcome \in {"complete", "failed", "cancelled"} : End(j, outcome)
    \/ Seal \/ Shut

Spec == Init /\ [][Next]_vars
=============================================================================
