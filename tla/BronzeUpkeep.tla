------------------------------ MODULE BronzeUpkeep ----------------------------
(***************************************************************************)
(* What the workers do with the bronze tier of one recording: compaction of *)
(* raw_events.jsonl to raw_events.parquet (medallion/compact.py) and        *)
(* retention (medallion/retention.py), each from a cron job or from the     *)
(* command line, several at a time, while the recorder still appends.       *)
(*                                                                          *)
(* A line of the log is an envelope or garbled.  A Parquet file is the      *)
(* number of lines of the log it was made from.  A job works in one         *)
(* database transaction: its changes are in writes until it commits, files  *)
(* change at once.  SQLite admits one writing transaction at a time.        *)
(***************************************************************************)
EXTENDS Naturals, Sequences, FiniteSets

CONSTANTS
    Compactors, Pruners,  \* jobs that can run at the same time
    MaxLogged,            \* bound: lines of the log
    MaxAges,              \* bound: times that rows outlive their windows
    MaxFaults             \* bound: crashes and failed deletions

ASSUME UpkeepAssumption ==
    /\ MaxLogged \in Nat /\ MaxAges \in Nat /\ MaxFaults \in Nat
    /\ IsFiniteSet(Compactors) /\ IsFiniteSet(Pruners)
    /\ Compactors \intersect Pruners = {}

VARIABLES
    log,        \* raw_events.jsonl
    parquet,    \* lines that raw_events.parquet was made from, 0: no file
    rows,       \* committed rows of bronze_artifacts
    expired,    \* rows that are older than the window of their kind
    place,      \* where each job is
    seen,       \* lines of the log that it has read
    todo,       \* rows that a retention pass has still to look at
    writes,     \* what its transaction has written
    ages,       \* times that rows have expired
    faults      \* crashes and failed deletions so far

table == <<rows, expired, ages>>
upkeepVars == <<log, parquet, rows, expired, place, seen, todo, writes, ages, faults>>

-----------------------------------------------------------------------------
Workers == Compactors \union Pruners
LogLine == {"envelope", "garbled"}
Row == [id : Nat, kind : {"event_jsonl", "event_parquet"}]
NoWrites == [add |-> {}, del |-> {}]

\* _windows_from_config: the kinds that have a window.  The rows of a log are of
\* another kind, event_jsonl, and without a window rows stay.
Windowed == {"raw_events_jsonl", "event_parquet"}

UpkeepTypeOK ==
    /\ log \in Seq(LogLine)
    /\ parquet \in 0..Len(log)
    /\ rows \in SUBSET Row
    /\ \A r, s \in rows : r.id = s.id => r = s
    /\ expired \in SUBSET Nat
    /\ place \in [Workers -> {"idle", "read", "listed", "checked", "written", "registered",
                             "pruning", "unlinked", "doomed"}]
    /\ seen \in [Workers -> 0..Len(log)]
    /\ todo \in [Workers -> SUBSET Row]
    /\ writes \in [Workers -> [add : SUBSET Row, del : SUBSET Nat]]
    /\ \A j, k \in Workers : writes[j] # NoWrites /\ writes[k] # NoWrites => j = k
    /\ ages \in 0..MaxAges
    /\ faults \in 0..MaxFaults

UpkeepInit ==
    /\ log = <<>>
    /\ parquet = 0
    /\ rows = {}
    /\ expired = {}
    /\ place = [j \in Workers |-> "idle"]
    /\ seen = [j \in Workers |-> 0]
    /\ todo = [j \in Workers |-> {}]
    /\ writes = [j \in Workers |-> NoWrites]
    /\ ages = 0
    /\ faults = 0

GoTo(j, p) == place' = [place EXCEPT ![j] = p]
Leave(j) == GoTo(j, "idle") /\ seen' = [seen EXCEPT ![j] = 0]

\* A flush needs the write lock of the database.
CanWrite(j) == \A k \in Workers \ {j} : writes[k] = NoWrites

\* A uuid: no row that anybody still knows has it.
FreshId == LET known == rows \union UNION {writes[j].add \union todo[j] : j \in Workers}
           IN CHOOSE i \in 1..(Cardinality(known) + 1) :
                  /\ \A r \in known : r.id # i
                  /\ \A k \in 1..(i - 1) : \E r \in known : r.id = k

\* The end of get_session's block.
CommitSession(j) ==
    /\ expired' = expired \ writes[j].del
    /\ rows' = {r \in rows \union writes[j].add : r.id \notin writes[j].del}
    /\ writes' = [writes EXCEPT ![j] = NoWrites]
    /\ Leave(j)

-----------------------------------------------------------------------------
(* The recorder, and time *)

\* append_events; with the first line the log is registered.
AppendEnvelope(l) ==
    /\ Len(log) < MaxLogged
    /\ \A j \in Workers : writes[j] = NoWrites
    /\ log' = Append(log, l)
    /\ rows' = rows \union
          (IF log = <<>> THEN {[id |-> FreshId, kind |-> "event_jsonl"]} ELSE {})
    /\ UNCHANGED <<parquet, expired, ages, place, seen, todo, writes, faults>>

\* Time passes: some rows outlive the windows of their kinds.
Age ==
    /\ ages < MaxAges
    /\ ages' = ages + 1
    /\ \E R \in (SUBSET rows) \ {{}} : expired' = expired \union {r.id : r \in R}
    /\ UNCHANGED <<log, parquet, rows, place, seen, todo, writes, faults>>

-----------------------------------------------------------------------------
(* compact_recording_jsonl_to_parquet *)

\* The lines among the first n that are JSON objects.
Envelopes(n) == {i \in 1..n : log[i] # "garbled"}

\* store.get and the parsing; without envelopes there is nothing to do.
ReadLog(j) ==
    /\ place[j] = "idle"
    /\ Envelopes(Len(log)) # {}
    /\ seen' = [seen EXCEPT ![j] = Len(log)]
    /\ GoTo(j, "read")
    /\ UNCHANGED <<log, table, parquet, todo, writes, faults>>

\* list_for_recording, and whether the file is there.
CheckExisting(j) ==
    /\ place[j] = "read"
    /\ GoTo(j, IF parquet # 0 /\ \E r \in rows : r.kind = "event_parquet"
               THEN "listed" ELSE "checked")
    /\ UNCHANGED <<log, table, parquet, seen, todo, writes, faults>>

\* Mutant: a file that can be read is taken to be complete.
UpToDateIfReadable(j) == parquet # 0

\* The file can still be read and has as many rows as the log envelopes.
UpToDate(j) ==
    /\ parquet # 0
    /\ Cardinality(Envelopes(parquet)) = Cardinality(Envelopes(seen[j]))

\* pq.read_table; there may be nothing to do.
CompareExisting(j) ==
    /\ place[j] = "listed"
    /\ IF UpToDate(j) THEN Leave(j) ELSE GoTo(j, "checked") /\ UNCHANGED seen
    /\ UNCHANGED <<log, table, parquet, todo, writes, faults>>

\* _write_parquet_sync: a temporary file of its own, then a rename.
WriteParquet(j) ==
    /\ place[j] = "checked"
    /\ parquet' = seen[j]
    /\ seen' = [seen EXCEPT ![j] = 0]
    /\ GoTo(j, "written")
    /\ UNCHANGED <<log, table, todo, writes, faults>>

\* repo.add
Register(j) ==
    /\ place[j] = "written"
    /\ CanWrite(j)
    /\ writes' = [writes EXCEPT ![j].add = {[id |-> FreshId, kind |-> "event_parquet"]}]
    /\ GoTo(j, "registered")
    /\ UNCHANGED <<log, table, parquet, seen, todo, faults>>

CommitRegistered(j) ==
    /\ place[j] = "registered"
    /\ CommitSession(j)
    /\ UNCHANGED <<log, parquet, ages, todo, faults>>

Compact(j) ==
    \/ ReadLog(j) \/ CheckExisting(j) \/ CompareExisting(j)
    \/ WriteParquet(j) \/ Register(j) \/ CommitRegistered(j)

-----------------------------------------------------------------------------
(* enforce_retention *)

\* Mutant: the cutoff is not looked at.
DueAlways == {r \in rows : r.kind \in Windowed}

\* The rows that are older than the window of their kind.
Due == {r \in rows : r.kind \in Windowed /\ r.id \in expired}

\* list_all, and the cutoff.
ListDue(j) ==
    /\ place[j] = "idle"
    /\ Due # {}
    /\ todo' = [todo EXCEPT ![j] = Due]
    /\ GoTo(j, "pruning")
    /\ UNCHANGED <<log, table, parquet, seen, writes, faults>>

\* Oldest first.
NextDue(j) == CHOOSE r \in todo[j] : \A s \in todo[j] : r.id <= s.id

\* store.delete of what the row points at.
Unlink(j) ==
    /\ place[j] = "pruning"
    /\ todo[j] # {}
    /\ parquet' = 0
    /\ GoTo(j, "unlinked")
    /\ UNCHANGED <<log, table, seen, todo, writes, faults>>

\* repo.delete_by_id
DeleteRow(j) ==
    /\ place[j] = "unlinked"
    /\ CanWrite(j)
    /\ writes' = [writes EXCEPT ![j].del = @ \union {NextDue(j).id}]
    /\ todo' = [todo EXCEPT ![j] = @ \ {NextDue(j)}]
    /\ GoTo(j, "pruning")
    /\ UNCHANGED <<log, table, parquet, seen, faults>>

\* OSError: the row is reported and stays.
FailToUnlink(j) ==
    /\ faults < MaxFaults
    /\ place[j] = "pruning"
    /\ todo[j] # {}
    /\ faults' = faults + 1
    /\ todo' = [todo EXCEPT ![j] = @ \ {NextDue(j)}]
    /\ UNCHANGED <<log, table, parquet, place, seen, writes>>

\* A flush that fails rolls the transaction back.  The pass goes on, deletes the
\* other files and none of their rows.
FailToDeleteRow(j) ==
    /\ faults < MaxFaults
    /\ place[j] = "unlinked"
    /\ faults' = faults + 1
    /\ todo' = [todo EXCEPT ![j] = @ \ {NextDue(j)}]
    /\ writes' = [writes EXCEPT ![j] = NoWrites]
    /\ GoTo(j, "doomed")
    /\ UNCHANGED <<log, table, parquet, seen>>

UnlinkDoomed(j) ==
    /\ place[j] = "doomed"
    /\ todo[j] # {}
    /\ parquet' = 0
    /\ todo' = [todo EXCEPT ![j] = @ \ {NextDue(j)}]
    /\ UNCHANGED <<log, table, place, seen, writes, faults>>

\* The commit raises.
EndDoomed(j) ==
    /\ place[j] = "doomed"
    /\ todo[j] = {}
    /\ Leave(j)
    /\ UNCHANGED <<log, table, parquet, todo, writes, faults>>

\* Mutant: the session of the pass is closed without a commit.
CommitPrunedNot(j) ==
    /\ place[j] = "pruning"
    /\ todo[j] = {}
    /\ writes' = [writes EXCEPT ![j] = NoWrites]
    /\ Leave(j)
    /\ UNCHANGED <<log, table, parquet, todo, faults>>

CommitPruned(j) ==
    /\ place[j] = "pruning"
    /\ todo[j] = {}
    /\ CommitSession(j)
    /\ UNCHANGED <<log, parquet, ages, todo, faults>>

Prune(j) ==
    \/ ListDue(j) \/ Unlink(j) \/ DeleteRow(j) \/ CommitPruned(j)
    \/ UnlinkDoomed(j) \/ EndDoomed(j)

-----------------------------------------------------------------------------
\* A job raises or its worker dies: the transaction is rolled back, files stay.
AbortJob(j) ==
    /\ faults < MaxFaults
    /\ place[j] # "idle"
    /\ faults' = faults + 1
    /\ writes' = [writes EXCEPT ![j] = NoWrites]
    /\ todo' = [todo EXCEPT ![j] = {}]
    /\ Leave(j)
    /\ UNCHANGED <<log, table, parquet>>

UpkeepNext ==
    \/ \E l \in LogLine : AppendEnvelope(l)
    \/ Age
    \/ \E j \in Compactors : Compact(j)
    \/ \E j \in Pruners : Prune(j) \/ FailToUnlink(j) \/ FailToDeleteRow(j)
    \/ \E j \in Workers : AbortJob(j)

UpkeepSpec == UpkeepInit /\ [][UpkeepNext]_upkeepVars

\* Cron starts every job again and again.
FairUpkeepSpec ==
    /\ UpkeepSpec
    /\ \A j \in Compactors : WF_upkeepVars(Compact(j))
    /\ \A j \in Pruners : WF_upkeepVars(Prune(j))

-----------------------------------------------------------------------------
(* Properties. *)

\* The Parquet file has what the log has, and a row points at it.
Compacted ==
    /\ Envelopes(parquet) = Envelopes(Len(log))
    /\ \E r \in rows : r.kind = "event_parquet"

\* Compaction catches up: whatever compactions that overtake each other, pruning
\* that deletes the file under a row that stays, and crashes between the file
\* and its row have left behind, the passes that follow put it right.
EventuallyCompacted == <>[](Envelopes(Len(log)) # {} => Compacted)

\* Retention deletes a row only if it has expired, although the pass works from a
\* list while rows are added, other passes delete and its own transaction may be
\* rolled back and tried again.
OnlyExpiredGo == [][\A r \in rows \ rows' : r.id \in expired]_upkeepVars

\* A Parquet file that has outlived its window goes, its row with it, whatever
\* fails to be deleted, dies or holds the database first, and although compaction
\* registers new rows.
ParquetExpires ==
    []<>(\A r \in rows : r.id \in expired => r.kind # "event_parquet")

-----------------------------------------------------------------------------
(* The inductive invariant that OnlyExpiredGo follows from. *)

\* Only finitely many rows are known at a time, so that there is a fresh id.
FiniteOK ==
    /\ IsFiniteSet(rows)
    /\ \A j \in Workers : IsFiniteSet(writes[j].add) /\ IsFiniteSet(todo[j])

\* Whatever row has one of these ids may go.
Prunable(ids) == \A r \in rows : r.id \in ids => r.id \in expired

\* What a pass deletes or has still to look at may go, and what another job adds
\* is neither that nor a row already.
PruneOK(j) ==
    /\ Prunable(writes[j].del)
    /\ Prunable({s.id : s \in todo[j]})
    /\ place[j] = "unlinked" => todo[j] # {}
    /\ \A r, s \in writes[j].add : r.id = s.id => r = s
    /\ \A k \in Workers : \A r \in writes[k].add : \A s \in rows \union todo[j] : r.id # s.id

UpkeepInv ==
    /\ UpkeepTypeOK
    /\ FiniteOK
    /\ \A j \in Workers : PruneOK(j)

=============================================================================
