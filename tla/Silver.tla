------------------------------- MODULE Silver --------------------------------
(***************************************************************************)
(* The two writers of the silver rows of one recording.  The one that wrote *)
(* the log saves the recording when it ends (rpa record or an ingestion     *)
(* session, RecordingRepository.save).  Promotions of the log               *)
(* (medallion/silver.py), from a worker or from the command line, resume at *)
(* the line whose index is the number of rows there are, and may run at any *)
(* time: while the log grows, while it is saved, or instead of the save, if *)
(* that failed or if the database was lost.                                 *)
(*                                                                          *)
(* What was captured is an event; noise, an event that the classifier's     *)
(* filters drop before the save; something odd, of which no action comes;   *)
(* or a navigation, an action without an envelope.  The lines of an         *)
(* ingestion session are dumped actions, of which a promotion makes no row. *)
(*                                                                          *)
(* SQLite admits one writing transaction at a time, which says nothing      *)
(* about what was read before it began.                                     *)
(***************************************************************************)
EXTENDS Naturals, Sequences, FiniteSets

CONSTANTS
    Promoters,  \* promotions of this recording that can run at the same time
    MaxPage,    \* bound: what is captured
    MaxFailed   \* bound: promotions that fail or die

ASSUME SilverAssumption == MaxPage \in Nat /\ MaxFailed \in Nat

VARIABLES
    source,     \* who records: the recorder or an ingestion session
    page,       \* what it has captured
    lines,      \* raw_events.jsonl: which of that each line is about
    recording,  \* what has become of the recording
    silverRows, \* committed rows of recorded_actions
    stage,      \* where each promotion is
    existing,   \* its existing_count
    text,       \* lines of the log that it has read
    tx,         \* rows that it has inserted and not yet committed
    promoted,   \* history: lines that a finished promotion has gone through
    overlapped, \* history: two promotions have overlapped
    failed

capture == <<source, page, lines, recording>>
promotion == <<stage, existing, text, tx, promoted, overlapped, failed>>
silverVars == <<capture, silverRows, promotion>>

-----------------------------------------------------------------------------
Captured == {"event", "noise", "odd", "navigation"}
SilverRow == [item : 1..MaxPage, sequence : Nat]

\* Still recording, with the row of the log flushed or not.
Open == {"on", "registered"}

SilverTypeOK ==
    /\ source \in {"recorder", "ingest"}
    /\ page \in Seq(Captured) /\ Len(page) <= MaxPage
    /\ lines \in Seq(1..MaxPage)
    /\ recording \in Open \union {"saved", "mixed", "lost"}
    /\ silverRows \in Seq(SilverRow)
    /\ stage \in [Promoters -> {"idle", "counted", "read", "inserted"}]
    /\ existing \in [Promoters -> Nat]
    /\ text \in [Promoters -> 0..Len(lines)]
    /\ tx \in [Promoters -> Seq(SilverRow)]
    /\ \A j, k \in Promoters : tx[j] # <<>> /\ tx[k] # <<>> => j = k
    /\ promoted \in 0..Len(lines)
    /\ overlapped \in BOOLEAN
    /\ failed \in 0..MaxFailed

SilverInit ==
    /\ source \in {"recorder", "ingest"}
    /\ page = <<>>
    /\ lines = <<>>
    /\ recording = "on"
    /\ silverRows = <<>>
    /\ stage = [j \in Promoters |-> "idle"]
    /\ existing = [j \in Promoters |-> 0]
    /\ text = [j \in Promoters |-> 0]
    /\ tx = [j \in Promoters |-> <<>>]
    /\ promoted = 0
    /\ overlapped = FALSE
    /\ failed = 0

\* The increasing enumerations of a set of numbers: there is one.
InOrder(S) ==
    LET Position == 1..Cardinality(S)
    IN  {f \in [Position -> S] : \A i, k \in Position : i < k => f[i] < f[k]}

\* No promotion has anything uncommitted in the database.
Unlocked == \A j \in Promoters : tx[j] = <<>>

-----------------------------------------------------------------------------
(* The recorder or the ingestion session *)

\* _on_capture and _on_framenavigated; ingest_event
Capture(k) ==
    /\ recording \in Open
    /\ Len(page) < MaxPage
    /\ source = "ingest" => k \in {"event", "noise"}
    /\ page' = Append(page, k)
    /\ UNCHANGED <<source, lines, recording, silverRows, promotion>>

\* What has a line in the log, if the line is not lost.
Lined == {i \in 1..Len(page) : page[i] # "navigation"}

\* append_lines: in order, some are dropped or lost, and the last ones may come
\* from a thread that outlives the recording.
AppendLine ==
    /\ \E i \in Lined :
          /\ \A k \in 1..Len(lines) : lines[k] < i
          /\ lines' = Append(lines, i)
    /\ UNCHANGED <<source, page, recording, silverRows, promotion>>

\* The row of the log is flushed: from here to the end of the recording its
\* session keeps the write lock.
RegisterLog ==
    /\ recording = "on"
    /\ lines # <<>>
    /\ Unlocked
    /\ recording' = "registered"
    /\ UNCHANGED <<source, page, lines, silverRows, promotion>>

\* Actions that are left after the filters.
Kept == {i \in 1..Len(page) : page[i] \in {"event", "navigation"}}

\* The recorder counts its actions from 1, an ingestion session from 0.
ActionNumber(i) ==
    LET before == Cardinality({k \in 1..(i - 1) : page[k] # "odd"})
    IN  IF source = "recorder" THEN before + 1 ELSE before

\* The rows of the recording, as it is saved.
SavedRows ==
    {[n \in 1..Cardinality(Kept) |-> [item |-> f[n], sequence |-> ActionNumber(f[n])]] :
        f \in InOrder(Kept)}

\* RecordingRepository.save and the commit.  If promotions are at work or have
\* made rows the recording is mixed from then on.
Save ==
    /\ recording \in Open
    /\ Unlocked
    /\ \E new \in SavedRows : silverRows' = silverRows \o new
    /\ recording' = IF silverRows = <<>> /\ \A j \in Promoters : stage[j] = "idle"
                    THEN "saved" ELSE "mixed"
    /\ UNCHANGED <<source, page, lines, promotion>>

\* The process dies or the session fails: the recording is never saved.  A
\* database that is recreated later is in the same state.
Lose ==
    /\ recording \in Open
    /\ recording' = "lost"
    /\ UNCHANGED <<source, page, lines, silverRows, promotion>>

-----------------------------------------------------------------------------
(* promote_bronze_to_silver *)

\* SELECT count(...)
Count(j) ==
    /\ stage[j] = "idle"
    /\ stage' = [stage EXCEPT ![j] = "counted"]
    /\ existing' = [existing EXCEPT ![j] = Len(silverRows)]
    /\ overlapped' = (overlapped \/ \E k \in Promoters : stage[k] # "idle")
    /\ UNCHANGED <<capture, silverRows, text, tx, promoted, failed>>

\* store.get
Read(j) ==
    /\ stage[j] = "counted"
    /\ stage' = [stage EXCEPT ![j] = "read"]
    /\ text' = [text EXCEPT ![j] = Len(lines)]
    /\ UNCHANGED <<capture, silverRows, existing, tx, promoted, overlapped, failed>>

\* _envelope_to_row returns a row: the line has an event_type that it knows.
MakesRow(i) == source = "recorder" /\ page[lines[i]] \in {"event", "noise"}

\* Mutant: the line after the last row is skipped.
PromotableLate(j) == {i \in 1..text[j] : i > existing[j] + 1 /\ MakesRow(i)}

\* Mutant: the line of the last row is read again.
PromotableEarly(j) == {i \in 1..text[j] : i >= existing[j] /\ MakesRow(i)}

\* lines[existing_count:] without those that make no row.
Promotable(j) == {i \in 1..text[j] : i > existing[j] /\ MakesRow(i)}

\* Their rows in the order of the log.  sequence counts on from existing_count; a
\* line that makes no row gives its number back.
NewRows(j) ==
    {[n \in 1..Cardinality(Promotable(j)) |->
         [item |-> lines[line[n]], sequence |-> existing[j] + n]] :
        line \in InOrder(Promotable(j))}

\* The promotion is over; a job forgets what it has read.
Forget(j) ==
    /\ stage' = [stage EXCEPT ![j] = "idle"]
    /\ existing' = [existing EXCEPT ![j] = 0]
    /\ text' = [text EXCEPT ![j] = 0]
    /\ tx' = [tx EXCEPT ![j] = <<>>]

\* There are as many rows as lines, or no new line makes a row.
NothingNew(j) ==
    /\ stage[j] = "read"
    /\ Promotable(j) = {}
    /\ Forget(j)
    /\ promoted' = text[j]
    /\ UNCHANGED <<capture, silverRows, overlapped, failed>>

\* The rows are added and flushed, which takes the write lock of the database.
Insert(j) ==
    /\ stage[j] = "read"
    /\ Promotable(j) # {}
    /\ Unlocked
    /\ recording # "registered"
    /\ stage' = [stage EXCEPT ![j] = "inserted"]
    /\ \E new \in NewRows(j) : tx' = [tx EXCEPT ![j] = new]
    /\ UNCHANGED <<capture, silverRows, existing, text, promoted, overlapped, failed>>

\* get_session commits.
CommitRows(j) ==
    /\ stage[j] = "inserted"
    /\ silverRows' = silverRows \o tx[j]
    /\ promoted' = text[j]
    /\ Forget(j)
    /\ UNCHANGED <<capture, overlapped, failed>>

\* The job raises, for one because the database stays locked, or its worker dies:
\* the transaction is rolled back.
AbortPromotion(j) ==
    /\ stage[j] # "idle"
    /\ failed < MaxFailed
    /\ failed' = failed + 1
    /\ Forget(j)
    /\ UNCHANGED <<capture, silverRows, promoted, overlapped>>

Promote(j) == Count(j) \/ Read(j) \/ NothingNew(j) \/ Insert(j) \/ CommitRows(j)

SilverNext ==
    \/ \E k \in Captured : Capture(k)
    \/ AppendLine \/ RegisterLog \/ Save \/ Lose
    \/ \E j \in Promoters : Promote(j) \/ AbortPromotion(j)

SilverSpec == SilverInit /\ [][SilverNext]_silverVars

-----------------------------------------------------------------------------
(* Properties. *)

\* Recovery.  Until the recording is saved, and if it never is, all rows come from
\* promotions.  As long as these do not overlap, the rows are numbered 1, 2, ...,
\* every line that makes a row and that a promotion went past has one although
\* resuming at the number of rows is wrong when lines made none, and there are
\* never so many rows that later lines would be skipped.  While every line makes
\* a row, silver is the log, line for line.
SilverCovers ==
    ~overlapped /\ recording \in Open \union {"lost"} =>
        /\ \A i \in 1..Len(silverRows) : silverRows[i].sequence = i
        /\ \A i \in 1..promoted : MakesRow(i) =>
              \E k \in 1..Len(silverRows) : silverRows[k].item = lines[i]
        /\ Len(silverRows) <= promoted
        /\ (\A i \in 1..Len(lines) : MakesRow(i)) =>
              \A i \in 1..Len(silverRows) : silverRows[i].item = lines[i]

\* The log cannot have more lines than the recording has rows, or none of its
\* lines makes a row.
Quiet == source = "ingest" \/ Cardinality(Lined) <= Cardinality(Kept)

\* The common path.  Once the recording is saved, promotions, however many of
\* them overlap, and lines that come late leave its rows as they are, if there
\* are at least as many as lines, or if an ingestion session has saved them.
SavedRowsStay == recording = "saved" /\ Quiet => silverRows \in SavedRows

-----------------------------------------------------------------------------
(* The inductive invariant that SilverCovers and SavedRowsStay follow from. *)

\* The lines are about what was captured, in its order.
LinesOK ==
    /\ \A i \in 1..Len(lines) : lines[i] \in Lined
    /\ \A i, k \in 1..Len(lines) : i < k => lines[i] < lines[k]

\* The rows in s are numbered from n + 1 on; as long as all lines make rows they
\* are for the lines with these numbers.
Numbered(s, n) ==
    /\ \A i \in 1..Len(s) : s[i].sequence = n + i
    /\ (\A i \in 1..Len(lines) : MakesRow(i)) =>
          \A i \in 1..Len(s) : s[i].item = lines[n + i]

\* Every line in m..n that makes a row has one in s.
Covered(s, m, n) ==
    \A i \in m..n : MakesRow(i) => \E k \in 1..Len(s) : s[k].item = lines[i]

\* Without an overlap a promotion that has counted the rows is alone: the rows
\* are still as many, and it goes at least as far as the last one did.
AloneOK(j) ==
    /\ \A k \in Promoters : stage[k] # "idle" => k = j
    /\ existing[j] = Len(silverRows)
    /\ stage[j] # "counted" => promoted <= text[j]
    /\ stage[j] = "inserted" => /\ Numbered(tx[j], existing[j])
                             /\ Covered(tx[j], existing[j] + 1, text[j])
                             /\ existing[j] + Len(tx[j]) <= text[j]

\* Rows of a recording that is not saved.
RecoveryOK ==
    /\ Numbered(silverRows, 0)
    /\ Covered(silverRows, 1, promoted)
    /\ Len(silverRows) <= promoted
    /\ \A j \in Promoters : stage[j] # "idle" => AloneOK(j)

\* Rows of one that is: whoever has counted them has counted them all.
SavedOK ==
    /\ silverRows \in SavedRows
    /\ \A j \in Promoters : stage[j] # "idle" => /\ stage[j] # "inserted"
                                                 /\ existing[j] = Cardinality(Kept)

SilverInv ==
    /\ SilverTypeOK
    /\ LinesOK
    /\ ~overlapped /\ recording \in Open \union {"lost"} => RecoveryOK
    /\ recording = "saved" /\ Quiet => SavedOK

=============================================================================
