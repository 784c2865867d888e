------------------------------- MODULE Ingest --------------------------------
(***************************************************************************)
(* Recordings that another program makes (integration/session.py,           *)
(* integration/translator.py).  A session translates the events that its    *)
(* host reports, keeps the actions in memory, appends them to the event log *)
(* of the recording and, at the end, runs the heuristic engine and saves    *)
(* the recording.                                                           *)
(*                                                                          *)
(* A session has one database transaction from its first write to the       *)
(* commit of finalize().  SQLite lets one transaction write: the first to   *)
(* flush holds the lock, and a flush that waits longer than busy_timeout    *)
(* fails.  SQLAlchemy then refuses every later use of the session until it  *)
(* is rolled back: the session is dead.                                     *)
(***************************************************************************)
EXTENDS Heuristic

CONSTANTS
    Sessions,
    Events,       \* Events[s]: what the host of s can report
    MaxEvents,    \* MaxEvents[s]: bound: events of a session
    MaxBatch,     \* bound: events of one call
    MaxFailures,  \* bound: failures of the file system
    NoSession,
    Other         \* another process that writes to the database

ASSUME IngestAssumption ==
    /\ MaxEvents \in [Sessions -> Nat]
    /\ MaxBatch \in Nat
    /\ MaxFailures \in Nat
    /\ NoSession \notin Sessions /\ Other \notin Sessions /\ Other # NoSession

\* What a host reports comes in the order of its times, and a navigation has no
\* target element that could be disabled (integration/events.py).
ASSUME HostAssumption ==
    \A s \in Sessions : \A e \in Events[s] :
        /\ e.gap \in Nat
        /\ e.text = [word |-> e.text.word, padded |-> e.text.padded]
        /\ e.event_type = "navigate" => e.is_enabled

VARIABLES
    held,       \* _actions
    log,        \* sequence numbers in raw_events.jsonl
    pc,         \* where the call of the host is
    outgoing,   \* actions on their way to the log
    registered, \* the writer has inserted the pointer row of the log
    dead,       \* the database session waits for a rollback
    tx,         \* rows that the transaction has written
    db,         \* committed rows
    lock,       \* the session whose transaction is the writer
    finalized,  \* _finalized
    leaving,    \* finalize() is the last call of the session
    upto,       \* history: actions and size of the log when the recording was saved
    failures

dbvars == <<registered, dead, tx, db, lock>>
ingestVars == <<held, log, pc, outgoing, registered, dead, tx, db, lock, finalized,
                leaving, upto, failures>>

-----------------------------------------------------------------------------
(* The rows of a recording: the pointer to its log, whose size the writer    *)
(* fills in at the end, and the recording itself.                            *)
NoRow == [there |-> FALSE, size |-> 0]
NoRecording == [there |-> FALSE, actions |-> <<>>]
NoRows == [pointer |-> NoRow, recording |-> NoRecording]

Steps == {"idle", "append", "register", "save", "refresh", "commit", "rollback", "closed"}

IngestTypeOK ==
    /\ pc \in [Sessions -> Steps]
    /\ registered \in [Sessions -> BOOLEAN]
    /\ dead \in [Sessions -> BOOLEAN]
    /\ finalized \in [Sessions -> BOOLEAN]
    /\ leaving \in [Sessions -> BOOLEAN]
    /\ lock \in Sessions \cup {NoSession, Other}
    /\ failures \in 0..MaxFailures
    /\ \A s \in Sessions :
        /\ Len(held[s]) <= MaxEvents[s]
        /\ Len(log[s]) <= MaxEvents[s]
        /\ tx[s] # NoRows => lock = s

IngestInit ==
    /\ held = [s \in Sessions |-> <<>>]
    /\ log = [s \in Sessions |-> <<>>]
    /\ pc = [s \in Sessions |-> "idle"]
    /\ outgoing = [s \in Sessions |-> <<>>]
    /\ registered = [s \in Sessions |-> FALSE]
    /\ dead = [s \in Sessions |-> FALSE]
    /\ tx = [s \in Sessions |-> NoRows]
    /\ db = [s \in Sessions |-> NoRows]
    /\ lock = NoSession
    /\ finalized = [s \in Sessions |-> FALSE]
    /\ leaving = [s \in Sessions |-> FALSE]
    /\ upto = [s \in Sessions |-> [actions |-> <<>>, lines |-> 0]]
    /\ failures = 0

Go(s, step) == pc' = [pc EXCEPT ![s] = step]

-----------------------------------------------------------------------------
(* Translation.  An event names its target by some of Selenium's locators;  *)
(* the best of them becomes the css selector.                               *)
resolve_change_action_type(e) ==
    CASE e.tag = "select" -> "select"
      [] e.tag = "input" /\ e.input_type \in {"checkbox", "radio"} -> "click"
      [] OTHER -> "input"

resolve_action_type(e) ==
    CASE e.event_type = "submit" -> "click"
      [] e.event_type = "change" -> resolve_change_action_type(e)
      [] OTHER -> e.event_type

CssRank == [css |-> 1, id |-> 2, name |-> 3, class |-> 4, tag |-> 5]

build_selector(e) ==
    LET css == {l \in e.locators : l \in DOMAIN CssRank}
    IN  IF e.locators = {} THEN NoSelector
        ELSE [element |-> e.element,
              css |-> {l \in css : \A m \in css : CssRank[l] <= CssRank[m]},
              others |-> e.locators \ DOMAIN CssRank]

\* is_sensitive of the payload, or else whether it is a password field
is_sensitive(e) ==
    \/ e.is_sensitive = "yes"
    \/ e.is_sensitive = "unset" /\ e.input_type = "password"

\* What a payload says that the engine reads: nothing in clicks and selections.
input_payload(e) == [text |-> e.text, sensitive |-> is_sensitive(e)]
navigate_payload(e) == [text |-> e.text, sensitive |-> FALSE]
build_payload(type, e) ==
    CASE type = "input"    -> input_payload(e)
      [] type = "navigate" -> navigate_payload(e)
      [] OTHER             -> [text |-> EmptyText, sensitive |-> FALSE]

\* input_type is mirrored into the attributes that the rules read.
build_context(e) ==
    [enabled |-> e.is_enabled,
     look |-> e.look \cup ({e.input_type} \cap {"password", "search"})]

translate(e, sequence, time) ==
    LET type == resolve_action_type(e)
        payload == build_payload(type, e)
        context == build_context(e)
    IN  [sequence |-> sequence, type |-> type, selector |-> build_selector(e), time |-> time,
         text |-> payload.text, sensitive |-> payload.sensitive,
         enabled |-> context.enabled, look |-> context.look]

-----------------------------------------------------------------------------
\* When the events of a batch happened.
Times(start, events) ==
    LET time[i \in 0..Len(events)] == IF i = 0 THEN start ELSE time[i - 1] + events[i].gap
    IN  time

\* The actions of a batch, numbered and timed on from those there are.
translated(s, events) ==
    LET n == Len(held[s])
        time == Times(IF n = 0 THEN 0 ELSE held[s][n].time, events)
    IN  [i \in DOMAIN events |-> translate(events[i], n + i - 1, time[i])]

\* ingest_event and ingest_events: the actions are in memory before the log is
\* written.  A finalized session still takes events.
ingest_events(s, events) ==
    /\ pc[s] = "idle"
    /\ Len(held[s]) + Len(events) <= MaxEvents[s]
    /\ held' = [held EXCEPT ![s] = @ \o translated(s, events)]
    /\ outgoing' = [outgoing EXCEPT ![s] = translated(s, events)]
    /\ Go(s, "append")
    /\ UNCHANGED <<log, dbvars, finalized, leaving, upto, failures>>

\* append_events of the bronze writer: the lines go to the file ...
AppendLines(s) ==
    /\ pc[s] = "append"
    /\ log' = [log EXCEPT ![s] = @ \o [i \in DOMAIN outgoing[s] |-> outgoing[s][i].sequence]]
    /\ outgoing' = [outgoing EXCEPT ![s] = <<>>]
    /\ Go(s, IF registered[s] THEN "idle" ELSE "register")
    /\ UNCHANGED <<held, dbvars, finalized, leaving, upto, failures>>

\* ... or the failure is logged and forgotten.
AppendFails(s) ==
    /\ pc[s] = "append"
    /\ failures < MaxFailures
    /\ failures' = failures + 1
    /\ outgoing' = [outgoing EXCEPT ![s] = <<>>]
    /\ Go(s, "idle")
    /\ UNCHANGED <<held, log, dbvars, finalized, leaving, upto>>

\* A flush takes the lock when nobody else has it.
CanFlush(s) == ~dead[s] /\ lock \in {s, NoSession}

\* A dead session cannot flush, nor one that has waited for busy_timeout.
CannotFlush(s) == dead[s] \/ lock \notin {s, NoSession}

\* The pointer row is inserted with an empty size.
Register(s) ==
    /\ pc[s] = "register"
    /\ CanFlush(s)
    /\ lock' = s
    /\ tx' = [tx EXCEPT ![s].pointer = [there |-> TRUE, size |-> 0]]
    /\ registered' = [registered EXCEPT ![s] = TRUE]
    /\ Go(s, "idle")
    /\ UNCHANGED <<held, log, outgoing, dead, db, finalized, leaving, upto, failures>>

\* Mutant: the session can be used after a flush that failed.
RegisterFailsMildly(s) ==
    /\ pc[s] = "register"
    /\ CannotFlush(s)
    /\ Go(s, "idle")
    /\ UNCHANGED <<held, log, outgoing, dbvars, finalized, leaving, upto, failures>>

\* The failure is caught and logged, but the database session is dead.
RegisterFails(s) ==
    /\ pc[s] = "register"
    /\ CannotFlush(s)
    /\ dead' = [dead EXCEPT ![s] = TRUE]
    /\ Go(s, "idle")
    /\ UNCHANGED <<held, log, outgoing, registered, tx, db, lock, finalized, leaving,
                   upto, failures>>

-----------------------------------------------------------------------------
\* finalize(): called by the host (last = FALSE), or by __aexit__, __exit__ or
\* the finalize() of the synchronous facade, which all close the session.
finalize(s, last) ==
    /\ pc[s] = "idle"
    /\ ~finalized[s]
    /\ leaving' = [leaving EXCEPT ![s] = last]
    /\ Go(s, "save")
    /\ UNCHANGED <<held, log, outgoing, dbvars, finalized, upto, failures>>

\* The actions that the engine leaves, each with its verdict.
ApplyClassifier(as) == Process(as)

\* RecordingRepository.save flushes.
Save(s) ==
    /\ pc[s] = "save"
    /\ CanFlush(s)
    /\ lock' = s
    /\ tx' = [tx EXCEPT ![s].recording = [there |-> TRUE, actions |-> ApplyClassifier(held[s])]]
    /\ upto' = [upto EXCEPT ![s] = [actions |-> held[s], lines |-> Len(log[s])]]
    /\ Go(s, "refresh")
    /\ UNCHANGED <<held, log, outgoing, registered, dead, db, finalized, leaving, failures>>

\* finalize() raises: __aexit__ rolls back, the host of a plain call goes on.
SaveFails(s) ==
    /\ pc[s] = "save"
    /\ CannotFlush(s)
    /\ dead' = [dead EXCEPT ![s] = TRUE]
    /\ Go(s, IF leaving[s] THEN "rollback" ELSE "idle")
    /\ UNCHANGED <<held, log, outgoing, registered, tx, db, lock, finalized, leaving,
                   upto, failures>>

SizeRefreshed(rows, size) ==
    IF rows.pointer.there THEN [rows EXCEPT !.pointer.size = size] ELSE rows

\* finalize_recording: the pointer row gets the size of the log, unless the
\* file cannot be read.
Refresh(s, ok) ==
    /\ pc[s] = "refresh"
    /\ ok \/ failures < MaxFailures
    /\ failures' = IF ok THEN failures ELSE failures + 1
    /\ tx' = IF ok THEN [tx EXCEPT ![s] = SizeRefreshed(@, Len(log[s]))] ELSE tx
    /\ Go(s, "commit")
    /\ UNCHANGED <<held, log, outgoing, registered, dead, db, lock, finalized, leaving, upto>>

Commit(s) ==
    /\ pc[s] = "commit"
    /\ db' = [db EXCEPT ![s] = tx[s]]
    /\ tx' = [tx EXCEPT ![s] = NoRows]
    /\ lock' = NoSession
    /\ finalized' = [finalized EXCEPT ![s] = TRUE]
    /\ Go(s, IF leaving[s] THEN "rollback" ELSE "idle")
    /\ UNCHANGED <<held, log, outgoing, registered, dead, leaving, upto, failures>>

\* The session is over: its transaction ends without its rows, its memory is gone.
End(s) ==
    /\ tx' = [tx EXCEPT ![s] = NoRows]
    /\ lock' = IF lock = s THEN NoSession ELSE lock
    /\ held' = [held EXCEPT ![s] = <<>>]
    /\ outgoing' = [outgoing EXCEPT ![s] = <<>>]
    /\ registered' = [registered EXCEPT ![s] = FALSE]
    /\ dead' = [dead EXCEPT ![s] = FALSE]
    /\ finalized' = [finalized EXCEPT ![s] = FALSE]
    /\ leaving' = [leaving EXCEPT ![s] = FALSE]
    /\ Go(s, "closed")
    /\ UNCHANGED <<log, db, upto, failures>>

\* The end of __aexit__, or aclose(): what is not committed is gone.
Close(s) ==
    /\ pc[s] = "rollback"
    /\ End(s)

\* The host leaves with an exception, calls close(), or leaves a session that
\* is finalized already.
Leave(s) ==
    /\ pc[s] = "idle"
    /\ Go(s, "rollback")
    /\ UNCHANGED <<held, log, outgoing, dbvars, finalized, leaving, upto, failures>>

\* The process of the host dies; SQLite rolls its transaction back.
Crash(s) ==
    /\ pc[s] # "closed"
    /\ End(s)

\* The API, a worker or a recorder writes, for as long as it takes.
OtherWrites ==
    /\ \/ lock = NoSession /\ lock' = Other
       \/ lock = Other /\ lock' = NoSession
    /\ UNCHANGED <<held, log, pc, outgoing, registered, dead, tx, db, finalized, leaving,
                   upto, failures>>

SessionStep(s) ==
    \/ \E n \in 1..MaxBatch : \E events \in [1..n -> Events[s]] : ingest_events(s, events)
    \/ AppendLines(s) \/ AppendFails(s)
    \/ Register(s) \/ RegisterFails(s)
    \/ \E last \in BOOLEAN : finalize(s, last)
    \/ Save(s) \/ SaveFails(s)
    \/ \E ok \in BOOLEAN : Refresh(s, ok)
    \/ Commit(s) \/ Close(s) \/ Leave(s) \/ Crash(s)

IngestNext == OtherWrites \/ \E s \in Sessions : SessionStep(s)

IngestSpec == IngestInit /\ [][IngestNext]_ingestVars

-----------------------------------------------------------------------------
(* Properties. *)

Saved(s) == db[s].recording.there
SavedActions(s) ==
    LET saved == db[s].recording.actions
    IN  [i \in DOMAIN saved |-> saved[i].action]

\* The last input into the field before an action, or 0.
LastInput(as, field, before) ==
    LET inputs == {i \in DOMAIN as : /\ IsInput(as[i]) /\ as[i].enabled
                                     /\ as[i].selector = field
                                     /\ as[i].sequence < before}
    IN  IF inputs = {} THEN 0 ELSE CHOOSE i \in inputs : \A j \in inputs : j <= i

\* At every click on an enabled target, and at the end of a saved
\* recording, each field that the
\* user had left with something other than blanks in it has, on replay, what
\* the user had typed: no filter, trimming or merging of bursts, in whatever
\* combination and order (heuristic/engine.py), loses it.
FormsReplayAlike ==
    \A s \in Sessions : Saved(s) =>
        LET in == upto[s].actions
            out == SavedActions(s)
            clicks == {i \in DOMAIN in : in[i].type = "click" /\ in[i].enabled}
            moments == {in[i].sequence : i \in clicks} \cup {Len(in)}
        IN  \A m \in moments, field \in {in[i].selector : i \in DOMAIN in} :
                LET typed == LastInput(in, field, m)
                    kept == LastInput(out, field, m)
                IN  typed # 0 /\ in[typed].text.word # ""
                        => kept # 0 /\ out[kept].text.word = in[typed].text.word

\* Where replay is before an action: the URL of the last navigation.
Page(as, before) ==
    LET navs == {i \in DOMAIN as : as[i].type = "navigate" /\ as[i].sequence < before}
    IN  IF navs = {} THEN "" ELSE as[CHOOSE i \in navs : \A j \in navs : j <= i].text.word

\* What a saved recording leaves out is noise: it keeps the order of the
\* actions, every action on an enabled target that is no input and no
\* navigation, it is on the same page wherever the user was, and an input
\* with text goes only when a burst into the same field goes on around it.
OnlyNoiseGoes ==
    \A s \in Sessions : Saved(s) =>
        LET in == upto[s].actions
            out == SavedActions(s)
            seqs == {out[i].sequence : i \in DOMAIN out}
        IN  /\ \A i, j \in DOMAIN out : i < j => out[i].sequence < out[j].sequence
            /\ \A i \in DOMAIN in :
                /\ Page(in, in[i].sequence + 1) = Page(out, in[i].sequence + 1)
                /\ in[i].enabled /\ in[i].type \in {"click", "select", "key_press"}
                     => in[i].sequence \in seqs
                /\ in[i].enabled /\ IsInput(in[i]) /\ in[i].text.word # ""
                     => \/ in[i].sequence \in seqs
                        \/ \E j \in DOMAIN in \ {i} :
                              /\ SameField(in[i], in[j]) /\ in[j].enabled
                              /\ in[j].time - in[i].time \in -BurstGap..BurstGap

\* A recording and the pointer to its log appear together: the database never
\* has the pointer without the recording, nor a recording with log lines and no
\* pointer to them, although the writer swallows every failure to register
\* (medallion/bronze.py:70).
SavedTogether ==
    \A s \in Sessions :
        /\ db[s].pointer.there => Saved(s)
        /\ Saved(s) /\ upto[s].lines > 0 => db[s].pointer.there
        /\ Saved(s) /\ failures = 0 /\ upto[s].lines > 0 => db[s].pointer.size = upto[s].lines
        /\ pc[s] = "closed" => lock # s

-----------------------------------------------------------------------------
(* The inductive invariant that SavedTogether follows from. *)

\* The rows of a recording, whatever its actions are.
Shaped(rows) ==
    /\ rows = [pointer |-> rows.pointer, recording |-> rows.recording]
    /\ rows.pointer = [there |-> rows.pointer.there, size |-> rows.pointer.size]

ShapeOK ==
    /\ pc \in [Sessions -> Steps]
    /\ registered \in [Sessions -> BOOLEAN]
    /\ dead \in [Sessions -> BOOLEAN]
    /\ finalized \in [Sessions -> BOOLEAN]
    /\ leaving \in [Sessions -> BOOLEAN]
    /\ DOMAIN log = Sessions /\ DOMAIN tx = Sessions
    /\ DOMAIN db = Sessions /\ DOMAIN upto = Sessions
    /\ \A s \in Sessions : Shaped(tx[s])
    /\ failures \in Nat

\* The writer does not know the failures that it swallows, but the session does:
\* as long as it can write, a log with lines is registered, in the transaction
\* that is still open.
RegisteredOK(s) ==
    /\ ~dead[s] /\ pc[s] \notin {"register", "closed"} /\ Len(log[s]) > 0 => registered[s]
    /\ registered[s] /\ ~finalized[s] => tx[s].pointer.there

\* What finalize() has flushed is what the commit makes permanent.
FlushedOK(s) ==
    pc[s] \in {"refresh", "commit"} =>
        /\ tx[s].recording.there
        /\ upto[s].lines = Len(log[s])
        /\ upto[s].lines > 0 => tx[s].pointer.there
        /\ pc[s] = "commit" /\ failures = 0 /\ upto[s].lines > 0
              => tx[s].pointer.size = upto[s].lines

\* A session commits once: until then nothing of it is saved.
CommitsOnce(s) ==
    /\ pc[s] \in {"save", "refresh", "commit"} => ~finalized[s]
    /\ pc[s] # "closed" /\ ~finalized[s] => ~Saved(s)

IngestInv ==
    /\ ShapeOK
    /\ \A s \in Sessions : RegisteredOK(s) /\ FlushedOK(s) /\ CommitsOnce(s)
    /\ SavedTogether

-----------------------------------------------------------------------------
(* The inductive invariant that FormsReplayAlike and OnlyNoiseGoes follow     *)
(* from: what the engine has been given is a record of what happened, and     *)
(* what is saved is what the engine has made of it.                           *)

IsAction(a) ==
    /\ a = [sequence |-> a.sequence, type |-> a.type, selector |-> a.selector, time |-> a.time,
            text |-> a.text, sensitive |-> a.sensitive, enabled |-> a.enabled, look |-> a.look]
    /\ a.text = [word |-> a.text.word, padded |-> a.text.padded]

\* Actions numbered from 0, in the order of their times.
Recorded(as) ==
    /\ Len(as) \in Nat /\ as = [i \in 1..Len(as) |-> as[i]]
    /\ \A i \in 1..Len(as) :
          /\ IsAction(as[i])
          /\ as[i].sequence = i - 1
          /\ as[i].time \in Int
          /\ as[i].type = "navigate" => as[i].enabled
    /\ \A i, j \in 1..Len(as) : i <= j => as[i].time <= as[j].time

ContentOK(s) ==
    /\ Recorded(held[s])
    /\ Recorded(upto[s].actions)
    /\ tx[s].recording.there => tx[s].recording.actions = ApplyClassifier(upto[s].actions)
    /\ Saved(s) => db[s].recording.actions = ApplyClassifier(upto[s].actions)

ContentInv == DOMAIN held = Sessions /\ \A s \in Sessions : ContentOK(s)

=============================================================================
