------------------------------- MODULE Review --------------------------------
(***************************************************************************)
(* The labels of one recording: passes of `rpa confirm` (confirmation/,     *)
(* cli/commands/confirm.py) in which a user accepts, relabels or skips what *)
(* the classifier said, and re-classifications by `rpa classify`            *)
(* (cli/commands/classify.py), which replace the rows of the recording.     *)
(*                                                                          *)
(* A pass writes each decision in a transaction of its own and then appends *)
(* it to the audit log.  The first line that it appends is registered in    *)
(* a transaction that stays open until the pass ends.  SQLite lets one      *)
(* transaction write at a time; a write that waits too long fails.          *)
(***************************************************************************)
EXTENDS Naturals, Sequences, FiniteSets

CONSTANTS
    Passes,         \* runs of rpa confirm
    Classifiers,    \* runs of rpa classify
    NActions,       \* actions of the recording
    Intents,        \* values of SemanticIntent
    Guess,          \* the intent that the recording was saved with
    Filters,        \* --filter
    Modes,          \* --mode
    Audited,        \* the passes that run with --audit-bronze
    MaxFailures,    \* bound: failures of the file system
    NoLabel,        \* user_label is NULL
    Nobody

ASSUME ReviewAssumption ==
    /\ NActions \in Nat /\ MaxFailures \in Nat
    /\ NoLabel \notin Intents /\ Guess \in Intents
    /\ Audited \subseteq Passes
    /\ Nobody \notin Passes

VARIABLES
    rows,       \* rows[a]: classification columns of action a
    audit,      \* audit[p]: the lines of pass p in reviews/<recording>/decisions.jsonl
    lock,       \* the pass whose audit session has the write lock
    pc,         \* where each pass is
    todo,       \* candidates that a pass has not decided on
    auto,       \* those of them that the overview mode accepts by itself
    current,    \* the decision that a pass is persisting
    seen,       \* the row as the transaction of that decision has read it
    registered, \* _registered_reviews has the recording
    dead,       \* the audit session waits for a rollback
    cpc,        \* where each re-classification is
    snapshot,   \* the rows that it has read
    decided,    \* history: confirmed and label that decisions have set
    blind,      \* history: actions written on the strength of a row since changed
    done,       \* history: decisions of an audited pass that have taken effect
    unlogged,   \* history: those whose line could not be appended
    failures

passvars == <<pc, todo, auto, current, seen, registered, dead>>
history == <<decided, blind, done, unlogged>>
vars == <<rows, audit, lock, pc, todo, auto, current, seen, registered, dead, cpc,
          snapshot, decided, blind, done, unlogged, failures>>

-----------------------------------------------------------------------------
Actions == 1..NActions
Confidences == {"low", "high"}   \* below the threshold or not
Row == [intent : Intents, confidence : Confidences, user_confirmed : BOOLEAN,
        user_label : Intents \cup {NoLabel}]
Decision == [action : Actions, decision : {"accept", "relabel", "skip"},
             new_label : Intents \cup {NoLabel}]
FirstRow == [intent |-> Guess, confidence |-> "low", user_confirmed |-> FALSE,
             user_label |-> NoLabel]
NoDecision == [action |-> 1, decision |-> "skip", new_label |-> NoLabel]

\* What decisions have made of an action.
Label == [user_confirmed : BOOLEAN, user_label : Intents \cup {NoLabel}]

TypeOK ==
    /\ rows \in [Actions -> Row]
    /\ audit \in [Passes -> Seq(Decision)]
    /\ lock \in Passes \cup {Nobody}
    /\ pc \in [Passes -> {"idle", "asking", "read", "write", "append", "register", "ended",
                          "failed", "interrupted"}]
    /\ todo \in [Passes -> Seq(Actions)]
    /\ auto \in [Passes -> SUBSET Actions]
    /\ current \in [Passes -> Decision \cup {NoDecision}]
    /\ seen \in [Passes -> Row]
    /\ registered \in [Passes -> BOOLEAN]
    /\ dead \in [Passes -> BOOLEAN]
    /\ cpc \in [Classifiers -> {"idle", "loaded", "ended", "failed"}]
    /\ snapshot \in [Classifiers -> [Actions -> Row]]
    /\ decided \in [Actions -> Label]
    /\ blind \in SUBSET Actions
    /\ done \in [Passes -> Seq(Decision)]
    /\ unlogged \in [Passes -> Nat]
    /\ failures \in 0..MaxFailures

Init ==
    /\ rows = [a \in Actions |-> FirstRow]
    /\ audit = [p \in Passes |-> <<>>]
    /\ lock = Nobody
    /\ pc = [p \in Passes |-> "idle"]
    /\ todo = [p \in Passes |-> <<>>]
    /\ auto = [p \in Passes |-> {}]
    /\ current = [p \in Passes |-> NoDecision]
    /\ seen = [p \in Passes |-> FirstRow]
    /\ registered = [p \in Passes |-> FALSE]
    /\ dead = [p \in Passes |-> FALSE]
    /\ cpc = [c \in Classifiers |-> "idle"]
    /\ snapshot = [c \in Classifiers |-> rows]
    /\ decided = [a \in Actions |-> [user_confirmed |-> FALSE, user_label |-> NoLabel]]
    /\ blind = {}
    /\ done = [p \in Passes |-> <<>>]
    /\ unlogged = [p \in Passes |-> 0]
    /\ failures = 0

Go(p, step) == pc' = [pc EXCEPT ![p] = step]

\* _persist returns: the pass goes on to the next candidate.
Persisted(p) ==
    /\ Go(p, "asking")
    /\ current' = [current EXCEPT ![p] = NoDecision]

-----------------------------------------------------------------------------
(* Which actions a pass asks about, and in which order. *)

\* Filter.select; the actions are in the order of their timestamps.
BelowThreshold == {a \in Actions : rows[a].confidence = "low"}
ByIntent(intent) == {a \in Actions : rows[a].intent = intent}
UnconfirmedOnly == {a \in Actions : ~rows[a].user_confirmed}
SinceDate == {{a \in Actions : a >= cutoff} : cutoff \in 1..(NActions + 1)}

\* The actions with a failed attempt in some run: no step here changes them.
FailedOnReplay == SUBSET Actions

\* The sets that a filter may select.
Selected(filter) ==
    {S \in SUBSET Actions :
        \/ filter.name = "below_threshold" /\ S = BelowThreshold
        \/ filter.name = "by_intent" /\ S = ByIntent(filter.intent)
        \/ filter.name = "unconfirmed_only" /\ S = UnconfirmedOnly
        \/ filter.name = "since_date" /\ S \in SinceDate
        \/ filter.name = "failed_on_replay" /\ S \in FailedOnReplay}

\* What the overview mode accepts: the candidates that reach the cutoff the
\* user types.
AutoAccepted(mode, S) ==
    IF mode = "overview"
    THEN {{}, {a \in S : rows[a].confidence = "high"}, S}
    ELSE {{}}

\* per_action, and diff_baseline, which is never given a baseline
InSequence(a, b) == a < b

\* per_intent_batch: the groups in the order in which they appear
ByGroup(S, a, b) ==
    LET first(x) == CHOOSE y \in S : /\ rows[y].intent = rows[x].intent
                                     /\ \A z \in S : rows[z].intent = rows[x].intent => y <= z
    IN  IF first(a) # first(b) THEN first(a) < first(b) ELSE InSequence(a, b)

\* overview: those that are accepted come first
AcceptedFirst(accepted, a, b) ==
    IF (a \in accepted) # (b \in accepted) THEN a \in accepted ELSE InSequence(a, b)

Before(mode, S, accepted, a, b) ==
    CASE mode = "overview"         -> AcceptedFirst(accepted, a, b)
      [] mode = "per_intent_batch" -> ByGroup(S, a, b)
      [] OTHER                     -> InSequence(a, b)

\* The candidates one after the other; there is only one such sequence.
Asked(mode, S, accepted) ==
    {order \in [1..Cardinality(S) -> S] :
        \A i, k \in 1..Cardinality(S) :
            i < k => Before(mode, S, accepted, order[i], order[k])}

\* The recording is loaded, its actions filtered, and the mode begins.
Load(p, filter, mode) ==
    /\ pc[p] = "idle"
    /\ \E S \in Selected(filter) : \E accepted \in AutoAccepted(mode, S) :
        /\ \E order \in Asked(mode, S, accepted) : todo' = [todo EXCEPT ![p] = order]
        /\ auto' = [auto EXCEPT ![p] = accepted]
    /\ Go(p, "asking")
    /\ UNCHANGED <<rows, audit, lock, current, seen, registered, dead, cpc, snapshot,
                   history, failures>>

-----------------------------------------------------------------------------
(* One decision: ConfirmationRunner._persist *)

\* A decision of an audited pass has taken effect.
Done(p, d) == done' = IF p \in Audited THEN [done EXCEPT ![p] = Append(@, d)] ELSE done

\* The user answers.  Answers for a group are answers for each of its actions.
\* A skip changes no row and is done at once.
Decide(p, d) ==
    /\ pc[p] = "asking"
    /\ todo[p] # <<>>
    /\ d.action = Head(todo[p])
    /\ d.action \in auto[p] => d.decision = "accept"
    /\ (d.new_label # NoLabel) = (d.decision = "relabel")
    /\ todo' = [todo EXCEPT ![p] = Tail(@)]
    /\ IF d.decision = "skip" THEN Done(p, d) ELSE UNCHANGED done
    /\ IF d.decision = "skip" /\ p \notin Audited
       THEN Persisted(p)
       ELSE /\ current' = [current EXCEPT ![p] = d]
            /\ Go(p, IF d.decision = "skip" THEN "append" ELSE "read")
    /\ UNCHANGED <<rows, audit, lock, auto, seen, registered, dead, cpc, snapshot,
                   decided, blind, unlogged, failures>>

\* Mutant: an accepted action loses its label.
UpdatedUnguarded(row, d) ==
    [row EXCEPT !.intent = IF d.new_label # NoLabel THEN d.new_label ELSE @,
                !.user_confirmed = TRUE,
                !.user_label = d.new_label]

\* The row with what update_action_classification sets; what is None stays.
Updated(row, d) ==
    [row EXCEPT !.intent = IF d.new_label # NoLabel THEN d.new_label ELSE @,
                !.user_confirmed = TRUE,
                !.user_label = IF d.new_label # NoLabel THEN d.new_label ELSE @]

\* The decision has taken effect, its transaction is over.
Effective(p) ==
    LET d == current[p]
    IN  /\ Done(p, d)
        /\ decided' = [decided EXCEPT ![d.action] =
                          [user_confirmed |-> TRUE,
                           user_label |-> IF d.new_label # NoLabel THEN d.new_label
                                          ELSE @.user_label]]
        /\ seen' = [seen EXCEPT ![p] = FirstRow]
        /\ IF p \in Audited THEN Go(p, "append") /\ UNCHANGED current ELSE Persisted(p)

\* session.get.  When the decision changes no column there is nothing to flush.
Read(p) ==
    /\ pc[p] = "read"
    /\ LET row == rows[current[p].action]
       IN  IF Updated(row, current[p]) = row
           THEN Effective(p)
           ELSE /\ seen' = [seen EXCEPT ![p] = row]
                /\ Go(p, "write")
                /\ UNCHANGED <<current, done, decided>>
    /\ UNCHANGED <<rows, audit, lock, todo, auto, registered, dead, cpc, snapshot,
                   blind, unlogged, failures>>

\* The flush writes the columns that differ from what was read, and commits.
Write(p) ==
    /\ pc[p] = "write"
    /\ lock = Nobody
    /\ LET a == current[p].action
           new == Updated(seen[p], current[p])
       IN  /\ rows' = [rows EXCEPT ![a] = [col \in DOMAIN @ |->
                            IF new[col] # seen[p][col] THEN new[col] ELSE @[col]]]
           /\ blind' = IF rows[a] # seen[p] THEN blind \cup {a} ELSE blind
    /\ Effective(p)
    /\ UNCHANGED <<audit, lock, todo, auto, registered, dead, cpc, snapshot, unlogged,
                   failures>>

\* A line of the audit log
Envelope(p) == current[p]

\* Mutant: the line is written before the row.
AppendLineFirst(p) ==
    /\ pc[p] \in {"read", "append"}
    /\ audit' = [audit EXCEPT ![p] = Append(@, Envelope(p))]
    /\ IF registered[p] THEN Persisted(p) ELSE Go(p, "register") /\ UNCHANGED current
    /\ UNCHANGED <<rows, lock, todo, auto, seen, registered, dead, cpc, snapshot,
                   history, failures>>

\* append_review_decision: the line goes to the file ...
AppendLine(p) ==
    /\ pc[p] = "append"
    /\ audit' = [audit EXCEPT ![p] = Append(@, Envelope(p))]
    /\ IF registered[p] THEN Persisted(p) ELSE Go(p, "register") /\ UNCHANGED current
    /\ UNCHANGED <<rows, lock, todo, auto, seen, registered, dead, cpc, snapshot,
                   history, failures>>

\* ... or the failure is logged and the pass goes on.
AppendFails(p) ==
    /\ pc[p] = "append"
    /\ failures < MaxFailures
    /\ failures' = failures + 1
    /\ unlogged' = [unlogged EXCEPT ![p] = @ + 1]
    /\ Persisted(p)
    /\ UNCHANGED <<rows, audit, lock, todo, auto, seen, registered, dead, cpc,
                   snapshot, decided, blind, done>>

\* The pointer row is flushed in the audit session, which keeps the lock.
Register(p) ==
    /\ pc[p] = "register"
    /\ lock = Nobody
    /\ ~dead[p]
    /\ lock' = p
    /\ registered' = [registered EXCEPT ![p] = TRUE]
    /\ Persisted(p)
    /\ UNCHANGED <<rows, audit, todo, auto, seen, dead, cpc, snapshot, history, failures>>

\* The wait for the lock is over, or the session is dead: caught and logged.
RegisterFails(p) ==
    /\ pc[p] = "register"
    /\ lock # Nobody \/ dead[p]
    /\ dead' = [dead EXCEPT ![p] = TRUE]
    /\ Persisted(p)
    /\ UNCHANGED <<rows, audit, lock, todo, auto, seen, registered, cpc, snapshot,
                   history, failures>>

-----------------------------------------------------------------------------
\* The pass is over, and with it the transaction of its audit session and its memory.
Finish(p, how) ==
    /\ Go(p, how)
    /\ lock' = IF lock = p THEN Nobody ELSE lock
    /\ todo' = [todo EXCEPT ![p] = <<>>]
    /\ auto' = [auto EXCEPT ![p] = {}]
    /\ current' = [current EXCEPT ![p] = NoDecision]
    /\ seen' = [seen EXCEPT ![p] = FirstRow]
    /\ registered' = [registered EXCEPT ![p] = FALSE]
    /\ dead' = [dead EXCEPT ![p] = FALSE]
    /\ UNCHANGED <<rows, audit, cpc, snapshot, history, failures>>

\* "database is locked" leaves _persist and with it the pass.
WriteFails(p) ==
    /\ pc[p] = "write"
    /\ lock # Nobody
    /\ Finish(p, "failed")

\* Every candidate is decided on; the audit session commits, or raises if it is
\* dead.  No pool is there to tell about it.
EndPass(p) ==
    /\ pc[p] = "asking"
    /\ todo[p] = <<>>
    /\ Finish(p, IF dead[p] THEN "failed" ELSE "ended")

\* Ctrl+C, or the process dies.
Interrupt(p) ==
    /\ pc[p] \in {"asking", "read", "write", "append", "register"}
    /\ Finish(p, "interrupted")

-----------------------------------------------------------------------------
(* rpa classify *)

\* RecordingRepository.get
Loaded == rows

LoadRecording(c) ==
    /\ cpc[c] = "idle"
    /\ cpc' = [cpc EXCEPT ![c] = "loaded"]
    /\ snapshot' = [snapshot EXCEPT ![c] = Loaded]
    /\ UNCHANGED <<rows, audit, lock, passvars, history, failures>>

\* The action as it was read, with its verdict.
Reclassified(row, verdict) ==
    [row EXCEPT !.intent = verdict.intent, !.confidence = verdict.confidence]

\* classify_batch takes its time; then every row is deleted and inserted again
\* as it was read, with the verdicts.
SaveVerdicts(c, verdict) ==
    /\ cpc[c] = "loaded"
    /\ lock = Nobody
    /\ cpc' = [cpc EXCEPT ![c] = "ended"]
    /\ rows' = [a \in Actions |-> Reclassified(snapshot[c][a], verdict[a])]
    /\ blind' = blind \cup {a \in Actions : rows[a] # snapshot[c][a]}
    /\ snapshot' = [snapshot EXCEPT ![c] = [a \in Actions |-> FirstRow]]
    /\ UNCHANGED <<audit, lock, passvars, decided, done, unlogged, failures>>

SaveFails(c) ==
    /\ cpc[c] = "loaded"
    /\ lock # Nobody
    /\ cpc' = [cpc EXCEPT ![c] = "failed"]
    /\ snapshot' = [snapshot EXCEPT ![c] = [a \in Actions |-> FirstRow]]
    /\ UNCHANGED <<rows, audit, lock, passvars, history, failures>>

-----------------------------------------------------------------------------
Persist(p) ==
    \/ Read(p) \/ Write(p) \/ WriteFails(p)
    \/ AppendLine(p) \/ AppendFails(p)
    \/ Register(p) \/ RegisterFails(p)

Pass(p) ==
    \/ \E filter \in Filters, mode \in Modes : Load(p, filter, mode)
    \/ \E d \in Decision : Decide(p, d)
    \/ Persist(p)
    \/ EndPass(p)

Reclassify(c) ==
    \/ LoadRecording(c)
    \/ \E verdict \in [Actions -> [intent : Intents, confidence : Confidences]] :
            SaveVerdicts(c, verdict)
    \/ SaveFails(c)

Next ==
    \/ \E p \in Passes : Pass(p) \/ Interrupt(p)
    \/ \E c \in Classifiers : Reclassify(c)

Spec == Init /\ [][Next]_vars

-----------------------------------------------------------------------------
(* Properties. *)

\* A decision that has taken effect stays: the row is confirmed and has the last
\* label a user gave it, through re-classifications, passes that fail or are
\* interrupted, and later decisions.  The exception is a write that goes by a
\* row as it was before someone else changed it: no writer checks
\* (cli/commands/classify.py:64, storage/repositories.py:187).
NoDecisionLost ==
    \A a \in Actions \ blind :
        /\ rows[a].user_confirmed = decided[a].user_confirmed
        /\ rows[a].user_label = decided[a].user_label

\* s is what some of the elements of t are, in their order.
IsSubsequence(s, t) ==
    \E at \in [1..Len(s) -> 1..Len(t)] :
        /\ \A i, k \in 1..Len(s) : i < k => at[i] < at[k]
        /\ \A i \in 1..Len(s) : s[i] = t[at[i]]

\* The audit log tells what happened: the lines of an audited pass are decisions
\* that took effect, in their order, and the only ones missing are those whose
\* line could not be appended and one that was being appended when the pass
\* stopped (confirmation/runner.py:135-154).
AuditCovers ==
    \A p \in Audited :
        /\ IsSubsequence(audit[p], done[p])
        /\ Len(done[p]) - Len(audit[p]) - unlogged[p] \in
                IF pc[p] \in {"append", "interrupted"} THEN 0..1 ELSE {0}

\* "Confirmation flow must never fail because bronze is unhappy", and "each
\* update_action_classification is its own commit so a long pass doesn't hold one
\* write lock": a pass that has the recording to itself does not fail.
PassSucceedsAlone ==
    Cardinality(Passes) = 1 /\ Classifiers = {} => \A p \in Passes : pc[p] # "failed"

-----------------------------------------------------------------------------
(* The inductive invariant behind the theorems of ReviewProofs. *)

\* A pass that persists something knows what, and only an audited one appends.
PersistingOK(p) ==
    /\ pc[p] \in {"read", "write", "append", "register"} => current[p] \in Decision
    /\ pc[p] \in {"append", "register"} => p \in Audited

\* While a line is being appended, its decision is the last one that took effect
\* and those before it are accounted for.
AuditOK(p) ==
    IF pc[p] = "append"
    THEN /\ done[p] # <<>> /\ done[p][Len(done[p])] = current[p]
         /\ IsSubsequence(audit[p], SubSeq(done[p], 1, Len(done[p]) - 1))
         /\ Len(done[p]) = Len(audit[p]) + unlogged[p] + 1
    ELSE /\ IsSubsequence(audit[p], done[p])
         /\ \/ Len(done[p]) = Len(audit[p]) + unlogged[p]
            \/ pc[p] = "interrupted" /\ Len(done[p]) = Len(audit[p]) + unlogged[p] + 1

ReviewInv ==
    /\ TypeOK
    /\ NoDecisionLost
    /\ \A p \in Passes : PersistingOK(p)
    /\ \A p \in Audited : AuditOK(p)
=============================================================================
