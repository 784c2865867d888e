---------------------------- MODULE ReviewProofs -----------------------------
(* Proofs about Review: decisions stay, and the audit log tells of them.      *)
EXTENDS Review, FiniteSetTheorems, SequenceTheorems, TLAPS

-----------------------------------------------------------------------------
(* Sequences and their subsequences. *)

LEMMA Appended ==
    ASSUME NEW T, NEW s \in Seq(T), NEW x \in T
    PROVE  /\ Append(s, x) \in Seq(T) /\ Append(s, x) # <<>>
           /\ Len(s) \in Nat /\ Len(Append(s, x)) = Len(s) + 1
           /\ \A i \in 1..Len(s) : Append(s, x)[i] = s[i]
           /\ Append(s, x)[Len(s) + 1] = x
           /\ SubSeq(Append(s, x), 1, Len(s)) = s
<1>1. /\ Append(s, x) \in Seq(T) /\ Append(s, x) # <<>>
      /\ Len(s) \in Nat /\ Len(Append(s, x)) = Len(s) + 1
      /\ \A i \in 1..Len(s) : Append(s, x)[i] = s[i]
      /\ Append(s, x)[Len(s) + 1] = x
  OBVIOUS
<1>2. SubSeq(Append(s, x), 1, Len(s)) = s
  BY <1>1
<1> QED
  BY <1>1, <1>2

\* A sequence is all but its last element, and that.
LEMMA Parted ==
    ASSUME NEW T, NEW s \in Seq(T), s # <<>>
    PROVE  /\ SubSeq(s, 1, Len(s) - 1) \in Seq(T)
           /\ s[Len(s)] \in T
           /\ s = Append(SubSeq(s, 1, Len(s) - 1), s[Len(s)])
<1>1. Len(s) \in Nat /\ Len(s) >= 1 /\ s[Len(s)] \in T
  OBVIOUS
<1>2. /\ SubSeq(s, 1, Len(s) - 1) \in Seq(T) /\ Len(SubSeq(s, 1, Len(s) - 1)) = Len(s) - 1
      /\ \A i \in 1..(Len(s) - 1) : SubSeq(s, 1, Len(s) - 1)[i] = s[i]
  <2>1. PICK n \in Int : n = Len(s) - 1
    BY <1>1
  <2>2. n - 1 + 1 = n /\ (IF 1 <= n THEN n - 1 + 1 ELSE 0) = n
    BY <1>1, <2>1
  <2>3. \A i \in 1..n : s[i] \in T /\ 1 + i - 1 = i
    BY <1>1, <2>1
  <2>4. /\ SubSeq(s, 1, n) \in Seq(T) /\ Len(SubSeq(s, 1, n)) = IF 1 <= n THEN n - 1 + 1 ELSE 0
        /\ \A i \in 1..(n - 1 + 1) : SubSeq(s, 1, n)[i] = s[1 + i - 1]
    BY <2>3, SubSeqProperties
  <2> QED
    BY <2>1, <2>2, <2>3, <2>4
<1> DEFINE w == SubSeq(s, 1, Len(s) - 1)
<1> HIDE DEF w
<1>3. /\ Append(w, s[Len(s)]) \in Seq(T) /\ Len(Append(w, s[Len(s)])) = Len(s)
      /\ \A i \in 1..Len(s) : Append(w, s[Len(s)])[i] = s[i]
  BY <1>1, <1>2 DEF w
<1>4. s = Append(w, s[Len(s)])
  BY <1>3, SeqEqual
<1> QED
  BY <1>1, <1>2, <1>4 DEF w

\* A subsequence of s is one of s with an element more.
LEMMA SubsequenceOfLonger ==
    ASSUME NEW T, NEW s \in Seq(T), NEW x \in T, NEW a \in Seq(T), IsSubsequence(a, s)
    PROVE  IsSubsequence(a, Append(s, x))
<1>1. PICK at \in [1..Len(a) -> 1..Len(s)] :
          /\ \A i, k \in 1..Len(a) : i < k => at[i] < at[k]
          /\ \A i \in 1..Len(a) : a[i] = s[at[i]]
  BY DEF IsSubsequence
<1> DEFINE t == Append(s, x)
<1>2. /\ Len(s) \in Nat /\ Len(a) \in Nat /\ Len(t) = Len(s) + 1
      /\ \A i \in 1..Len(s) : t[i] = s[i]
  BY Appended
<1> HIDE DEF t
<1>3. at \in [1..Len(a) -> 1..Len(t)]
  BY <1>1, <1>2
<1>4. \A i \in 1..Len(a) : a[i] = t[at[i]]
  BY <1>1, <1>2
<1>5. IsSubsequence(a, t)
  BY <1>1, <1>3, <1>4 DEF IsSubsequence
<1> QED
  BY <1>5 DEF t

\* Both may get the same element at the end.
LEMMA SubsequenceExtends ==
    ASSUME NEW T, NEW s \in Seq(T), NEW x \in T, NEW a \in Seq(T), IsSubsequence(a, s)
    PROVE  IsSubsequence(Append(a, x), Append(s, x))
<1>1. PICK at \in [1..Len(a) -> 1..Len(s)] :
          /\ \A i, k \in 1..Len(a) : i < k => at[i] < at[k]
          /\ \A i \in 1..Len(a) : a[i] = s[at[i]]
  BY DEF IsSubsequence
<1> DEFINE t == Append(s, x)
           b == Append(a, x)
<1>2. /\ Len(s) \in Nat /\ Len(t) = Len(s) + 1 /\ t[Len(s) + 1] = x
      /\ \A i \in 1..Len(s) : t[i] = s[i]
  BY Appended
<1>3. /\ Len(a) \in Nat /\ Len(b) = Len(a) + 1 /\ b[Len(a) + 1] = x
      /\ \A i \in 1..Len(a) : b[i] = a[i]
  BY Appended
<1> HIDE DEF t, b
<1> DEFINE to == [i \in 1..Len(b) |-> IF i <= Len(a) THEN at[i] ELSE Len(s) + 1]
<1>4. \A i \in 1..Len(b) : (i \in 1..Len(a) /\ to[i] = at[i] /\ at[i] \in 1..Len(s))
                           \/ (i = Len(a) + 1 /\ to[i] = Len(s) + 1)
  <2> SUFFICES ASSUME NEW i \in 1..Len(b)
               PROVE  \/ (i \in 1..Len(a) /\ to[i] = at[i] /\ at[i] \in 1..Len(s))
                      \/ (i = Len(a) + 1 /\ to[i] = Len(s) + 1)
    OBVIOUS
  <2>1. to[i] = IF i <= Len(a) THEN at[i] ELSE Len(s) + 1
    OBVIOUS
  <2>2. CASE i <= Len(a)
    <3>1. i \in 1..Len(a)
      BY <1>3, <2>2
    <3> QED
      BY <1>1, <2>1, <2>2, <3>1
  <2>3. CASE ~(i <= Len(a))
    <3>1. i = Len(a) + 1
      BY <1>3, <2>3
    <3> QED
      BY <2>1, <2>3, <3>1
  <2> QED
    BY <2>2, <2>3
<1>5. to \in [1..Len(b) -> 1..Len(t)]
  BY <1>2, <1>4
<1> HIDE DEF to
<1>6. \A i, k \in 1..Len(b) : i < k => to[i] < to[k]
  BY <1>1, <1>2, <1>3, <1>4
<1>7. \A i \in 1..Len(b) : b[i] = t[to[i]]
  BY <1>1, <1>2, <1>3, <1>4
<1>8. IsSubsequence(b, t)
  BY <1>5, <1>6, <1>7 DEF IsSubsequence
<1> QED
  BY <1>8 DEF t, b

\* Nothing has been appended.
LEMMA SubsequenceEmpty == ASSUME NEW T, NEW s \in Seq(T) PROVE IsSubsequence(<<>>, s)
<1>1. Len(<<>>) = 0 /\ 1..0 = {} /\ Len(s) \in Nat
  OBVIOUS
<1> DEFINE at == [i \in 1..0 |-> 1]
<1>2. at \in [1..Len(<<>>) -> 1..Len(s)]
  BY <1>1
<1> QED
  BY <1>1, <1>2 DEF IsSubsequence

-----------------------------------------------------------------------------
(* Rows *)

\* What the flush leaves of a row: its own columns, and those that differ.
LEMMA FlushedIsRow ==
    ASSUME NEW r \in Row, NEW s \in Row, NEW n \in Row
    PROVE  [col \in DOMAIN r |-> IF n[col] # s[col] THEN n[col] ELSE r[col]] \in Row
BY DEF Row

LEMMA UpdatedIsRow ==
    ASSUME NEW r \in Row, NEW d \in Decision
    PROVE  /\ Updated(r, d) \in Row
           /\ Updated(r, d).user_confirmed
           /\ Updated(r, d).user_label = IF d.new_label # NoLabel THEN d.new_label ELSE r.user_label
BY DEF Row, Decision, Updated

LEMMA FlushedAgain ==
    ASSUME NEW r \in Row, NEW n \in Row
    PROVE  [col \in DOMAIN r |-> IF n[col] # r[col] THEN n[col] ELSE r[col]] = n
BY DEF Row

-----------------------------------------------------------------------------
(* Types. *)

LEMMA RecordTypes == FirstRow \in Row /\ [user_confirmed |-> FALSE, user_label |-> NoLabel] \in Label
BY ReviewAssumption DEF FirstRow, Row, Confidences, Label

\* A pass that is over.
LEMMA FinishTypes ==
    ASSUME TypeOK, NEW p \in Passes, NEW how \in {"ended", "failed", "interrupted"},
           Finish(p, how)
    PROVE  TypeOK'
BY RecordTypes DEF TypeOK, Finish, Go, history

\* A decision that has taken effect.
LEMMA EffectiveTypes ==
    ASSUME TypeOK, NEW p \in Passes, current[p] \in Decision, Effective(p)
    PROVE  /\ pc' \in [Passes -> {"idle", "asking", "read", "write", "append", "register", "ended",
                                  "failed", "interrupted"}]
           /\ current' \in [Passes -> Decision \cup {NoDecision}]
           /\ seen' \in [Passes -> Row]
           /\ decided' \in [Actions -> Label]
           /\ done' \in [Passes -> Seq(Decision)]
<1> DEFINE d == current[p]
<1>1. d.action \in Actions /\ d.new_label \in Intents \cup {NoLabel}
  BY DEF Decision
<1>2. decided' = [decided EXCEPT ![d.action] =
                     [user_confirmed |-> TRUE,
                      user_label |-> IF d.new_label # NoLabel THEN d.new_label
                                     ELSE @.user_label]]
  BY DEF Effective
<1>3. decided' \in [Actions -> Label]
  BY <1>1, <1>2 DEF TypeOK, Label
<1>4. done[p] \in Seq(Decision)
  BY DEF TypeOK
<1>5. Append(done[p], d) \in Seq(Decision)
  BY <1>4, Appended
<1>6. done' = done \/ done' = [done EXCEPT ![p] = Append(done[p], d)]
  BY DEF Effective, Done
<1>7. done' \in [Passes -> Seq(Decision)]
  BY <1>5, <1>6 DEF TypeOK
<1>8. seen' \in [Passes -> Row]
  BY RecordTypes DEF TypeOK, Effective
<1>9. /\ pc' \in [Passes -> {"idle", "asking", "read", "write", "append", "register", "ended",
                            "failed", "interrupted"}]
      /\ current' \in [Passes -> Decision \cup {NoDecision}]
  BY DEF TypeOK, Effective, Go, Persisted
<1> QED
  BY <1>3, <1>7, <1>8, <1>9

LEMMA TypeInit == Init => TypeOK
<1> SUFFICES ASSUME Init PROVE TypeOK
  OBVIOUS
<1>1. <<>> \in Seq(Decision) /\ <<>> \in Seq(Actions)
  OBVIOUS
<1>2. rows \in [Actions -> Row]
  BY RecordTypes DEF Init
<1> QED
  BY <1>1, <1>2, RecordTypes, ReviewAssumption DEF Init, TypeOK

LEMMA TypeStep ==
    ASSUME TypeOK, \A p \in Passes : PersistingOK(p), [Next]_vars
    PROVE  TypeOK'
<1> USE DEF passvars, history
<1>1. CASE UNCHANGED vars
  BY <1>1 DEF TypeOK, vars
<1>2. ASSUME NEW p \in Passes, NEW filter \in Filters, NEW mode \in Modes, Load(p, filter, mode)
      PROVE  TypeOK'
  <2>1. PICK S \in Selected(filter) : \E accepted \in AutoAccepted(mode, S) :
            /\ \E order \in Asked(mode, S, accepted) : todo' = [todo EXCEPT ![p] = order]
            /\ auto' = [auto EXCEPT ![p] = accepted]
    BY <1>2 DEF Load
  <2>2. PICK accepted \in AutoAccepted(mode, S) :
            /\ \E order \in Asked(mode, S, accepted) : todo' = [todo EXCEPT ![p] = order]
            /\ auto' = [auto EXCEPT ![p] = accepted]
    BY <2>1
  <2>3. PICK order \in Asked(mode, S, accepted) : todo' = [todo EXCEPT ![p] = order]
    BY <2>2
  <2>4. S \subseteq Actions
    BY DEF Selected
  <2>5. accepted \subseteq Actions
    BY <2>4 DEF AutoAccepted
  <2>6. IsFiniteSet(S) /\ Cardinality(S) \in Nat
    <3>1. IsFiniteSet(1..NActions)
      BY ReviewAssumption, FS_Interval
    <3>2. IsFiniteSet(S)
      BY <2>4, <3>1, FS_Subset DEF Actions
    <3> QED
      BY <3>2, FS_CardinalityType
  <2>7. order \in Seq(S)
    BY <2>6, SeqDef DEF Asked
  <2>8. order \in Seq(Actions)
    BY <2>4, <2>7, SeqMonotonic
  <2>9. todo' \in [Passes -> Seq(Actions)] /\ auto' \in [Passes -> SUBSET Actions]
    BY <2>2, <2>3, <2>5, <2>8 DEF TypeOK
  <2> QED
    BY <1>2, <2>9 DEF TypeOK, Load, Go
<1>3. ASSUME NEW p \in Passes, NEW d \in Decision, Decide(p, d)
      PROVE  TypeOK'
  <2>1. todo[p] \in Seq(Actions) /\ done[p] \in Seq(Decision)
    BY DEF TypeOK
  <2>2. Tail(todo[p]) \in Seq(Actions) /\ Append(done[p], d) \in Seq(Decision)
    BY <1>3, <2>1 DEF Decide
  <2>3. todo' \in [Passes -> Seq(Actions)]
    BY <1>3, <2>2 DEF TypeOK, Decide
  <2>4. done' \in [Passes -> Seq(Decision)]
    BY <1>3, <2>2 DEF TypeOK, Decide, Done
  <2>5. current' \in [Passes -> Decision \cup {NoDecision}]
    BY <1>3 DEF TypeOK, Decide, Persisted
  <2>6. pc' \in [Passes -> {"idle", "asking", "read", "write", "append", "register", "ended",
                            "failed", "interrupted"}]
    BY <1>3 DEF TypeOK, Decide, Persisted, Go
  <2> QED
    BY <1>3, <2>3, <2>4, <2>5, <2>6 DEF TypeOK, Decide
<1>4. ASSUME NEW p \in Passes, Read(p)
      PROVE  TypeOK'
  <2>1. current[p] \in Decision /\ current[p].action \in Actions
    BY <1>4 DEF Read, PersistingOK, Decision
  <2>2. rows[current[p].action] \in Row
    BY <2>1 DEF TypeOK
  <2>3. CASE Effective(p)
    BY <1>4, <2>1, <2>3, EffectiveTypes DEF TypeOK, Read
  <2>4. CASE ~Effective(p)
    BY <1>4, <2>2, <2>4 DEF TypeOK, Read, Go
  <2> QED
    BY <2>3, <2>4
<1>5. ASSUME NEW p \in Passes, Write(p)
      PROVE  TypeOK'
  <2>1. current[p] \in Decision /\ current[p].action \in Actions
    BY <1>5 DEF Write, PersistingOK, Decision
  <2>2. PICK a \in Actions : a = current[p].action
    BY <2>1
  <2>3. PICK new \in Row : new = Updated(seen[p], current[p])
    BY <2>1, UpdatedIsRow DEF TypeOK
  <2>4. PICK r \in Row : r = [col \in DOMAIN rows[a] |->
                                  IF new[col] # seen[p][col] THEN new[col] ELSE rows[a][col]]
    <3>1. rows[a] \in Row /\ seen[p] \in Row
      BY DEF TypeOK
    <3> QED
      BY <3>1, FlushedIsRow
  <2>5. /\ rows' = [rows EXCEPT ![a] = r]
        /\ blind' = blind \/ blind' = blind \cup {a}
    BY <1>5, <2>2, <2>3, <2>4 DEF Write
  <2>6. rows' \in [Actions -> Row] /\ blind' \in SUBSET Actions
    BY <2>5 DEF TypeOK
  <2>7. Effective(p)
    BY <1>5 DEF Write
  <2> QED
    BY <1>5, <2>1, <2>6, <2>7, EffectiveTypes DEF TypeOK, Write
<1>6. ASSUME NEW p \in Passes, AppendLine(p)
      PROVE  TypeOK'
  <2>1. audit[p] \in Seq(Decision) /\ current[p] \in Decision
    BY <1>6 DEF TypeOK, AppendLine, PersistingOK
  <2>2. Append(audit[p], current[p]) \in Seq(Decision)
    BY <2>1, Appended
  <2>3. audit' \in [Passes -> Seq(Decision)]
    BY <1>6, <2>2 DEF TypeOK, AppendLine, Envelope
  <2> QED
    BY <1>6, <2>3 DEF TypeOK, AppendLine, Persisted, Go
<1>7. ASSUME NEW p \in Passes, AppendFails(p)
      PROVE  TypeOK'
  <2>1. failures' \in 0..MaxFailures
    BY <1>7, ReviewAssumption DEF TypeOK, AppendFails
  <2>2. unlogged' \in [Passes -> Nat]
    BY <1>7 DEF TypeOK, AppendFails
  <2> QED
    BY <1>7, <2>1, <2>2 DEF TypeOK, AppendFails, Persisted, Go
<1>8. ASSUME NEW p \in Passes, Register(p)
      PROVE  TypeOK'
  BY <1>8 DEF TypeOK, Register, Persisted, Go
<1>9. ASSUME NEW p \in Passes, RegisterFails(p)
      PROVE  TypeOK'
  BY <1>9 DEF TypeOK, RegisterFails, Persisted, Go
<1>10. ASSUME NEW p \in Passes, WriteFails(p) \/ EndPass(p) \/ Interrupt(p)
       PROVE  TypeOK'
  BY <1>10, FinishTypes DEF WriteFails, EndPass, Interrupt
<1>11. ASSUME NEW c \in Classifiers, LoadRecording(c)
       PROVE  TypeOK'
  BY <1>11 DEF TypeOK, LoadRecording, Loaded
<1>12. ASSUME NEW c \in Classifiers,
              NEW verdict \in [Actions -> [intent : Intents, confidence : Confidences]],
              SaveVerdicts(c, verdict)
       PROVE  TypeOK'
  <2>1. \A a \in Actions : Reclassified(snapshot[c][a], verdict[a]) \in Row
    <3> SUFFICES ASSUME NEW a \in Actions
                 PROVE  Reclassified(snapshot[c][a], verdict[a]) \in Row
      OBVIOUS
    <3>1. /\ snapshot[c][a] \in Row
          /\ verdict[a] \in [intent : Intents, confidence : Confidences]
      BY DEF TypeOK
    <3> QED
      BY <3>1 DEF Reclassified, Row
  <2>2. rows' \in [Actions -> Row]
    BY <1>12, <2>1 DEF SaveVerdicts
  <2> QED
    BY <1>12, <2>2, RecordTypes DEF TypeOK, SaveVerdicts
<1>13. ASSUME NEW c \in Classifiers, SaveFails(c)
       PROVE  TypeOK'
  BY <1>13, RecordTypes DEF TypeOK, SaveFails
<1> QED
  BY <1>1, <1>2, <1>3, <1>4, <1>5, <1>6, <1>7, <1>8, <1>9, <1>10, <1>11, <1>12, <1>13
     DEF Next, Pass, Persist, Reclassify

-----------------------------------------------------------------------------
(* What a step does to the pass that takes it, and to the others. *)

Kept(q) ==
    /\ pc'[q] = pc[q] /\ current'[q] = current[q]
    /\ done'[q] = done[q] /\ audit'[q] = audit[q] /\ unlogged'[q] = unlogged[q]

LEMMA OthersKept ==
    ASSUME TypeOK, NEW p \in Passes, NEW q \in Passes, q # p, Pass(p) \/ Interrupt(p)
    PROVE  Kept(q)
<1> USE DEF TypeOK, Kept, history
<1>1. ASSUME NEW filter \in Filters, NEW mode \in Modes, Load(p, filter, mode) PROVE Kept(q)
  BY <1>1 DEF Load, Go
<1>2. ASSUME NEW d \in Decision, Decide(p, d) PROVE Kept(q)
  BY <1>2 DEF Decide, Done, Persisted, Go
<1>3. CASE Effective(p) /\ UNCHANGED <<audit, unlogged>>
  BY <1>3 DEF Effective, Done, Persisted, Go
<1>4. CASE Read(p)
  BY <1>3, <1>4 DEF Read, Go
<1>5. CASE Write(p)
  BY <1>3, <1>5 DEF Write
<1>6. CASE AppendLine(p) \/ AppendFails(p) \/ Register(p) \/ RegisterFails(p)
  BY <1>6 DEF AppendLine, AppendFails, Register, RegisterFails, Persisted, Go
<1>7. CASE WriteFails(p) \/ EndPass(p) \/ Interrupt(p)
  BY <1>7 DEF WriteFails, EndPass, Interrupt, Finish, Go
<1> QED
  BY <1>1, <1>2, <1>4, <1>5, <1>6, <1>7 DEF Pass, Persist

LEMMA ReclassifyKeeps ==
    ASSUME NEW q \in Passes, NEW c \in Classifiers, Reclassify(c)
    PROVE  Kept(q)
BY DEF Reclassify, LoadRecording, SaveVerdicts, SaveFails, Kept, passvars, history

\* A decision that takes effect is appended if the pass is audited.
LEMMA EffectiveStep ==
    ASSUME TypeOK, NEW p \in Passes, Effective(p)
    PROVE  /\ p \in Audited => /\ pc'[p] = "append" /\ current'[p] = current[p]
                               /\ done'[p] = Append(done[p], current[p])
           /\ p \notin Audited => pc'[p] = "asking"
BY DEF TypeOK, Effective, Done, Persisted, Go

LEMMA PersistingStep ==
    ASSUME TypeOK, \A p \in Passes : PersistingOK(p), [Next]_vars
    PROVE  \A p \in Passes : PersistingOK(p)'
<1>1. ASSUME NEW q \in Passes, Kept(q) PROVE PersistingOK(q)'
  BY <1>1 DEF Kept, PersistingOK
<1>2. ASSUME NEW p \in Passes, Pass(p) \/ Interrupt(p) PROVE PersistingOK(p)'
  <2> USE DEF TypeOK, PersistingOK
  <2>0. PersistingOK(p)
    OBVIOUS
  <2>1. ASSUME NEW filter \in Filters, NEW mode \in Modes, Load(p, filter, mode)
        PROVE  pc'[p] = "asking"
    BY <2>1 DEF Load, Go
  <2>2. ASSUME NEW d \in Decision, Decide(p, d) PROVE PersistingOK(p)'
    BY <2>2 DEF Decide, Persisted, Go
  <2>3. CASE Effective(p) /\ current[p] \in Decision
    BY <2>3, EffectiveStep
  <2>4. CASE Read(p)
    <3>1. current[p] \in Decision
      BY <2>0, <2>4 DEF Read
    <3>2. CASE ~Effective(p)
      BY <2>4, <3>1, <3>2 DEF Read, Go
    <3> QED
      BY <2>3, <3>1, <3>2
  <2>5. CASE Write(p)
    BY <2>0, <2>3, <2>5 DEF Write
  <2>6. CASE AppendLine(p)
    BY <2>0, <2>6 DEF AppendLine, Persisted, Go
  <2>7. CASE AppendFails(p) \/ Register(p) \/ RegisterFails(p)
    BY <2>7 DEF AppendFails, Register, RegisterFails, Persisted, Go
  <2>8. CASE WriteFails(p) \/ EndPass(p) \/ Interrupt(p)
    BY <2>8 DEF WriteFails, EndPass, Interrupt, Finish, Go
  <2> QED
    BY <1>2, <2>1, <2>2, <2>4, <2>5, <2>6, <2>7, <2>8 DEF Pass, Persist
<1>3. CASE UNCHANGED vars
  BY <1>1, <1>3 DEF vars, Kept
<1>4. ASSUME NEW p \in Passes, Pass(p) \/ Interrupt(p), NEW q \in Passes PROVE PersistingOK(q)'
  BY <1>1, <1>2, <1>4, OthersKept
<1>5. ASSUME NEW c \in Classifiers, Reclassify(c), NEW q \in Passes PROVE PersistingOK(q)'
  BY <1>1, <1>5, ReclassifyKeeps
<1> QED
  BY <1>3, <1>4, <1>5 DEF Next

-----------------------------------------------------------------------------
(* Decisions *)

\* Action a has what decisions have made of it.
Remembered(a) ==
    /\ rows[a].user_confirmed = decided[a].user_confirmed
    /\ rows[a].user_label = decided[a].user_label

\* A decision that takes effect on a row which has what it says.
LEMMA EffectiveRemembers ==
    ASSUME TypeOK, NEW p \in Passes, current[p] \in Decision, Effective(p),
           NEW a \in Actions,
           a # current[p].action => Remembered(a) /\ rows'[a] = rows[a],
           a = current[p].action =>
               /\ rows'[a].user_confirmed
               /\ rows'[a].user_label = IF current[p].new_label # NoLabel
                                        THEN current[p].new_label ELSE decided[a].user_label,
           rows' \in [Actions -> Row]
    PROVE  Remembered(a)'
<1> DEFINE d == current[p]
<1>1. decided' = [decided EXCEPT ![d.action] =
                     [user_confirmed |-> TRUE,
                      user_label |-> IF d.new_label # NoLabel THEN d.new_label
                                     ELSE @.user_label]]
  BY DEF Effective
<1>2. CASE a # d.action
  BY <1>1, <1>2 DEF TypeOK, Remembered
<1>3. CASE a = d.action
  <2>1. decided'[a] = [user_confirmed |-> TRUE,
                       user_label |-> IF d.new_label # NoLabel THEN d.new_label
                                      ELSE decided[a].user_label]
    BY <1>1, <1>3 DEF TypeOK
  <2>2. rows'[a].user_confirmed = TRUE
    BY <1>3 DEF Row
  <2>3. PICK l : l = IF d.new_label # NoLabel THEN d.new_label ELSE decided[a].user_label
    OBVIOUS
  <2>4. decided'[a].user_confirmed = TRUE /\ decided'[a].user_label = l
    BY <2>1, <2>3
  <2>5. rows'[a].user_label = l
    BY <1>3, <2>3
  <2> QED
    BY <2>2, <2>4, <2>5 DEF Remembered
<1> QED
  BY <1>2, <1>3

LEMMA DecisionStep ==
    ASSUME TypeOK, TypeOK', \A p \in Passes : PersistingOK(p), NoDecisionLost, [Next]_vars
    PROVE  NoDecisionLost'
<1> USE DEF history, passvars
<1>0. /\ \A a \in Actions : a \notin blind => Remembered(a)
      /\ rows' \in [Actions -> Row]
  BY DEF NoDecisionLost, Remembered, TypeOK
<1> SUFFICES ASSUME NEW a \in Actions, a \notin blind' PROVE Remembered(a)'
  BY DEF NoDecisionLost, Remembered
<1>1. CASE UNCHANGED <<rows, decided, blind>>
  BY <1>0, <1>1 DEF Remembered
<1>2. ASSUME NEW p \in Passes, Read(p)
      PROVE  Remembered(a)'
  <2>1. current[p] \in Decision /\ current[p].action \in Actions /\ UNCHANGED <<rows, blind>>
    BY <1>2 DEF Read, PersistingOK, Decision
  <2>2. PICK b \in Actions : b = current[p].action
    BY <2>1
  <2>3. rows[b] \in Row
    BY DEF TypeOK
  <2>4. CASE Updated(rows[b], current[p]) = rows[b]
    <3>1. Effective(p)
      BY <1>2, <2>2, <2>4 DEF Read
    <3>2. /\ rows[b].user_confirmed
          /\ rows[b].user_label = IF current[p].new_label # NoLabel
                                  THEN current[p].new_label ELSE rows[b].user_label
      BY <2>1, <2>3, <2>4, UpdatedIsRow
    <3> QED
      BY <1>0, <2>1, <2>2, <3>1, <3>2, EffectiveRemembers DEF Remembered
  <2>5. CASE Updated(rows[b], current[p]) # rows[b]
    BY <1>1, <1>2, <2>1, <2>2, <2>5 DEF Read
  <2> QED
    BY <2>4, <2>5
<1>3. ASSUME NEW p \in Passes, Write(p)
      PROVE  Remembered(a)'
  <2>1. current[p] \in Decision /\ current[p].action \in Actions
    BY <1>3 DEF Write, PersistingOK, Decision
  <2>2. PICK b \in Actions : b = current[p].action
    BY <2>1
  <2>3. PICK new \in Row :
            /\ new = Updated(seen[p], current[p])
            /\ new.user_confirmed
            /\ new.user_label = IF current[p].new_label # NoLabel
                                THEN current[p].new_label ELSE seen[p].user_label
    <3>1. seen[p] \in Row
      BY DEF TypeOK
    <3> QED
      BY <2>1, <3>1, UpdatedIsRow
  <2>4. /\ rows' = [rows EXCEPT ![b] = [col \in DOMAIN rows[b] |->
                                IF new[col] # seen[p][col] THEN new[col] ELSE rows[b][col]]]
        /\ blind' = IF rows[b] # seen[p] THEN blind \cup {b} ELSE blind
        /\ Effective(p)
    BY <1>3, <2>2, <2>3 DEF Write
  <2>5. a \notin blind
    BY <2>4
  <2>6. a # b => rows'[a] = rows[a]
    BY <2>4 DEF TypeOK
  <2>7. a = b => rows[a] = seen[p] /\ rows'[a] = new
    <3>1. ASSUME a = b PROVE rows[a] = seen[p]
      BY <2>4, <3>1
    <3>2. ASSUME a = b
          PROVE  rows'[a] = [col \in DOMAIN rows[a] |->
                                IF new[col] # seen[p][col] THEN new[col] ELSE rows[a][col]]
      BY <2>4, <3>2 DEF TypeOK
    <3>3. rows[a] \in Row
      BY DEF TypeOK
    <3> QED
      BY <3>1, <3>2, <3>3, FlushedAgain
  <2>8. ASSUME a # b PROVE Remembered(a) /\ rows'[a] = rows[a]
    BY <1>0, <2>5, <2>6, <2>8
  <2>9. ASSUME a = b
        PROVE  /\ rows'[a].user_confirmed
               /\ rows'[a].user_label = IF current[p].new_label # NoLabel
                                        THEN current[p].new_label ELSE decided[a].user_label
    <3>1. rows[a] = seen[p] /\ rows'[a] = new
      BY <2>7, <2>9
    <3>2. seen[p].user_label = decided[a].user_label
      BY <1>0, <2>5, <3>1 DEF Remembered
    <3> QED
      BY <2>3, <3>1, <3>2
  <2>10. rows' \in [Actions -> Row]
    BY <1>0
  <2> QED
    BY <2>1, <2>2, <2>4, <2>8, <2>9, <2>10, EffectiveRemembers
<1>4. ASSUME NEW c \in Classifiers,
             NEW verdict \in [Actions -> [intent : Intents, confidence : Confidences]],
             SaveVerdicts(c, verdict)
      PROVE  Remembered(a)'
  <2>1. /\ rows'[a] = Reclassified(snapshot[c][a], verdict[a])
        /\ rows[a] = snapshot[c][a] /\ a \notin blind /\ decided' = decided
    BY <1>4 DEF SaveVerdicts
  <2>2. rows[a] \in Row
    BY DEF TypeOK
  <2>3. /\ rows'[a].user_confirmed = rows[a].user_confirmed
        /\ rows'[a].user_label = rows[a].user_label
    BY <2>1, <2>2 DEF Reclassified, Row
  <2> QED
    BY <1>0, <2>1, <2>3 DEF Remembered
<1>5. ASSUME NEW p \in Passes, NEW filter \in Filters, NEW mode \in Modes, Load(p, filter, mode)
      PROVE  UNCHANGED <<rows, decided, blind>>
  BY <1>5 DEF Load
<1>6. ASSUME NEW p \in Passes, NEW d \in Decision, Decide(p, d)
      PROVE  UNCHANGED <<rows, decided, blind>>
  BY <1>6 DEF Decide
<1>7. ASSUME NEW p \in Passes,
             \/ AppendLine(p) \/ AppendFails(p) \/ Register(p) \/ RegisterFails(p)
             \/ WriteFails(p) \/ EndPass(p) \/ Interrupt(p)
      PROVE  UNCHANGED <<rows, decided, blind>>
  BY <1>7 DEF AppendLine, AppendFails, Register, RegisterFails, WriteFails, EndPass, Interrupt,
              Finish
<1>8. ASSUME NEW c \in Classifiers, LoadRecording(c) \/ SaveFails(c)
      PROVE  UNCHANGED <<rows, decided, blind>>
  BY <1>8 DEF LoadRecording, SaveFails
<1>9. CASE UNCHANGED vars
  BY <1>1, <1>9 DEF vars
<1> QED
  BY <1>1, <1>2, <1>3, <1>4, <1>5, <1>6, <1>7, <1>8, <1>9 DEF Next, Pass, Persist, Reclassify

-----------------------------------------------------------------------------
(* The audit log *)

\* A decision that takes effect finds all those before it accounted for.
LEMMA AuditTakesOn ==
    ASSUME TypeOK, NEW p \in Audited, NEW d \in Decision, AuditOK(p),
           pc[p] \in {"asking", "read", "write"},
           pc'[p] = "append", current'[p] = d, done'[p] = Append(done[p], d),
           audit'[p] = audit[p], unlogged'[p] = unlogged[p]
    PROVE  AuditOK(p)'
<1>1. /\ done[p] \in Seq(Decision) /\ audit[p] \in Seq(Decision) /\ unlogged[p] \in Nat
      /\ Len(audit[p]) \in Nat
  BY ReviewAssumption DEF TypeOK
<1> DEFINE w == Append(done[p], d)
<1>2. /\ w # <<>> /\ Len(w) = Len(done[p]) + 1 /\ w[Len(done[p]) + 1] = d
      /\ Len(done[p]) \in Nat
      /\ SubSeq(w, 1, Len(done[p])) = done[p]
  BY <1>1, Appended
<1>3. IsSubsequence(audit[p], done[p]) /\ Len(done[p]) = Len(audit[p]) + unlogged[p]
  BY DEF AuditOK
<1> HIDE DEF w
<1>4. Len(w) - 1 = Len(done[p])
  BY <1>2
<1>5. /\ w # <<>> /\ w[Len(w)] = d
      /\ IsSubsequence(audit[p], SubSeq(w, 1, Len(w) - 1))
      /\ Len(w) = Len(audit[p]) + unlogged[p] + 1
  BY <1>2, <1>3, <1>4
<1>6. done'[p] = w
  BY DEF w
<1> QED
  BY <1>5, <1>6 DEF AuditOK

\* Out of "append": the line is written, or could not be, or nobody is left to do it.
LEMMA AuditSettles ==
    ASSUME TypeOK, NEW p \in Audited, AuditOK(p), pc[p] = "append",
           pc'[p] # "append", done'[p] = done[p],
           \/ audit'[p] = Append(audit[p], current[p]) /\ unlogged'[p] = unlogged[p]
           \/ audit'[p] = audit[p] /\ unlogged'[p] = unlogged[p] + 1
           \/ audit'[p] = audit[p] /\ unlogged'[p] = unlogged[p] /\ pc'[p] = "interrupted"
    PROVE  AuditOK(p)'
<1>1. /\ done[p] \in Seq(Decision) /\ audit[p] \in Seq(Decision) /\ unlogged[p] \in Nat
      /\ Len(audit[p]) \in Nat /\ Len(done[p]) \in Nat
  BY ReviewAssumption DEF TypeOK
<1>2. /\ done[p] # <<>> /\ done[p][Len(done[p])] = current[p]
      /\ IsSubsequence(audit[p], SubSeq(done[p], 1, Len(done[p]) - 1))
      /\ Len(done[p]) = Len(audit[p]) + unlogged[p] + 1
  BY DEF AuditOK
<1> DEFINE w == SubSeq(done[p], 1, Len(done[p]) - 1)
<1>3. w \in Seq(Decision) /\ current[p] \in Decision /\ done[p] = Append(w, current[p])
  <2>1. PICK s \in Seq(Decision) : s = done[p] /\ s # <<>> /\ s[Len(s)] = current[p]
    BY <1>1, <1>2
  <2>2. /\ SubSeq(s, 1, Len(s) - 1) \in Seq(Decision) /\ s[Len(s)] \in Decision
        /\ s = Append(SubSeq(s, 1, Len(s) - 1), s[Len(s)])
    BY <2>1, Parted
  <2> QED
    BY <2>1, <2>2
<1> HIDE DEF w
<1>4. IsSubsequence(audit[p], w)
  BY <1>2 DEF w
<1>5. IsSubsequence(audit[p], done[p])
  BY <1>1, <1>3, <1>4, SubsequenceOfLonger
<1>6. IsSubsequence(Append(audit[p], current[p]), done[p])
  BY <1>1, <1>3, <1>4, SubsequenceExtends
<1>7. Len(Append(audit[p], current[p])) = Len(audit[p]) + 1
  BY <1>1, <1>3, Appended
<1>8. CASE audit'[p] = Append(audit[p], current[p]) /\ unlogged'[p] = unlogged[p]
  BY <1>1, <1>2, <1>6, <1>7, <1>8 DEF AuditOK
<1>9. CASE audit'[p] = audit[p] /\ unlogged'[p] = unlogged[p] + 1
  BY <1>1, <1>2, <1>5, <1>9 DEF AuditOK
<1>10. CASE audit'[p] = audit[p] /\ unlogged'[p] = unlogged[p] /\ pc'[p] = "interrupted"
  BY <1>2, <1>5, <1>10 DEF AuditOK
<1> QED
  BY <1>8, <1>9, <1>10

\* Nothing happens to the history and the log.
LEMMA AuditWaits ==
    ASSUME NEW p \in Audited, AuditOK(p), pc[p] \notin {"append", "interrupted"}, pc'[p] # "append",
           done'[p] = done[p], audit'[p] = audit[p], unlogged'[p] = unlogged[p]
    PROVE  AuditOK(p)'
BY DEF AuditOK

LEMMA AuditStep ==
    ASSUME TypeOK, \A p \in Passes : PersistingOK(p), \A p \in Audited : AuditOK(p), [Next]_vars
    PROVE  \A p \in Audited : AuditOK(p)'
<1> USE DEF history, passvars
<1>1. ASSUME NEW q \in Audited, Kept(q) PROVE AuditOK(q)'
  BY <1>1 DEF Kept, AuditOK
<1>2. ASSUME NEW p \in Audited, Pass(p) \/ Interrupt(p) PROVE AuditOK(p)'
  <2>0. p \in Passes /\ AuditOK(p) /\ PersistingOK(p)
    BY ReviewAssumption
  <2>1. ASSUME NEW filter \in Filters, NEW mode \in Modes, Load(p, filter, mode)
        PROVE  AuditOK(p)'
    BY <2>0, <2>1, AuditWaits DEF TypeOK, Load, Go
  <2>2. ASSUME NEW d \in Decision, Decide(p, d)
        PROVE  AuditOK(p)'
    <3>1. CASE d.decision = "skip"
      BY <2>0, <2>2, <3>1, AuditTakesOn DEF TypeOK, Decide, Done, Go
    <3>2. CASE d.decision # "skip"
      BY <2>0, <2>2, <3>2, AuditWaits DEF TypeOK, Decide, Go
    <3> QED
      BY <3>1, <3>2
  <2>3. CASE Effective(p) /\ pc[p] \in {"read", "write"} /\ UNCHANGED <<audit, unlogged>>
    <3>1. current[p] \in Decision
      BY <2>0, <2>3 DEF PersistingOK
    <3> QED
      BY <2>0, <2>3, <3>1, EffectiveStep, AuditTakesOn
  <2>4. CASE Read(p)
    <3>1. CASE ~Effective(p)
      BY <2>0, <2>4, <3>1, AuditWaits DEF TypeOK, Read, Go
    <3> QED
      BY <2>3, <2>4, <3>1 DEF Read
  <2>5. CASE Write(p)
    BY <2>3, <2>5 DEF Write
  <2>6. CASE AppendLine(p)
    BY <2>0, <2>6, AuditSettles DEF TypeOK, AppendLine, Envelope, Persisted, Go
  <2>7. CASE AppendFails(p)
    BY <2>0, <2>7, AuditSettles DEF TypeOK, AppendFails, Persisted, Go
  <2>8. CASE Register(p) \/ RegisterFails(p)
    BY <2>0, <2>8, AuditWaits DEF TypeOK, Register, RegisterFails, Persisted, Go
  <2>9. CASE WriteFails(p) \/ EndPass(p)
    BY <2>0, <2>9, AuditWaits DEF TypeOK, WriteFails, EndPass, Finish, Go
  <2>10. CASE Interrupt(p)
    <3>1. /\ pc'[p] = "interrupted" /\ done'[p] = done[p] /\ audit'[p] = audit[p]
          /\ unlogged'[p] = unlogged[p] /\ pc[p] # "interrupted"
      BY <2>0, <2>10 DEF TypeOK, Interrupt, Finish, Go
    <3>2. CASE pc[p] = "append"
      BY <2>0, <3>1, <3>2, AuditSettles
    <3>3. CASE pc[p] # "append"
      BY <2>0, <3>1, <3>3, AuditWaits
    <3> QED
      BY <3>2, <3>3
  <2> QED
    BY <1>2, <2>1, <2>2, <2>4, <2>5, <2>6, <2>7, <2>8, <2>9, <2>10 DEF Pass, Persist
<1>3. CASE UNCHANGED vars
  BY <1>1, <1>3 DEF vars, Kept
<1>4. ASSUME NEW p \in Passes, Pass(p) \/ Interrupt(p), NEW q \in Audited PROVE AuditOK(q)'
  BY <1>1, <1>2, <1>4, OthersKept, ReviewAssumption
<1>5. ASSUME NEW c \in Classifiers, Reclassify(c), NEW q \in Audited PROVE AuditOK(q)'
  BY <1>1, <1>5, ReclassifyKeeps, ReviewAssumption
<1> QED
  BY <1>3, <1>4, <1>5 DEF Next

-----------------------------------------------------------------------------
LEMMA ReviewInit == Init => ReviewInv
<1> SUFFICES ASSUME Init PROVE ReviewInv
  OBVIOUS
<1>1. TypeOK
  BY TypeInit
<1>2. NoDecisionLost
  BY DEF Init, NoDecisionLost, FirstRow
<1>3. \A p \in Passes : PersistingOK(p)
  BY DEF Init, PersistingOK
<1>4. ASSUME NEW p \in Audited PROVE AuditOK(p)
  <2>1. audit[p] = <<>> /\ done[p] = <<>> /\ unlogged[p] = 0 /\ pc[p] = "idle"
    BY ReviewAssumption DEF Init
  <2>2. <<>> \in Seq(Decision) /\ Len(<<>>) = 0
    OBVIOUS
  <2>3. IsSubsequence(<<>>, <<>>)
    BY <2>2, SubsequenceEmpty
  <2> QED
    BY <2>1, <2>2, <2>3 DEF AuditOK
<1> QED
  BY <1>1, <1>2, <1>3, <1>4 DEF ReviewInv

\* The rows, the decisions and the audit log of a recording fit together through
\* all passes and re-classifications (confirmation/runner.py, cli/commands).
THEOREM ReviewInvariant == Spec => []ReviewInv
<1>1. ASSUME ReviewInv, [Next]_vars PROVE ReviewInv'
  <2>1. TypeOK'
    BY <1>1, TypeStep DEF ReviewInv
  <2>2. NoDecisionLost'
    BY <1>1, <2>1, DecisionStep DEF ReviewInv
  <2>3. \A p \in Passes : PersistingOK(p)'
    BY <1>1, PersistingStep DEF ReviewInv
  <2>4. \A p \in Audited : AuditOK(p)'
    BY <1>1, AuditStep DEF ReviewInv
  <2> QED
    BY <2>1, <2>2, <2>3, <2>4 DEF ReviewInv
<1> QED
  BY <1>1, ReviewInit, PTL DEF Spec

\* A decision that has taken effect stays, unless somebody writes by a row as it
\* was before someone else changed it (storage/repositories.py:174-197).
THEOREM DecisionsStay == Spec => []NoDecisionLost
<1>1. ReviewInv => NoDecisionLost
  BY DEF ReviewInv
<1> QED
  BY <1>1, ReviewInvariant, PTL

\* The audit log of a pass has the decisions that took effect, in their order,
\* save for failed appends and one that was under way (confirmation/runner.py:135-154).
THEOREM AuditTells == Spec => []AuditCovers
<1>1. ReviewInv => AuditCovers
  <2> SUFFICES ASSUME ReviewInv, NEW p \in Audited
               PROVE  /\ IsSubsequence(audit[p], done[p])
                      /\ Len(done[p]) - Len(audit[p]) - unlogged[p] \in
                              IF pc[p] \in {"append", "interrupted"} THEN 0..1 ELSE {0}
    BY DEF AuditCovers
  <2>1. /\ done[p] \in Seq(Decision) /\ audit[p] \in Seq(Decision) /\ unlogged[p] \in Nat
        /\ Len(audit[p]) \in Nat /\ Len(done[p]) \in Nat
    BY ReviewAssumption DEF ReviewInv, TypeOK
  <2>2. AuditOK(p)
    BY DEF ReviewInv
  <2>3. PICK n : n = Len(done[p]) - Len(audit[p]) - unlogged[p]
    OBVIOUS
  <2>4. /\ Len(done[p]) = Len(audit[p]) + unlogged[p] => n = 0
        /\ Len(done[p]) = Len(audit[p]) + unlogged[p] + 1 => n = 1
    <3>1. PICK x \in Nat, y \in Nat, z \in Nat :
              x = Len(done[p]) /\ y = Len(audit[p]) /\ z = unlogged[p]
      BY <2>1
    <3>2. (x = y + z => x - y - z = 0) /\ (x = y + z + 1 => x - y - z = 1)
      OBVIOUS
    <3> QED
      BY <2>3, <3>1, <3>2
  <2>5. 0 \in 0..1 /\ 1 \in 0..1
    OBVIOUS
  <2>6. CASE pc[p] # "append"
    <3>1. /\ IsSubsequence(audit[p], done[p])
          /\ n = 0 \/ (pc[p] = "interrupted" /\ n = 1)
      BY <2>2, <2>4, <2>6 DEF AuditOK
    <3> QED
      BY <2>3, <2>5, <3>1
  <2>7. CASE pc[p] = "append"
    <3>1. /\ done[p] # <<>>
          /\ IsSubsequence(audit[p], SubSeq(done[p], 1, Len(done[p]) - 1))
          /\ n = 1
      BY <2>2, <2>4, <2>7 DEF AuditOK
    <3>2. PICK s \in Seq(Decision) : s = done[p] /\ s # <<>>
      BY <2>1, <3>1
    <3>3. /\ SubSeq(s, 1, Len(s) - 1) \in Seq(Decision) /\ s[Len(s)] \in Decision
          /\ s = Append(SubSeq(s, 1, Len(s) - 1), s[Len(s)])
      BY <3>2, Parted
    <3>4. IsSubsequence(audit[p], s)
      BY <2>1, <3>1, <3>2, <3>3, SubsequenceOfLonger
    <3> QED
      BY <2>3, <2>5, <2>7, <3>1, <3>2, <3>4
  <2> QED
    BY <2>6, <2>7
<1> QED
  BY <1>1, ReviewInvariant, PTL
=============================================================================
