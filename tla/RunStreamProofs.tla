--------------------------- MODULE RunStreamProofs ---------------------------
(* Proofs about RunStream: repeats are far apart, and few events fall into the gap. *)
EXTENDS RunStream, FiniteSetTheorems, FunctionTheorems, SequenceTheorems, TLAPS

-----------------------------------------------------------------------------
(* Sequences and what is in them. *)

LEMMA Joined ==
    ASSUME NEW T, NEW s \in Seq(T), NEW t \in Seq(T)
    PROVE  /\ s \o t \in Seq(T)
           /\ Len(s) \in Nat /\ Len(t) \in Nat /\ Len(s \o t) = Len(s) + Len(t)
           /\ \A i \in 1..Len(s) : (s \o t)[i] = s[i]
           /\ \A i \in 1..Len(t) : (s \o t)[Len(s) + i] = t[i]
           /\ \A i \in 1..Len(s \o t) : \/ i \in 1..Len(s) /\ (s \o t)[i] = s[i]
                                        \/ /\ i - Len(s) \in 1..Len(t)
                                           /\ (s \o t)[i] = t[i - Len(s)]
           /\ Elems(s \o t) = Elems(s) \cup Elems(t)
<1>1. /\ s \o t \in Seq(T)
      /\ Len(s) \in Nat /\ Len(t) \in Nat /\ Len(s \o t) = Len(s) + Len(t)
      /\ \A i \in 1..Len(s) : (s \o t)[i] = s[i]
  OBVIOUS
<1>2. \A i \in 1..Len(t) : (s \o t)[Len(s) + i] = t[i]
  BY <1>1
<1>3. \A i \in 1..Len(s \o t) : \/ i \in 1..Len(s) /\ (s \o t)[i] = s[i]
                                \/ /\ i - Len(s) \in 1..Len(t)
                                   /\ (s \o t)[i] = t[i - Len(s)]
  BY <1>1
<1>4. \A i \in 1..Len(t) : Len(s) + i \in 1..Len(s \o t)
  BY <1>1
<1>5. \A i \in 1..Len(s) : i \in 1..Len(s \o t)
  BY <1>1
<1> DEFINE w == s \o t
<1>6. Elems(w) = Elems(s) \cup Elems(t)
  <2>1. Elems(w) \subseteq Elems(s) \cup Elems(t)
    BY <1>3 DEF Elems
  <2>2. Elems(s) \subseteq Elems(w)
    BY <1>1, <1>5 DEF Elems
  <2>3. Elems(t) \subseteq Elems(w)
    BY <1>2, <1>4 DEF Elems
  <2> QED
    BY <2>1, <2>2, <2>3
<1> QED
  BY <1>1, <1>2, <1>3, <1>6

LEMMA Appended ==
    ASSUME NEW T, NEW s \in Seq(T), NEW x \in T
    PROVE  /\ Append(s, x) \in Seq(T) /\ Append(s, x) # <<>>
           /\ Len(s) \in Nat /\ Len(Append(s, x)) = Len(s) + 1
           /\ \A i \in 1..Len(s) : Append(s, x)[i] = s[i]
           /\ Append(s, x)[Len(s) + 1] = x
           /\ Elems(Append(s, x)) = Elems(s) \cup {x}
<1>1. /\ Append(s, x) \in Seq(T) /\ Append(s, x) # <<>>
      /\ Len(s) \in Nat /\ Len(Append(s, x)) = Len(s) + 1
      /\ \A i \in 1..Len(s) : Append(s, x)[i] = s[i]
      /\ Append(s, x)[Len(s) + 1] = x
  OBVIOUS
<1> DEFINE w == Append(s, x)
<1>2. \A i \in 1..(Len(s) + 1) : i \in 1..Len(s) \/ i = Len(s) + 1
  BY <1>1
<1> HIDE DEF w
<1>3. Elems(w) = Elems(s) \cup {x}
  BY <1>1, <1>2 DEF Elems, w
<1> QED
  BY <1>1, <1>3 DEF w

LEMMA Taken ==
    ASSUME NEW T, NEW s \in Seq(T), s # <<>>
    PROVE  /\ Head(s) \in T /\ Tail(s) \in Seq(T) /\ Head(s) = s[1]
           /\ Len(s) \in Nat /\ Len(s) >= 1 /\ Len(Tail(s)) = Len(s) - 1
           /\ \A i \in 1..Len(Tail(s)) : i + 1 \in 1..Len(s) /\ Tail(s)[i] = s[i + 1]
           /\ Elems(s) = {Head(s)} \cup Elems(Tail(s))
<1>1. /\ Head(s) \in T /\ Tail(s) \in Seq(T) /\ Head(s) = s[1]
      /\ Len(s) \in Nat /\ Len(s) >= 1 /\ Len(Tail(s)) = Len(s) - 1
      /\ \A i \in 1..Len(Tail(s)) : i + 1 \in 1..Len(s) /\ Tail(s)[i] = s[i + 1]
  OBVIOUS
<1> DEFINE w == Tail(s)
<1>2. \A i \in 1..Len(s) : i = 1 \/ (i - 1 \in 1..Len(w) /\ s[i] = w[i - 1])
  BY <1>1
<1>3. 1 \in 1..Len(s)
  BY <1>1
<1> HIDE DEF w
<1>4. Elems(s) \subseteq {s[1]} \cup Elems(w)
  <2>1. \A i \in 1..Len(s) : s[i] = s[1] \/ \E k \in 1..Len(w) : s[i] = w[k]
    BY <1>2
  <2> QED
    BY <2>1 DEF Elems
<1>5. {s[1]} \cup Elems(w) \subseteq Elems(s)
  BY <1>1, <1>3 DEF Elems, w
<1> QED
  BY <1>1, <1>4, <1>5 DEF w

LEMMA NoElems == Elems(<<>>) = {}
BY DEF Elems

LEMMA ReversedFacts ==
    ASSUME NEW T, NEW s \in Seq(T)
    PROVE  Reversed(s) \in Seq(T) /\ Elems(Reversed(s)) = Elems(s)
<1>1. Len(s) \in Nat
  OBVIOUS
<1> DEFINE r == Reversed(s)
<1>2. /\ r \in Seq(T) /\ Len(r) = Len(s)
      /\ \A i \in 1..Len(s) : Len(s) + 1 - i \in 1..Len(s) /\ r[i] = s[Len(s) + 1 - i]
  BY <1>1 DEF Reversed
<1>3. \A i \in 1..Len(s) : r[Len(s) + 1 - i] = s[i]
  <2> TAKE i \in 1..Len(s)
  <2>1. PICK k \in 1..Len(s) : k = Len(s) + 1 - i /\ Len(s) + 1 - k = i
    <3>1. PICK n \in Nat : n = Len(s)
      BY <1>1
    <3>2. i \in 1..n /\ i \in Nat
      BY <3>1
    <3>3. n + 1 - i \in 1..n /\ n + 1 - (n + 1 - i) = i
      BY <3>2
    <3> QED
      BY <3>1, <3>3
  <2> QED
    BY <1>2, <2>1
<1> HIDE DEF r
<1>4. Elems(r) \subseteq Elems(s)
  BY <1>2 DEF Elems
<1>5. Elems(s) \subseteq Elems(r)
  BY <1>2, <1>3 DEF Elems
<1> QED
  BY <1>2, <1>4, <1>5 DEF r

\* LTRIM keeps the head of the list.
LEMMA NewestFacts ==
    ASSUME NEW T, NEW s \in Seq(T), NEW n \in Nat \ {0}
    PROVE  /\ Newest(s, n) \in Seq(T)
           /\ Len(Newest(s, n)) \in Nat /\ Len(Newest(s, n)) <= n /\ Len(Newest(s, n)) <= Len(s)
           /\ \A i \in 1..Len(Newest(s, n)) : Newest(s, n)[i] = s[i]
           /\ s # <<>> => Len(Newest(s, n)) > 0
<1>1. Len(s) \in Nat /\ (s # <<>> => Len(s) > 0)
  OBVIOUS
<1>2. CASE Len(s) <= n
  BY <1>1, <1>2 DEF Newest
<1>3. CASE Len(s) > n
  <2>1. /\ SubSeq(s, 1, n) \in Seq(T) /\ Len(SubSeq(s, 1, n)) = n
        /\ \A i \in 1..n : SubSeq(s, 1, n)[i] = s[i]
    <3>1. \A i \in 1..n : s[i] \in T /\ 1 + i - 1 = i
      BY <1>1, <1>3
    <3>2. n - 1 + 1 = n /\ 1 <= n
      OBVIOUS
    <3>3. /\ SubSeq(s, 1, n) \in Seq(T) /\ Len(SubSeq(s, 1, n)) = IF 1 <= n THEN n - 1 + 1 ELSE 0
          /\ \A i \in 1..(n - 1 + 1) : SubSeq(s, 1, n)[i] = s[1 + i - 1]
      BY <3>1, SubSeqProperties
    <3> QED
      BY <3>1, <3>2, <3>3
  <2>2. ~(Len(s) <= n)
    BY <1>1, <1>3
  <2> QED
    BY <1>1, <1>3, <2>1, <2>2 DEF Newest
<1> QED
  BY <1>1, <1>2, <1>3

\* A deque with maxlen forgets from its other end.
LEMMA LastOfFacts ==
    ASSUME NEW T, NEW s \in Seq(T), NEW n \in Nat \ {0}
    PROVE  /\ LastOf(s, n) \in Seq(T) /\ Len(LastOf(s, n)) <= n
           /\ Elems(LastOf(s, n)) \subseteq Elems(s)
           /\ Len(s) <= n => LastOf(s, n) = s
           /\ Len(s) > n => /\ Len(LastOf(s, n)) = n
                           /\ \A i \in 1..n : LastOf(s, n)[i] = s[Len(s) - n + i]
<1>1. Len(s) \in Nat
  OBVIOUS
<1>2. CASE Len(s) <= n
  BY <1>1, <1>2 DEF LastOf
<1>3. CASE Len(s) > n
  <2>2. PICK l \in Nat : l = Len(s)
    BY <1>1
  <2>0. l - n + 1 \in Int
    OBVIOUS
  <2>1. PICK m \in Int : m = Len(s) - n + 1
    BY <2>0, <2>2
  <2>3. \A i \in m..l : s[i] \in T
    BY <1>3, <2>1, <2>2
  <2>4. l - m + 1 = n /\ m <= l /\ \A i \in 1..n : m + i - 1 \in 1..l
    BY <1>3, <2>1, <2>2
  <2> DEFINE w == SubSeq(s, m, l)
  <2>5. /\ w \in Seq(T) /\ Len(w) = IF m <= l THEN l - m + 1 ELSE 0
        /\ \A i \in 1..(l - m + 1) : w[i] = s[m + i - 1]
    BY <2>3, SubSeqProperties
  <2> HIDE DEF w
  <2>6. Len(w) = n /\ \A i \in 1..n : w[i] = s[m + i - 1]
    BY <2>4, <2>5
  <2>7. Elems(w) \subseteq Elems(s)
    BY <2>2, <2>4, <2>6 DEF Elems
  <2>8. LastOf(s, n) = w /\ ~(Len(s) <= n)
    BY <1>1, <1>3, <2>1, <2>2 DEF LastOf, w
  <2>9. \A i \in 1..n : w[i] = s[Len(s) - n + i]
    <3>1. \A i \in 1..n : m + i - 1 = Len(s) - n + i
      BY <2>1, <2>2
    <3> QED
      BY <2>6, <3>1
  <2> QED
    BY <2>5, <2>6, <2>7, <2>8, <2>9
<1> QED
  BY <1>1, <1>2, <1>3

-----------------------------------------------------------------------------
(* Types *)

\* What has_seen and the queue do with an event.
LEMMA OfferFacts ==
    ASSUME TypeOK, NEW e \in Event, NEW via \in {"backfill", "live"}, Offer(e, via)
    PROVE  /\ queue' \in Seq(Event) /\ Len(queue') <= QueueCap
           /\ dedup' \in Seq(Event) /\ Len(dedup') <= Window
           /\ dropped' \in SUBSET Event
           /\ Elems(dedup') \subseteq Elems(dedup) \cup {e}
           /\ Elems(queue) \cup dropped \subseteq Elems(queue') \cup dropped'
           /\ e \in Elems(dedup) \cup Elems(queue')
           /\ accepted' \in Seq(Entry)
<1>1. /\ queue \in Seq(Event) /\ Len(queue) <= QueueCap /\ Len(queue) \in Nat
      /\ dedup \in Seq(Event) /\ Len(dedup) <= Window
      /\ QueueCap \in Nat \ {0} /\ Window \in Nat \ {0}
      /\ accepted \in Seq(Entry) /\ [event |-> e, via |-> via] \in Entry
  BY RunStreamAssumption DEF TypeOK, Entry
<1>2. Append(dedup, e) \in Seq(Event) /\ Elems(Append(dedup, e)) = Elems(dedup) \cup {e}
  BY <1>1, Appended
<1> DEFINE d == LastOf(Append(dedup, e), Window)
<1>3. d \in Seq(Event) /\ Len(d) <= Window /\ Elems(d) \subseteq Elems(dedup) \cup {e}
  BY <1>1, <1>2, LastOfFacts
<1> HIDE DEF d
<1>4. Append(accepted, [event |-> e, via |-> via]) \in Seq(Entry)
  BY <1>1, Appended
<1>5. CASE Skip(e)
  BY <1>1, <1>5 DEF TypeOK, Skip, subVars
<1>6. CASE Accept(e, via)
  <2>1. queue' = Append(queue, e) /\ Len(queue) < QueueCap /\ dedup' = d /\ dropped' = dropped
    BY <1>6 DEF Accept, d
  <2>2. /\ Append(queue, e) \in Seq(Event) /\ Len(Append(queue, e)) = Len(queue) + 1
        /\ Elems(Append(queue, e)) = Elems(queue) \cup {e}
    BY <1>1, Appended
  <2>3. Len(queue') <= QueueCap
    BY <1>1, <2>1, <2>2
  <2>4. accepted' \in Seq(Entry)
    BY <1>6, <1>4 DEF Accept, LetThrough
  <2> QED
    BY <1>3, <2>1, <2>2, <2>3, <2>4 DEF TypeOK
<1>7. CASE AcceptFull(e, via)
  <2>1. /\ queue' = Append(Tail(queue), e) /\ Len(queue) = QueueCap /\ dedup' = d
        /\ dropped' = dropped \cup {Head(queue)}
    BY <1>7 DEF AcceptFull, d
  <2>2. queue # <<>>
    BY <1>1, <2>1
  <2>3. /\ Head(queue) \in Event /\ Tail(queue) \in Seq(Event)
        /\ Len(Tail(queue)) = Len(queue) - 1
        /\ Elems(queue) = {Head(queue)} \cup Elems(Tail(queue))
    BY <1>1, <2>2, Taken
  <2>4. /\ Append(Tail(queue), e) \in Seq(Event) /\ Len(Append(Tail(queue), e)) = Len(Tail(queue)) + 1
        /\ Elems(Append(Tail(queue), e)) = Elems(Tail(queue)) \cup {e}
    <3>1. PICK w \in Seq(Event) : w = Tail(queue)
      BY <2>3
    <3>2. /\ Append(w, e) \in Seq(Event) /\ Len(Append(w, e)) = Len(w) + 1
          /\ Elems(Append(w, e)) = Elems(w) \cup {e}
      BY Appended
    <3> QED
      BY <3>1, <3>2
  <2>5. Len(queue') <= QueueCap
    BY <1>1, <2>1, <2>3, <2>4
  <2>6. accepted' \in Seq(Entry)
    BY <1>7, <1>4 DEF AcceptFull, LetThrough
  <2> QED
    BY <1>3, <2>1, <2>3, <2>4, <2>5, <2>6 DEF TypeOK
<1> QED
  BY <1>5, <1>6, <1>7 DEF Offer

LEMMA TypeInit == Init => TypeOK
<1> SUFFICES ASSUME Init PROVE TypeOK
  OBVIOUS
<1>1. <<>> \in Seq(Event) /\ <<>> \in Seq(Entry) /\ Len(<<>>) = 0
  OBVIOUS
<1>2. /\ 0 \in 0..MaxEvents /\ 0 \in 0..MaxFaults
      /\ 0 <= ListCap + 0 + 0 /\ 0 <= QueueCap /\ 0 <= Window
  BY RunStreamAssumption
<1>3. Len(list) <= ListCap + faults + (IF pipe = "pushed" THEN 1 ELSE 0)
  BY <1>1, <1>2 DEF Init
<1> QED
  BY <1>1, <1>2, <1>3 DEF Init, TypeOK

\* The LRANGE reply turned round, and its oldest event.
LEMMA LastFacts == TypeOK => Last \in 0..MaxEvents /\ (list # <<>> => Last \in Elems(list))
<1> SUFFICES ASSUME TypeOK PROVE Last \in 0..MaxEvents /\ (list # <<>> => Last \in Elems(list))
  OBVIOUS
<1>1. list \in Seq(Event) /\ MaxEvents \in Nat
  BY RunStreamAssumption DEF TypeOK
<1>2. CASE list = <<>>
  BY <1>1, <1>2 DEF Last
<1>3. CASE list # <<>>
  <2>1. Len(list) \in 1..Len(list) /\ list[Len(list)] \in Event
    BY <1>1, <1>3
  <2> QED
    BY <1>1, <1>3, <2>1 DEF Last, Elems, Event
<1> QED
  BY <1>2, <1>3

LEMMA TypeStep == ASSUME TypeOK, ListOK, [Next]_vars PROVE TypeOK'
<1> USE RunStreamAssumption DEF redisVars, subVars, history
<1>0. /\ published \in 0..MaxEvents /\ faults \in 0..MaxFaults /\ MaxEvents \in Nat /\ MaxFaults \in Nat
      /\ list \in Seq(Event) /\ Len(list) \in Nat /\ ListCap \in Nat \ {0}
      /\ wire \in Seq(Event) /\ reply \in Seq(Event) /\ queue \in Seq(Event) /\ sent \in Seq(Event)
      /\ Len(queue) \in Nat /\ Len(queue) <= QueueCap /\ QueueCap \in Nat
  BY DEF TypeOK
<1>1. CASE UNCHANGED vars
  BY <1>1 DEF TypeOK, vars
<1>2. CASE Publish
  <2>1. published + 1 \in Event
    BY <1>0, <1>2 DEF Publish, Event
  <2>2. Append(wire, published + 1) \in Seq(Event)
    BY <1>0, <2>1, Appended
  <2>3. published' \in 0..MaxEvents /\ wire' \in Seq(Event)
    BY <1>0, <1>2, <2>2 DEF Publish
  <2>4. Len(list') <= ListCap + faults' + (IF pipe' = "pushed" THEN 1 ELSE 0)
    BY <1>2 DEF TypeOK, Publish
  <2> QED
    BY <1>2, <2>3, <2>4 DEF TypeOK, Publish
<1>3. CASE Push
  <2>1. published \in Event
    BY <1>0, <1>3 DEF Push, ListOK, Event
  <2>2. PICK new \in Seq(Event) : new = <<published>> /\ Len(new) = 1
    <3>1. <<published>> \in Seq(Event) /\ Len(<<published>>) = 1
      BY <2>1
    <3> QED
      BY <3>1
  <2>3. /\ new \o list \in Seq(Event) /\ Len(new \o list) = Len(list) + 1
    BY <1>0, <2>2
  <2>4. list' = new \o list
    BY <1>3, <2>2 DEF Push
  <2>5. Len(list) <= ListCap + faults
    BY <1>0, <1>3 DEF Push, TypeOK
  <2>6. list' \in Seq(Event) /\ Len(list') <= ListCap + faults + 1
    BY <1>0, <2>3, <2>4, <2>5
  <2> QED
    BY <1>3, <2>6 DEF TypeOK, Push
<1>4. CASE Trim
  <2>1. list' \in Seq(Event) /\ Len(list') <= ListCap /\ Len(list') \in Nat
    BY <1>0, <1>4, NewestFacts DEF Trim
  <2>2. Len(list') <= ListCap + faults
    BY <1>0, <2>1
  <2>3. pipe' = "idle" /\ faults' = faults
    BY <1>4 DEF Trim
  <2>4. Len(list') <= ListCap + faults' + (IF pipe' = "pushed" THEN 1 ELSE 0)
    BY <1>0, <2>2, <2>3
  <2> QED
    BY <1>4, <2>1, <2>4 DEF TypeOK, Trim
<1>5. CASE PublishLost \/ PipelineBreaks
  <2>1. published' \in 0..MaxEvents /\ faults' \in 0..MaxFaults /\ faults' = faults + 1
    BY <1>0, <1>5 DEF PublishLost, PipelineBreaks
  <2>2. Len(list) <= ListCap + faults + 1
    BY <1>0 DEF TypeOK
  <2>3. /\ Len(list) <= ListCap + faults'
        /\ Len(list) <= ListCap + faults' + 1
    BY <1>0, <2>1, <2>2
  <2>4. list' = list /\ pipe' \in {"idle", "published", "pushed"}
    BY <1>5 DEF PublishLost, PipelineBreaks, TypeOK
  <2>5. Len(list') <= ListCap + faults' + (IF pipe' = "pushed" THEN 1 ELSE 0)
    BY <1>0, <2>1, <2>3, <2>4
  <2> QED
    BY <1>5, <2>1, <2>4, <2>5 DEF TypeOK, PublishLost, PipelineBreaks
<1>6. CASE SubscribeSent \/ SubscribeTakesEffect \/ Attach \/ LrangeFails \/ BackfillDone \/ ReaderFails
  BY <1>6 DEF TypeOK, SubscribeSent, SubscribeTakesEffect, Attach, LrangeFails, BackfillDone, ReaderFails
<1>7. CASE Lrange
  <2>1. reply' \in Seq(Event)
    BY <1>0, <1>7, ReversedFacts DEF Lrange
  <2>2. oldest' \in 0..MaxEvents
    BY <1>7, LastFacts DEF Lrange, Last
  <2> QED
    BY <1>7, <2>1, <2>2 DEF TypeOK, Lrange
<1>8. CASE BackfillOne
  <2>1. Head(reply) \in Event /\ Tail(reply) \in Seq(Event) /\ Offer(Head(reply), "backfill")
    BY <1>0, <1>8, Taken DEF BackfillOne, Busy
  <2>2. /\ queue' \in Seq(Event) /\ Len(queue') <= QueueCap
        /\ dedup' \in Seq(Event) /\ Len(dedup') <= Window /\ dropped' \in SUBSET Event
        /\ accepted' \in Seq(Entry)
    BY <2>1, OfferFacts
  <2> QED
    BY <1>8, <2>1, <2>2 DEF TypeOK, BackfillOne
<1>9. CASE Fanout
  <2>1. Head(wire) \in Event /\ Tail(wire) \in Seq(Event)
    BY <1>0, <1>9, Taken DEF Fanout
  <2>2. /\ queue' \in Seq(Event) /\ Len(queue') <= QueueCap
        /\ dedup' \in Seq(Event) /\ Len(dedup') <= Window /\ dropped' \in SUBSET Event
        /\ accepted' \in Seq(Entry)
    BY <1>9, <2>1, OfferFacts DEF TypeOK, Fanout
  <2> QED
    BY <1>9, <2>1, <2>2 DEF TypeOK, Fanout
<1>10. CASE Send
  <2>1. /\ Head(queue) \in Event /\ Tail(queue) \in Seq(Event) /\ Len(Tail(queue)) = Len(queue) - 1
    BY <1>0, <1>10, Taken DEF Send
  <2>2. Append(sent, Head(queue)) \in Seq(Event)
    BY <1>0, <2>1, Appended
  <2>3. Len(Tail(queue)) <= QueueCap
    BY <1>0, <2>1
  <2> QED
    BY <1>10, <2>1, <2>2, <2>3 DEF TypeOK, Send
<1> QED
  BY <1>1, <1>2, <1>3, <1>4, <1>5, <1>6, <1>7, <1>8, <1>9, <1>10 DEF Next, Publisher, Subscriber

-----------------------------------------------------------------------------
(* The list *)

\* LPUSH
LEMMA Pushed ==
    ASSUME NEW T, NEW s \in Seq(T), NEW x \in T
    PROVE  /\ <<x>> \o s \in Seq(T) /\ <<x>> \o s # <<>>
           /\ Len(s) \in Nat /\ Len(<<x>> \o s) = Len(s) + 1
           /\ \A i \in 1..Len(<<x>> \o s) : \/ i = 1 /\ (<<x>> \o s)[i] = x
                                            \/ i - 1 \in 1..Len(s) /\ (<<x>> \o s)[i] = s[i - 1]
           /\ Elems(<<x>> \o s) = {x} \cup Elems(s)
<1>1. <<x>> \in Seq(T) /\ Len(<<x>>) = 1 /\ Elems(<<x>>) = {x}
  BY DEF Elems
<1>2. PICK h \in Seq(T) : h = <<x>> /\ Len(h) = 1 /\ Elems(h) = {x}
  BY <1>1
<1>3. /\ h \o s \in Seq(T)
      /\ Len(h) \in Nat /\ Len(s) \in Nat /\ Len(h \o s) = Len(h) + Len(s)
      /\ \A i \in 1..Len(h \o s) : \/ i \in 1..Len(h) /\ (h \o s)[i] = h[i]
                                   \/ /\ i - Len(h) \in 1..Len(s)
                                      /\ (h \o s)[i] = s[i - Len(h)]
      /\ Elems(h \o s) = Elems(h) \cup Elems(s)
  BY Joined
<1>4. h[1] = x /\ 1..Len(h) = {1}
  BY <1>2
<1>5. \A i \in 1..Len(h \o s) : \/ i = 1 /\ (h \o s)[i] = x
                                \/ i - 1 \in 1..Len(s) /\ (h \o s)[i] = s[i - 1]
  BY <1>2, <1>3, <1>4
<1>6. Len(h \o s) = Len(s) + 1 /\ h \o s # <<>>
  BY <1>2, <1>3
<1> QED
  BY <1>2, <1>3, <1>5, <1>6

LEMMA WiderSeq == ASSUME NEW S, NEW T, S \subseteq T, NEW s \in Seq(S) PROVE s \in Seq(T)
<1>1. Len(s) \in Nat /\ s \in [1..Len(s) -> S]
  BY LenProperties
<1>2. s \in [1..Len(s) -> T]
  BY <1>1
<1> QED
  BY <1>1, <1>2, SeqDef

LEMMA ListStep == ASSUME TypeOK, ListOK, [Next]_vars PROVE ListOK'
<1> USE RunStreamAssumption DEF redisVars, subVars, history
<1>0. /\ published \in Nat /\ list \in Seq(Nat) /\ list \in Seq(Event) /\ Len(list) \in Nat
      /\ \A i \in 1..Len(list) : list[i] \in Nat
  <2>1. published \in Nat /\ list \in Seq(Event) /\ Event \subseteq Nat
    BY DEF TypeOK, Event
  <2>2. Len(list) \in Nat /\ \A i \in 1..Len(list) : list[i] \in Event
    BY <2>1
  <2>3. list \in Seq(Nat)
    BY <2>1, WiderSeq
  <2> QED
    BY <2>1, <2>2, <2>3
<1>1. CASE UNCHANGED <<published, list, pipe>>
  BY <1>1 DEF ListOK
<1>2. CASE Publish
  <2>1. published' = published + 1 /\ list' = list /\ pipe' = "published"
    BY <1>2 DEF Publish
  <2>2. \A i \in 1..Len(list) : list[i] <= published /\ list[i] < published + 1
                                /\ list[i] <= published + 1
    BY <1>0 DEF ListOK
  <2>3. published + 1 > 0
    BY <1>0
  <2> QED
    BY <2>1, <2>2, <2>3 DEF ListOK
<1>3. CASE Push
  <2>1. pipe = "published" /\ list' = <<published>> \o list /\ pipe' = "pushed" /\ published' = published
    BY <1>3 DEF Push
  <2>2. PICK w : w = <<published>> \o list
    OBVIOUS
  <2>3. /\ w # <<>> /\ Len(w) = Len(list) + 1
        /\ \A i \in 1..Len(w) : \/ i = 1 /\ w[i] = published
                                \/ i - 1 \in 1..Len(list) /\ w[i] = list[i - 1]
    BY <1>0, <2>2, Pushed
  <2>4. \A i \in 1..Len(list) : list[i] < published
    BY <2>1 DEF ListOK
  <2>5. ASSUME NEW i \in 1..Len(w), NEW k \in 1..Len(w), i < k PROVE w[i] > w[k]
    <3>1. PICK m \in 1..Len(list) : m = k - 1 /\ w[k] = list[m]
      BY <1>0, <2>3, <2>5
    <3>2. CASE i = 1
      BY <1>0, <2>3, <2>4, <3>1, <3>2
    <3>3. CASE i # 1
      <4>1. PICK l \in 1..Len(list) : l = i - 1 /\ w[i] = list[l]
        BY <1>0, <2>3, <3>3
      <4>2. l < m
        BY <2>5, <3>1, <4>1
      <4> QED
        BY <3>1, <4>1, <4>2 DEF ListOK
    <3> QED
      BY <3>2, <3>3
  <2>6. \A i \in 1..Len(w) : w[i] <= published
    <3> TAKE i \in 1..Len(w)
    <3>1. CASE w[i] = published
      BY <1>0, <3>1
    <3>2. CASE w[i] # published
      <4>1. PICK l \in 1..Len(list) : w[i] = list[l]
        BY <2>3, <3>2
      <4> QED
        BY <1>0, <4>1 DEF ListOK
    <3> QED
      BY <3>1, <3>2
  <2>7. list' = w
    BY <2>1, <2>2
  <2> QED
    BY <2>1, <2>3, <2>5, <2>6, <2>7 DEF ListOK
<1>4. CASE Trim
  <2>1. PICK w : w = Newest(list, ListCap)
    OBVIOUS
  <2>2. /\ Len(w) \in Nat /\ Len(w) <= Len(list)
        /\ \A i \in 1..Len(w) : w[i] = list[i]
    BY <1>0, <2>1, NewestFacts
  <2>3. \A i \in 1..Len(w) : i \in 1..Len(list)
    BY <1>0, <2>2
  <2>4. /\ \A i, k \in 1..Len(w) : i < k => w[i] > w[k]
        /\ \A i \in 1..Len(w) : w[i] <= published
    BY <2>2, <2>3 DEF ListOK
  <2>5. list' = w /\ published' = published /\ pipe' = "idle"
    BY <1>4, <2>1 DEF Trim
  <2> QED
    BY <2>4, <2>5 DEF ListOK
<1>5. CASE PublishLost
  <2>1. published' = published + 1 /\ list' = list /\ pipe' = pipe /\ pipe = "idle"
    BY <1>5 DEF PublishLost
  <2>2. \A i \in 1..Len(list) : list[i] <= published + 1
    BY <1>0 DEF ListOK
  <2> QED
    BY <2>1, <2>2 DEF ListOK
<1>6. CASE PipelineBreaks
  BY <1>6 DEF PipelineBreaks, ListOK
<1>7. CASE \/ SubscribeSent \/ SubscribeTakesEffect \/ Attach \/ Lrange \/ LrangeFails \/ BackfillOne
           \/ BackfillDone \/ Fanout \/ ReaderFails \/ Send \/ UNCHANGED vars
  BY <1>1, <1>7 DEF SubscribeSent, SubscribeTakesEffect, Attach, Lrange, LrangeFails, BackfillOne,
     BackfillDone, Fanout, ReaderFails, Send, vars
<1> QED
  BY <1>2, <1>3, <1>4, <1>5, <1>6, <1>7 DEF Next, Publisher, Subscriber

-----------------------------------------------------------------------------
(* The gap *)

\* A set of events that loses none but gains x, or gains nothing.
LEMMA GrowsByOne ==
    ASSUME NEW S, NEW R, NEW x, IsFiniteSet(S), R \subseteq S \cup {x}
    PROVE  /\ IsFiniteSet(R) /\ Cardinality(R) \in Nat /\ Cardinality(S) \in Nat
           /\ Cardinality(R) <= Cardinality(S) + 1
           /\ x \in S => Cardinality(R) <= Cardinality(S)
<1>1. /\ IsFiniteSet(S \cup {x})
      /\ Cardinality(S \cup {x}) = IF x \in S THEN Cardinality(S) ELSE Cardinality(S) + 1
  BY FS_AddElement
<1>2. IsFiniteSet(R) /\ Cardinality(R) <= Cardinality(S \cup {x})
  BY <1>1, FS_Subset
<1>3. Cardinality(R) \in Nat /\ Cardinality(S) \in Nat
  BY <1>2, FS_CardinalityType
<1> QED
  BY <1>1, <1>2, <1>3

LEMMA PublishedFinite ==
    ASSUME TypeOK
    PROVE  /\ IsFiniteSet(Unlisted) /\ Cardinality(Unlisted) \in Nat
           /\ IsFiniteSet(Lacking) /\ Cardinality(Lacking) \in Nat
<1>1. IsFiniteSet(1..published)
  BY FS_Interval DEF TypeOK
<1>2. IsFiniteSet(Unlisted) /\ IsFiniteSet(Lacking)
  BY <1>1, FS_Subset DEF Unlisted, Lacking
<1> QED
  BY <1>2, FS_CardinalityType

LEMMA UnlistedStep ==
    ASSUME TypeOK, ListOK, UnlistedOK, [Next]_vars
    PROVE  UnlistedOK'
<1> USE RunStreamAssumption DEF redisVars, subVars, history
<1>0. /\ published \in Nat /\ list \in Seq(Event) /\ Len(list) \in Nat /\ faults \in Nat
      /\ IsFiniteSet(Unlisted) /\ Cardinality(Unlisted) \in Nat
      /\ Last \in Nat
      /\ \A i \in 1..Len(list) : list[i] \in Nat
  <2>1. /\ published \in Nat /\ list \in Seq(Event) /\ Len(list) \in Nat /\ faults \in Nat
        /\ \A i \in 1..Len(list) : list[i] \in Nat
    BY DEF TypeOK, Event
  <2>2. Last \in Nat
    BY LastFacts
  <2> QED
    BY <2>1, <2>2, PublishedFinite
<1>1. CASE UNCHANGED <<published, list, pipe, faults>>
  <2>1. Unlisted' = Unlisted
    BY <1>1 DEF Unlisted, Last
  <2> QED
    BY <1>1, <2>1 DEF UnlistedOK
<1>2. CASE Publish \/ PublishLost
  <2>1. /\ published' = published + 1 /\ list' = list /\ pipe = "idle"
        /\ \/ pipe' = "published" /\ faults' = faults
           \/ pipe' = "idle" /\ faults' = faults + 1
    BY <1>2 DEF Publish, PublishLost
  <2>2. Unlisted' \subseteq Unlisted \cup {published + 1}
    BY <1>0, <2>1 DEF Unlisted, Last
  <2>3. Cardinality(Unlisted') <= Cardinality(Unlisted) + 1
    BY <1>0, <2>2, GrowsByOne
  <2>4. Cardinality(Unlisted') \in Nat
    BY <1>0, <2>2, GrowsByOne
  <2>5. Cardinality(Unlisted) <= faults
    BY <1>0, <2>1 DEF UnlistedOK
  <2>6. Cardinality(Unlisted') <= faults + 1
    BY <1>0, <2>3, <2>4, <2>5
  <2> QED
    BY <1>0, <2>1, <2>6 DEF UnlistedOK
<1>3. CASE Push
  <2>1. pipe = "published" /\ list' = <<published>> \o list /\ pipe' = "pushed"
        /\ published' = published /\ faults' = faults /\ published \in Event
    BY <1>0, <1>3 DEF Push, ListOK, TypeOK, Event
  <2>2. PICK w : w = <<published>> \o list /\ w = list'
    BY <2>1
  <2>3. /\ w # <<>> /\ Len(w) = Len(list) + 1
        /\ \A i \in 1..Len(w) : \/ i = 1 /\ w[i] = published
                                \/ i - 1 \in 1..Len(list) /\ w[i] = list[i - 1]
        /\ Elems(w) = {published} \cup Elems(list)
    BY <1>0, <2>1, <2>2, Pushed
  <2>4. \A e \in Elems(list) : e < published
    BY <2>1 DEF ListOK, Elems
  <2>5. published \in Unlisted
    <3>1. published > Last
      <4>1. CASE list = <<>>
        BY <2>1, <4>1 DEF ListOK, Last
      <4>2. CASE list # <<>>
        BY <2>4, <4>2, LastFacts
      <4> QED
        BY <4>1, <4>2
    <3>2. published \notin Elems(list)
      BY <1>0, <2>4
    <3> QED
      BY <1>0, <2>1, <3>1, <3>2 DEF Unlisted, Event
  <2>6. Unlisted' \subseteq Unlisted \ {published}
    <3>1. Unlisted' = {e \in 1..published : e > w[Len(w)] /\ e \notin Elems(w)}
      BY <2>1, <2>2, <2>3 DEF Unlisted, Last
    <3>2. CASE list = <<>>
      <4>1. Len(w) = 1 /\ w[Len(w)] = published
        BY <2>3, <3>2
      <4>2. \A e \in 1..published : ~(e > published)
        BY <1>0
      <4> QED
        BY <3>1, <4>1, <4>2
    <3>3. CASE list # <<>>
      <4>1. Len(list) > 0 /\ Last = list[Len(list)]
        BY <1>0, <3>3 DEF Last
      <4>2. Len(w) \in 1..Len(w) /\ Len(w) # 1 /\ Len(w) - 1 = Len(list)
        BY <1>0, <2>3, <4>1
      <4>3. w[Len(w)] = Last
        BY <2>3, <4>1, <4>2
      <4> QED
        BY <2>3, <3>1, <4>3 DEF Unlisted
    <3> QED
      BY <3>2, <3>3
  <2>7. /\ IsFiniteSet(Unlisted \ {published})
        /\ Cardinality(Unlisted \ {published}) = Cardinality(Unlisted) - 1
    BY <1>0, <2>5, FS_RemoveElement
  <2>8. Cardinality(Unlisted') <= Cardinality(Unlisted) - 1 /\ Cardinality(Unlisted') \in Nat
    BY <2>6, <2>7, FS_Subset, FS_CardinalityType
  <2>9. Cardinality(Unlisted) <= faults + 1
    BY <2>1 DEF UnlistedOK
  <2>10. Cardinality(Unlisted') <= faults
    BY <1>0, <2>8, <2>9
  <2> QED
    BY <1>0, <2>1, <2>10 DEF UnlistedOK
<1>4. CASE Trim
  <2>1. PICK w : w = Newest(list, ListCap) /\ w = list'
    BY <1>4 DEF Trim
  <2>2. /\ Len(w) \in Nat /\ Len(w) <= Len(list) /\ \A i \in 1..Len(w) : w[i] = list[i]
        /\ list # <<>> => Len(w) > 0
    <3>1. PICK n \in Nat \ {0} : n = ListCap
      OBVIOUS
    <3>2. /\ Len(Newest(list, n)) \in Nat /\ Len(Newest(list, n)) <= Len(list)
          /\ \A i \in 1..Len(Newest(list, n)) : Newest(list, n)[i] = list[i]
          /\ list # <<>> => Len(Newest(list, n)) > 0
      BY <1>0, NewestFacts
    <3> QED
      BY <2>1, <3>1, <3>2
  <2>3. list # <<>> /\ pipe' = "idle" /\ pipe = "pushed" /\ published' = published /\ faults' = faults
    BY <1>4 DEF Trim, ListOK
  <2>4. Len(w) \in 1..Len(w) /\ Len(w) \in 1..Len(list) /\ Len(list) \in 1..Len(list) /\ w # <<>>
    BY <1>0, <2>2, <2>3
  <2>5. Last' = list[Len(w)] /\ Last = list[Len(list)]
    BY <2>1, <2>2, <2>3, <2>4 DEF Last
  <2>6. list[Len(w)] >= list[Len(list)]
    BY <1>0, <2>2, <2>4 DEF ListOK
  <2>7. ASSUME NEW e \in Elems(list), e > list[Len(w)] PROVE e \in Elems(w)
    <3>1. PICK i \in 1..Len(list) : e = list[i]
      BY <2>7 DEF Elems
    <3>2. ~(Len(w) < i)
      <4>1. ASSUME Len(w) < i PROVE FALSE
        <5>1. list[Len(w)] > list[i]
          BY <2>4, <4>1 DEF ListOK
        <5> QED
          BY <1>0, <2>4, <2>7, <3>1, <5>1
      <4> QED
        BY <4>1
    <3>3. i \in 1..Len(w)
      BY <1>0, <2>2, <3>2
    <3> QED
      BY <2>2, <3>1, <3>3 DEF Elems
  <2>8. Unlisted' = {e \in 1..published : e > list[Len(w)] /\ e \notin Elems(w)}
    BY <2>1, <2>3, <2>5 DEF Unlisted
  <2>9. \A e \in 1..published : e > list[Len(w)] => e > Last
    BY <1>0, <2>4, <2>5, <2>6
  <2>10. Unlisted' \subseteq Unlisted
    BY <2>7, <2>8, <2>9 DEF Unlisted
  <2>11. Cardinality(Unlisted') <= Cardinality(Unlisted)
    BY <1>0, <2>10, FS_Subset
  <2>12. Cardinality(Unlisted') \in Nat
    BY <1>0, <2>10, FS_Subset, FS_CardinalityType
  <2>13. Cardinality(Unlisted) <= faults
    BY <1>0, <2>3 DEF UnlistedOK
  <2>14. Cardinality(Unlisted') <= faults
    BY <1>0, <2>11, <2>12, <2>13
  <2> QED
    BY <1>0, <2>3, <2>14 DEF UnlistedOK
<1>5. CASE PipelineBreaks
  <2>1. /\ published' = published /\ list' = list /\ pipe' = "idle" /\ faults' = faults + 1
    BY <1>5 DEF PipelineBreaks
  <2>2. Unlisted' = Unlisted
    BY <2>1 DEF Unlisted, Last
  <2>3. Cardinality(Unlisted) <= faults + 1
    BY <1>0 DEF UnlistedOK
  <2> QED
    BY <1>0, <2>1, <2>2, <2>3 DEF UnlistedOK
<1>6. CASE \/ SubscribeSent \/ SubscribeTakesEffect \/ Attach \/ Lrange \/ LrangeFails \/ BackfillOne
           \/ BackfillDone \/ Fanout \/ ReaderFails \/ Send \/ UNCHANGED vars
  BY <1>1, <1>6 DEF SubscribeSent, SubscribeTakesEffect, Attach, Lrange, LrangeFails, BackfillOne,
     BackfillDone, Fanout, ReaderFails, Send, vars
<1> QED
  BY <1>2, <1>3, <1>4, <1>5, <1>6 DEF Next, Publisher, Subscriber

\* An event that is offered is not lost, and only such events are remembered.
LEMMA OfferKeeps ==
    ASSUME TypeOK, SubscriberOK, NEW e \in Event, NEW via \in {"backfill", "live"},
           Offer(e, via), sent' = sent
    PROVE  LET here == Elems(sent) \cup Elems(queue) \cup dropped
               then == Elems(sent') \cup Elems(queue') \cup dropped'
           IN  here \cup {e} \subseteq then /\ Elems(dedup') \subseteq then
<1>1. /\ Elems(dedup') \subseteq Elems(dedup) \cup {e}
      /\ Elems(queue) \cup dropped \subseteq Elems(queue') \cup dropped'
      /\ e \in Elems(dedup) \cup Elems(queue')
  BY OfferFacts
<1>2. Elems(dedup) \subseteq Elems(sent) \cup Elems(queue) \cup dropped
  BY DEF SubscriberOK
<1> QED
  BY <1>1, <1>2

LEMMA LackingKept ==
    ASSUME TypeOK, oldest' = oldest, published' = published, Underway \subseteq Underway',
           orderly => Cardinality(Lacking) <= 1 + faults, faults' \in Nat, faults' >= faults,
           orderly'
    PROVE  orderly => Cardinality(Lacking') <= 1 + faults'
<1>1. Lacking' \subseteq Lacking
  BY DEF Lacking
<1>2. Cardinality(Lacking') <= Cardinality(Lacking) /\ Cardinality(Lacking') \in Nat
  BY <1>1, PublishedFinite, FS_Subset, FS_CardinalityType
<1>3. faults \in Nat /\ Cardinality(Lacking) \in Nat
  BY PublishedFinite DEF TypeOK
<1> QED
  BY <1>2, <1>3

LEMMA SubscriberStep ==
    ASSUME TypeOK, TypeOK', ListOK, UnlistedOK, SubscriberOK, [Next]_vars
    PROVE  SubscriberOK'
<1> USE RunStreamAssumption DEF redisVars, subVars, history
<1>0. /\ published \in Nat /\ faults \in Nat /\ faults' \in Nat /\ oldest \in Nat
      /\ wire \in Seq(Event) /\ reply \in Seq(Event) /\ queue \in Seq(Event) /\ sent \in Seq(Event)
      /\ list \in Seq(Event) /\ dropped \subseteq Event
      /\ IsFiniteSet(Lacking) /\ Cardinality(Lacking) \in Nat
      /\ IsFiniteSet(Unlisted) /\ Cardinality(Unlisted) \in Nat
  <2>1. /\ published \in Nat /\ faults \in Nat /\ faults' \in Nat /\ oldest \in Nat
        /\ wire \in Seq(Event) /\ reply \in Seq(Event) /\ queue \in Seq(Event) /\ sent \in Seq(Event)
        /\ list \in Seq(Event) /\ dropped \subseteq Event
    BY DEF TypeOK
  <2> QED
    BY <2>1, PublishedFinite
<1>1. CASE /\ UNCHANGED <<published, link, wire, backfill, reply, subVars, sent, history>>
           /\ faults' \in {faults, faults + 1}
  <2>1. Lacking' = Lacking
    BY <1>1 DEF Lacking, Underway
  <2>2. Cardinality(Lacking) <= 1 + faults => Cardinality(Lacking) <= 1 + faults'
    BY <1>0, <1>1
  <2> QED
    BY <1>1, <2>1, <2>2 DEF SubscriberOK
<1>2. CASE Publish
  <2>1. published + 1 \in Event
    BY <1>0, <1>2 DEF Publish, Event
  <2>2. Elems(Append(wire, published + 1)) = Elems(wire) \cup {published + 1}
    BY <1>0, <2>1, Appended
  <2>3. ASSUME orderly PROVE Cardinality(Lacking') <= 1 + faults'
    <3>1. wire' = Append(wire, published + 1) /\ published' = published + 1 /\ oldest' = oldest
      BY <1>2, <2>3 DEF Publish, SubscriberOK
    <3>2. Underway' = Underway \cup {published + 1}
      BY <1>2, <2>2, <3>1 DEF Publish, Underway
    <3>3. Lacking' \subseteq Lacking
      BY <1>0, <3>1, <3>2 DEF Lacking
    <3>4. Cardinality(Lacking') <= Cardinality(Lacking) /\ Cardinality(Lacking') \in Nat
      BY <1>0, <3>3, FS_Subset, FS_CardinalityType
    <3>5. faults' = faults /\ Cardinality(Lacking) <= 1 + faults
      BY <1>2, <2>3 DEF Publish, SubscriberOK
    <3> QED
      BY <1>0, <3>4, <3>5
  <2> QED
    BY <1>2, <2>3 DEF Publish, SubscriberOK
<1>3. CASE PublishLost
  <2>1. ASSUME orderly PROVE Cardinality(Lacking') <= 1 + faults'
    <3>1. published' = published + 1 /\ oldest' = oldest /\ faults' = faults + 1
      BY <1>3 DEF PublishLost
    <3>2. Underway' = Underway
      BY <1>3 DEF PublishLost, Underway
    <3>3. Lacking' \subseteq Lacking \cup {published + 1}
      BY <1>0, <3>1, <3>2 DEF Lacking
    <3>4. Cardinality(Lacking') <= Cardinality(Lacking) + 1 /\ Cardinality(Lacking') \in Nat
      BY <1>0, <3>3, GrowsByOne
    <3>5. Cardinality(Lacking) <= 1 + faults
      BY <2>1 DEF SubscriberOK
    <3> QED
      BY <1>0, <3>1, <3>4, <3>5
  <2> QED
    BY <1>3, <2>1 DEF PublishLost, SubscriberOK
<1>4. CASE Push \/ Trim \/ PipelineBreaks \/ UNCHANGED vars
  BY <1>1, <1>4 DEF Push, Trim, PipelineBreaks, vars
<1>5. CASE SubscribeSent \/ SubscribeTakesEffect \/ Attach \/ LrangeFails \/ BackfillDone \/ ReaderFails
  <2>1. Lacking' = Lacking
    BY <1>5 DEF Lacking, Underway, SubscribeSent, SubscribeTakesEffect, Attach, LrangeFails,
       BackfillDone, ReaderFails
  <2> QED
    BY <1>5, <2>1 DEF SubscriberOK, SubscribeSent, SubscribeTakesEffect, Attach, LrangeFails,
       BackfillDone, ReaderFails
<1>6. CASE Lrange
  <2>1. /\ reply' = Reversed(list) /\ backfill' = "looping" /\ oldest' = Last
        /\ orderly' = (link = "on") /\ reply = <<>>
        /\ UNCHANGED <<redisVars, link, wire, reader, subVars, sent>>
    BY <1>6 DEF Lrange, Last, SubscriberOK
  <2>2. Elems(reply') = Elems(list)
    BY <1>0, <2>1, ReversedFacts
  <2>3. Lacking' \subseteq Unlisted
    BY <2>1, <2>2 DEF Lacking, Underway, Unlisted
  <2>4. Cardinality(Lacking') <= Cardinality(Unlisted) /\ Cardinality(Lacking') \in Nat
    BY <1>0, <2>3, FS_Subset, FS_CardinalityType
  <2>5. Cardinality(Unlisted) <= faults + 1
    BY <1>0 DEF UnlistedOK
  <2>6. Cardinality(Lacking') <= 1 + faults'
    BY <1>0, <2>1, <2>4, <2>5
  <2> QED
    BY <2>1, <2>6 DEF SubscriberOK
<1>7. CASE BackfillOne
  <2>1. /\ Head(reply) \in Event /\ Elems(reply) = {Head(reply)} \cup Elems(Tail(reply))
        /\ reply # <<>> /\ backfill = "looping"
    BY <1>0, <1>7, Taken DEF BackfillOne, Busy
  <2>2. /\ Offer(Head(reply), "backfill") /\ reply' = Tail(reply)
        /\ UNCHANGED <<redisVars, link, wire, reader, backfill, sent, history>>
    BY <1>7 DEF BackfillOne
  <2>3. /\ Elems(sent) \cup Elems(queue) \cup dropped \cup {Head(reply)}
                \subseteq Elems(sent') \cup Elems(queue') \cup dropped'
        /\ Elems(dedup') \subseteq Elems(sent') \cup Elems(queue') \cup dropped'
    BY <2>1, <2>2, OfferKeeps
  <2>4. Underway \subseteq Underway'
    BY <2>1, <2>2, <2>3 DEF Underway
  <2>5. orderly => Cardinality(Lacking') <= 1 + faults'
    BY <1>0, <2>2, <2>4, LackingKept DEF SubscriberOK
  <2> QED
    BY <2>1, <2>2, <2>3, <2>5 DEF SubscriberOK
<1>8. CASE Fanout
  <2>1. /\ Head(wire) \in Event /\ Elems(wire) = {Head(wire)} \cup Elems(Tail(wire))
    BY <1>0, <1>8, Taken DEF Fanout
  <2>2. /\ wire' = Tail(wire)
        /\ UNCHANGED <<redisVars, link, reader, backfill, reply, sent, history>>
    BY <1>8 DEF Fanout
  <2>3. CASE backfill = "none"
    BY <1>8, <2>2, <2>3 DEF Fanout, SubscriberOK
  <2>4. CASE backfill # "none"
    <3>1. Offer(Head(wire), "live")
      BY <1>8, <2>4 DEF Fanout
    <3>2. /\ Elems(sent) \cup Elems(queue) \cup dropped \cup {Head(wire)}
                  \subseteq Elems(sent') \cup Elems(queue') \cup dropped'
          /\ Elems(dedup') \subseteq Elems(sent') \cup Elems(queue') \cup dropped'
      BY <2>1, <2>2, <3>1, OfferKeeps
    <3>3. Underway \subseteq Underway'
      BY <2>1, <2>2, <3>2 DEF Underway
    <3>4. orderly => Cardinality(Lacking') <= 1 + faults'
      BY <1>0, <2>2, <3>3, LackingKept DEF SubscriberOK
    <3> QED
      BY <2>2, <3>2, <3>4 DEF SubscriberOK
  <2> QED
    BY <2>3, <2>4
<1>9. CASE Send
  <2>1. /\ Head(queue) \in Event /\ Elems(queue) = {Head(queue)} \cup Elems(Tail(queue))
    BY <1>0, <1>9, Taken DEF Send
  <2>2. Elems(Append(sent, Head(queue))) = Elems(sent) \cup {Head(queue)}
    BY <1>0, <2>1, Appended
  <2>3. /\ sent' = Append(sent, Head(queue)) /\ queue' = Tail(queue)
        /\ UNCHANGED <<redisVars, link, wire, reader, backfill, reply, dedup, dropped, accepted, history>>
    BY <1>9 DEF Send
  <2>4. Elems(sent') \cup Elems(queue') = Elems(sent) \cup Elems(queue)
    BY <2>1, <2>2, <2>3
  <2>5. Lacking' = Lacking
    BY <2>3, <2>4 DEF Lacking, Underway
  <2> QED
    BY <2>3, <2>4, <2>5 DEF SubscriberOK
<1> QED
  BY <1>2, <1>3, <1>4, <1>5, <1>6, <1>7, <1>8, <1>9 DEF Next, Publisher, Subscriber

LEMMA GapInit == Init => GapInv
<1> SUFFICES ASSUME Init PROVE GapInv
  OBVIOUS
<1>1. TypeOK
  BY TypeInit
<1>2. Len(list) = 0 /\ 1..published = {} /\ list = <<>>
  BY DEF Init
<1>3. ListOK
  BY <1>2 DEF Init, ListOK
<1>4. Unlisted = {} /\ Lacking = {}
  BY <1>2 DEF Unlisted, Lacking
<1>5. Cardinality(Unlisted) = 0
  BY <1>4, FS_EmptySet
<1>6. UnlistedOK
  BY <1>5 DEF Init, UnlistedOK
<1>7. Elems(dedup) = {}
  BY NoElems DEF Init
<1>8. SubscriberOK
  BY <1>7 DEF Init, SubscriberOK
<1> QED
  BY <1>1, <1>3, <1>6, <1>8 DEF GapInv

\* Types, list and subscriber of a run are kept by every interleaving of
\* publishing, subscribing, backfill, fan-out and failures.
THEOREM StreamInvariant == Spec => []GapInv
<1>1. ASSUME GapInv, [Next]_vars PROVE GapInv'
  <2>1. TypeOK'
    BY <1>1, TypeStep DEF GapInv
  <2>2. ListOK'
    BY <1>1, ListStep DEF GapInv
  <2>3. UnlistedOK'
    BY <1>1, UnlistedStep DEF GapInv
  <2>4. SubscriberOK'
    BY <1>1, <2>1, SubscriberStep DEF GapInv
  <2> QED
    BY <2>1, <2>2, <2>3, <2>4 DEF GapInv
<1> QED
  BY <1>1, GapInit, PTL DEF Spec

\* If SUBSCRIBE took effect before LRANGE ran, at most one event, plus one for
\* each failed publish, is missing between history and live stream
\* (queues/events.py:56, api/streaming/manager.py:106).
THEOREM GapIsBounded == Spec => []GapBounded
<1>1. GapInv => GapBounded
  <2> SUFFICES ASSUME GapInv, AtRest, orderly
               PROVE  Cardinality({e \in Missing : e > oldest}) <= 1 + faults
    BY DEF GapBounded
  <2>1. wire = <<>> /\ reply = <<>> /\ sent \in Seq(Event) /\ queue \in Seq(Event)
    BY DEF AtRest, GapInv, SubscriberOK, TypeOK
  <2>2. Elems(wire) = {} /\ Elems(reply) = {}
    BY <2>1, NoElems
  <2>3. Elems(Stream) = Elems(sent) \cup Elems(queue)
    BY <2>1, Joined DEF Stream
  <2>4. {e \in Missing : e > oldest} = Lacking
    BY <2>2, <2>3 DEF Missing, Lacking, Underway
  <2> QED
    BY <2>4 DEF GapInv, SubscriberOK
<1> QED
  BY <1>1, StreamInvariant, PTL

-----------------------------------------------------------------------------
(* Repeats *)

\* Appending to two sequences, one the other's tail of at most Window, and
\* forgetting what no longer fits keeps them so.
LEMMA Remembering ==
    ASSUME TypeOK, Remembered, NEW e \in Event, NEW via \in {"backfill", "live"},
           dedup' = LastOf(Append(dedup, e), Window), LetThrough(e, via)
    PROVE  Remembered'
<1> DEFINE x == [event |-> e, via |-> via]
           d == Append(dedup, e)
           a == Append(accepted, x)
<1>1. /\ dedup \in Seq(Event) /\ accepted \in Seq(Entry) /\ x \in Entry
      /\ Window \in Nat \ {0} /\ Len(dedup) <= Window /\ x.event = e
  BY RunStreamAssumption DEF TypeOK, Entry
<1> HIDE DEF x
<1>2. /\ d \in Seq(Event) /\ Len(dedup) \in Nat /\ Len(d) = Len(dedup) + 1
      /\ \A i \in 1..Len(dedup) : d[i] = dedup[i]
      /\ d[Len(dedup) + 1] = e
  BY <1>1, Appended
<1>3. /\ Len(accepted) \in Nat /\ Len(a) = Len(accepted) + 1
      /\ \A i \in 1..Len(accepted) : a[i] = accepted[i]
      /\ a[Len(accepted) + 1] = x
  BY <1>1, Appended
<1>4. accepted' = a
  BY DEF LetThrough, x
<1> HIDE DEF d, a
<1>5. PICK n \in Nat : n = Len(accepted) - Len(dedup)
  <2>1. Len(accepted) - Len(dedup) >= 0
    BY DEF Remembered
  <2>2. Len(accepted) - Len(dedup) \in Nat
    BY <1>2, <1>3, <2>1
  <2> QED
    BY <2>2
<1>6. ASSUME NEW i \in 1..Len(d) PROVE d[i] = a[n + i].event
  <2>1. CASE i \in 1..Len(dedup)
    <3>1. n + i \in 1..Len(accepted)
      BY <1>2, <1>3, <1>5, <2>1
    <3>2. dedup[i] = accepted[n + i].event
      BY <1>5, <2>1 DEF Remembered
    <3> QED
      BY <1>2, <1>3, <2>1, <3>1, <3>2
  <2>2. CASE i = Len(dedup) + 1
    <3>1. n + i = Len(accepted) + 1
      BY <1>2, <1>3, <1>5, <2>2
    <3> QED
      BY <1>1, <1>2, <1>3, <2>2, <3>1
  <2> QED
    BY <1>2, <2>1, <2>2
<1>7. n > 0 => Len(dedup) = Window
  BY <1>5 DEF Remembered
<1>8. CASE Len(d) <= Window
  <2>1. dedup' = d
    BY <1>1, <1>2, <1>8, LastOfFacts DEF d
  <2>2. n = 0 /\ Len(a) - Len(d) = n
    BY <1>1, <1>2, <1>3, <1>5, <1>7, <1>8
  <2> QED
    BY <1>4, <1>6, <2>1, <2>2 DEF Remembered
<1>9. CASE Len(d) > Window
  <2>1. /\ Len(dedup') = Window
        /\ \A i \in 1..Window : dedup'[i] = d[Len(d) - Window + i]
    <3>1. PICK t \in Seq(Event) : t = d
      BY <1>2
    <3>2. /\ Len(LastOf(t, Window)) = Window
          /\ \A i \in 1..Window : LastOf(t, Window)[i] = t[Len(t) - Window + i]
      BY <1>1, <1>9, <3>1, LastOfFacts
    <3>3. dedup' = LastOf(t, Window)
      BY <3>1 DEF d
    <3> QED
      BY <3>1, <3>2, <3>3
  <2>2. Len(d) = Window + 1 /\ Len(a) - Window = n + 1
    BY <1>1, <1>2, <1>3, <1>5, <1>9
  <2>3. ASSUME NEW i \in 1..Window PROVE dedup'[i] = a[n + 1 + i].event
    <3>1. Len(d) - Window + i = i + 1 /\ i + 1 \in 1..Len(d) /\ n + (i + 1) = n + 1 + i
      BY <1>1, <2>2
    <3> QED
      BY <1>6, <2>1, <3>1
  <2>4. Len(a) - Len(dedup') = n + 1 /\ n + 1 >= 0
    BY <2>1, <2>2
  <2> QED
    BY <1>4, <2>1, <2>3, <2>4 DEF Remembered
<1> QED
  BY <1>1, <1>2, <1>8, <1>9

\* Whatever was let through less than a window ago is remembered.
LEMMA ForgottenIsOld ==
    ASSUME TypeOK, Remembered, NEW i \in 1..Len(accepted),
           accepted[i].event \notin Elems(dedup)
    PROVE  Len(accepted) + 1 - i > Window
<1>1. /\ Len(accepted) \in Nat /\ Len(dedup) \in Nat /\ Window \in Nat
  BY RunStreamAssumption DEF TypeOK
<1>2. PICK n \in Nat : n = Len(accepted) - Len(dedup)
  <2>1. Len(accepted) - Len(dedup) >= 0
    BY DEF Remembered
  <2>2. Len(accepted) - Len(dedup) \in Nat
    BY <1>1, <2>1
  <2> QED
    BY <2>2
<1>3. ~(i > n)
  <2> SUFFICES ASSUME i > n PROVE FALSE
    OBVIOUS
  <2>1. i - n \in 1..Len(dedup) /\ n + (i - n) = i
    BY <1>1, <1>2
  <2>2. dedup[i - n] = accepted[n + (i - n)].event
    BY <1>2, <2>1 DEF Remembered
  <2> QED
    BY <2>1, <2>2 DEF Elems
<1>4. n > 0 /\ Len(dedup) = Window
  BY <1>1, <1>2, <1>3 DEF Remembered
<1> QED
  BY <1>1, <1>2, <1>3, <1>4

\* What an event that is newer than all before it on its way does to what was
\* let through.
LEMMA OfferApart ==
    ASSUME TypeOK, Remembered, Apart, NEW e \in Event, NEW via \in {"backfill", "live"},
           Offer(e, via), Past(via, e)
    PROVE  /\ Remembered' /\ Apart'
           /\ \A w, f : f \in Nat /\ Past(w, f) /\ (w = via => e < f) => Past(w, f)'
<1>1. CASE Skip(e)
  <2>1. accepted' = accepted /\ dedup' = dedup
    BY <1>1 DEF Skip, subVars
  <2>2. Remembered' /\ Apart'
    BY <2>1 DEF Remembered, Apart
  <2>3. \A w, f : Past(w, f) => Past(w, f)'
    BY <2>1 DEF Past
  <2> QED
    BY <2>2, <2>3
<1>2. CASE Accept(e, via) \/ AcceptFull(e, via)
  <2>1. /\ e \notin Elems(dedup) /\ dedup' = LastOf(Append(dedup, e), Window)
        /\ LetThrough(e, via)
    BY <1>2 DEF Accept, AcceptFull
  <2>2. Remembered'
    BY <2>1, Remembering
  <2> DEFINE x == [event |-> e, via |-> via]
  <2>3. /\ accepted \in Seq(Entry) /\ x \in Entry /\ x.event = e /\ x.via = via
        /\ accepted' = Append(accepted, x)
    BY <2>1 DEF TypeOK, Entry, LetThrough
  <2> HIDE DEF x
  <2>4. /\ Len(accepted) \in Nat /\ Len(accepted') = Len(accepted) + 1
        /\ \A i \in 1..Len(accepted) : accepted'[i] = accepted[i]
        /\ accepted'[Len(accepted) + 1] = x
    BY <2>3, Appended
  <2>5. \A i \in 1..Len(accepted') : i \in 1..Len(accepted) \/ i = Len(accepted) + 1
    BY <2>4
  <2>6. ASSUME NEW i \in 1..Len(accepted'), NEW k \in 1..Len(accepted'), i < k
        PROVE  /\ accepted'[i].via = accepted'[k].via => accepted'[i].event < accepted'[k].event
               /\ accepted'[i].event = accepted'[k].event => k - i > Window
    <3>1. i \in 1..Len(accepted)
      BY <2>4, <2>6
    <3>2. CASE k \in 1..Len(accepted)
      BY <2>4, <2>6, <3>1, <3>2 DEF Apart
    <3>3. CASE k = Len(accepted) + 1
      <4>1. accepted[i].via = via => accepted[i].event < e
        BY <3>1 DEF Past
      <4>2. accepted[i].event = e => k - i > Window
        BY <2>1, <3>1, <3>3, ForgottenIsOld
      <4> QED
        BY <2>3, <2>4, <3>1, <3>3, <4>1, <4>2
    <3> QED
      BY <2>5, <3>2, <3>3
  <2>7. Apart'
    BY <2>6 DEF Apart
  <2>8. ASSUME NEW w, NEW f \in Nat, Past(w, f), w = via => e < f PROVE Past(w, f)'
    <3>1. ASSUME NEW i \in 1..Len(accepted'), accepted'[i].via = w
          PROVE  accepted'[i].event < f
      <4>1. CASE i \in 1..Len(accepted)
        BY <2>4, <2>8, <3>1, <4>1 DEF Past
      <4>2. CASE i = Len(accepted) + 1
        BY <2>3, <2>4, <2>8, <3>1, <4>2
      <4> QED
        BY <2>5, <4>1, <4>2
    <3> QED
      BY <3>1 DEF Past
  <2> QED
    BY <2>2, <2>7, <2>8
<1> QED
  BY <1>1, <1>2 DEF Offer

\* What is older than an event is older than every newer one.
LEMMA PastLater ==
    ASSUME TypeOK, NEW w, NEW f \in Nat, NEW g \in Nat, f <= g, Past(w, f)
    PROVE  Past(w, g)
<1>1. ASSUME NEW i \in 1..Len(accepted) PROVE accepted[i].event \in Nat
  <2>1. accepted \in Seq(Entry) /\ MaxEvents \in Nat
    BY RunStreamAssumption DEF TypeOK
  <2>2. accepted[i] \in Entry
    BY <2>1
  <2> QED
    BY <2>1, <2>2 DEF Entry, Event
<1> QED
  BY <1>1 DEF Past

\* The head of an ascending sequence is older than the rest of it.
LEMMA AscendingTail ==
    ASSUME NEW s \in Seq(Event), s # <<>>, Ascending(s)
    PROVE  /\ Ascending(Tail(s))
           /\ \A f \in Elems(Tail(s)) : f \in Elems(s) /\ Head(s) < f
<1>1. /\ Head(s) = s[1] /\ Len(s) \in Nat /\ Len(s) >= 1 /\ Len(Tail(s)) = Len(s) - 1
      /\ \A i \in 1..Len(Tail(s)) : i + 1 \in 1..Len(s) /\ Tail(s)[i] = s[i + 1]
      /\ Elems(Tail(s)) \subseteq Elems(s)
  BY Taken
<1> DEFINE w == Tail(s)
<1> HIDE DEF w
<1>2. ASSUME NEW i \in 1..Len(w), NEW k \in 1..Len(w), i < k PROVE w[i] < w[k]
  <2>1. /\ i + 1 \in 1..Len(s) /\ k + 1 \in 1..Len(s) /\ i + 1 < k + 1
        /\ w[i] = s[i + 1] /\ w[k] = s[k + 1]
    BY <1>1, <1>2 DEF w
  <2> QED
    BY <2>1 DEF Ascending
<1>3. ASSUME NEW i \in 1..Len(w) PROVE s[1] < w[i]
  <2>1. i + 1 \in 1..Len(s) /\ 1 \in 1..Len(s) /\ 1 < i + 1 /\ w[i] = s[i + 1]
    BY <1>1 DEF w
  <2> QED
    BY <2>1 DEF Ascending
<1>4. Ascending(w)
  BY <1>2 DEF Ascending
<1>5. \A f \in Elems(w) : s[1] < f
  BY <1>3 DEF Elems
<1> QED
  BY <1>1, <1>4, <1>5 DEF w

LEMMA AscendingAppend ==
    ASSUME NEW s \in Seq(Event), Ascending(s), NEW x \in Event, \A f \in Elems(s) : f < x
    PROVE  Ascending(Append(s, x))
<1>1. /\ Len(s) \in Nat /\ Len(Append(s, x)) = Len(s) + 1
      /\ \A i \in 1..Len(s) : Append(s, x)[i] = s[i]
      /\ Append(s, x)[Len(s) + 1] = x
  BY Appended
<1> DEFINE w == Append(s, x)
<1> HIDE DEF w
<1>2. ASSUME NEW i \in 1..Len(w), NEW k \in 1..Len(w), i < k PROVE w[i] < w[k]
  <2>1. i \in 1..Len(s) /\ w[i] = s[i]
    BY <1>1, <1>2 DEF w
  <2>2. CASE k \in 1..Len(s)
    BY <1>1, <1>2, <2>1, <2>2 DEF w, Ascending
  <2>3. CASE k = Len(s) + 1
    BY <1>1, <2>1, <2>3 DEF w, Elems
  <2> QED
    BY <1>1, <2>2, <2>3 DEF w
<1> QED
  BY <1>2 DEF Ascending, w

\* The list is newest first, so its reply turned round ascends.
LEMMA ReplyAscends ==
    ASSUME TypeOK, ListOK PROVE Ascending(Reversed(list))
<1>1. Len(list) \in Nat
  BY DEF TypeOK
<1>2. PICK n \in Nat : n = Len(list)
  BY <1>1
<1> DEFINE r == Reversed(list)
<1>3. Len(r) = n /\ \A i \in 1..n : r[i] = list[n + 1 - i]
  BY <1>2 DEF Reversed
<1> HIDE DEF r
<1>4. ASSUME NEW i \in 1..n, NEW k \in 1..n, i < k PROVE r[i] < r[k]
  <2>1. n + 1 - i \in 1..n /\ n + 1 - k \in 1..n /\ n + 1 - k < n + 1 - i
    BY <1>4
  <2>2. list[n + 1 - k] > list[n + 1 - i]
    BY <1>2, <2>1 DEF ListOK
  <2>3. list[n + 1 - k] \in Int /\ list[n + 1 - i] \in Int
    <3>1. \A m \in 1..Len(list) : list[m] \in Int
      <4>1. list \in Seq(Event) /\ MaxEvents \in Nat
        BY RunStreamAssumption DEF TypeOK
      <4>2. \A m \in 1..Len(list) : list[m] \in Event
        BY <4>1
      <4> QED
        BY <4>1, <4>2 DEF Event
    <3> QED
      BY <1>2, <2>1, <3>1
  <2> QED
    BY <1>3, <2>2, <2>3
<1> QED
  BY <1>3, <1>4 DEF Ascending, r

LEMMA ApartStep ==
    ASSUME TypeOK, ListOK, SubscriberOK, ApartInv, [Next]_vars
    PROVE  ApartInv'
<1> USE DEF redisVars, subVars, history
<1>0. /\ reply \in Seq(Event) /\ wire \in Seq(Event) /\ list \in Seq(Event)
      /\ published \in Nat /\ MaxEvents \in Nat
      /\ \A f \in Event : f \in Nat
      /\ Elems(wire) \subseteq Event /\ Elems(reply) \subseteq Event
  <2>1. /\ reply \in Seq(Event) /\ wire \in Seq(Event) /\ list \in Seq(Event)
        /\ published \in Nat /\ MaxEvents \in Nat
    BY RunStreamAssumption DEF TypeOK
  <2>2. Elems(wire) \subseteq Event /\ Elems(reply) \subseteq Event
    BY <2>1 DEF Elems
  <2>3. \A f \in Event : f \in Nat
    BY <2>1 DEF Event
  <2> QED
    BY <2>1, <2>2, <2>3
<1>1. CASE UNCHANGED <<published, wire, reply, dedup, accepted>> /\ backfill' \in {backfill, "done", "failed"}
  BY <1>1 DEF ApartInv, Remembered, Apart, WaysOK, Past
<1>2. CASE Publish
  <2>1. /\ published' = published + 1 /\ published + 1 \in Event
        /\ wire' \in {wire, Append(wire, published + 1)}
        /\ UNCHANGED <<backfill, reply, dedup, accepted>>
    BY <1>0, <1>2 DEF Publish, Event
  <2>2. Remembered' /\ Apart'
    BY <2>1 DEF ApartInv, Remembered, Apart
  <2>3. \A w, f : Past(w, f) => Past(w, f)'
    BY <2>1 DEF Past
  <2>4. Ascending(wire')
    <3>1. \A f \in Elems(wire) : f < published + 1
      BY <1>0 DEF ApartInv, WaysOK
    <3>2. Ascending(Append(wire, published + 1))
      BY <1>0, <2>1, <3>1, AscendingAppend DEF ApartInv, WaysOK
    <3> QED
      BY <2>1, <3>2 DEF ApartInv, WaysOK
  <2>5. Elems(wire') \subseteq Elems(wire) \cup {published + 1}
    <3>1. Elems(Append(wire, published + 1)) = Elems(wire) \cup {published + 1}
      BY <1>0, <2>1, Appended
    <3> QED
      BY <2>1, <3>1
  <2>6. \A f \in Elems(wire') : f <= published' /\ Past("live", f)
    BY <1>0, <2>1, <2>5 DEF ApartInv, WaysOK
  <2>7. Past("live", published + 2)
    <3>1. published + 1 \in Nat /\ published + 2 \in Nat /\ published + 1 <= published + 2
      BY <1>0
    <3> QED
      BY <3>1, PastLater DEF ApartInv, WaysOK
  <2>8. published' + 1 = published + 2
    BY <1>0, <2>1
  <2>9. \A f \in Elems(wire') : f <= published' /\ Past("live", f)'
    BY <2>3, <2>6
  <2>10. PICK m : m = published + 2
    OBVIOUS
  <2>11. Past("live", published + 1)'
    <3>1. Past("live", m)'
      BY <2>3, <2>7, <2>10
    <3> QED
      BY <2>8, <2>10, <3>1 DEF Past
  <2>12. /\ Ascending(reply)' /\ \A f \in Elems(reply)' : Past("backfill", f)'
         /\ (backfill \in {"none", "asked"})' => Past("backfill", 0)'
    BY <2>1, <2>3 DEF ApartInv, WaysOK
  <2> QED
    BY <2>2, <2>4, <2>9, <2>11, <2>12 DEF ApartInv, WaysOK
<1>3. CASE PublishLost
  <2>1. /\ published' = published + 1
        /\ UNCHANGED <<wire, backfill, reply, dedup, accepted>>
    BY <1>3 DEF PublishLost
  <2>2. published + 1 \in Nat /\ published + 2 \in Nat /\ published + 1 <= published + 2
    BY <1>0
  <2>3. Past("live", published + 2)
    BY <2>2, PastLater DEF ApartInv, WaysOK
  <2>4. published' + 1 = published + 2
    BY <1>0, <2>1
  <2>5. \A w, f : Past(w, f) => Past(w, f)'
    BY <2>1 DEF Past
  <2>6. Remembered' /\ Apart'
    BY <2>1 DEF ApartInv, Remembered, Apart
  <2>7. PICK m : m = published + 2
    OBVIOUS
  <2>8. Past("live", published + 1)'
    <3>1. Past("live", m)'
      BY <2>3, <2>5, <2>7
    <3> QED
      BY <2>4, <2>7, <3>1 DEF Past
  <2>9. \A f \in Elems(wire) : f <= published'
    BY <1>0, <2>1 DEF ApartInv, WaysOK
  <2> QED
    BY <2>1, <2>5, <2>6, <2>8, <2>9 DEF ApartInv, WaysOK
<1>4. CASE Attach
  BY <1>4 DEF Attach, ApartInv, Remembered, Apart, WaysOK, Past
<1>5. CASE Lrange
  <2>1. /\ reply' = Reversed(list) /\ backfill = "asked" /\ backfill' = "looping"
        /\ UNCHANGED <<published, wire, dedup, accepted>>
    BY <1>5 DEF Lrange
  <2>2. Remembered' /\ Apart' /\ \A w, f : Past(w, f) => Past(w, f)'
    BY <2>1 DEF ApartInv, Remembered, Apart, Past
  <2>3. Ascending(reply') /\ Elems(reply') \subseteq Event
    BY <1>0, <2>1, ReplyAscends, ReversedFacts DEF Elems
  <2>4. Past("backfill", 0)
    BY <2>1 DEF ApartInv, WaysOK
  <2>5. \A f \in Event : Past("backfill", f)
    <3>1. 0 \in Nat /\ \A f \in Event : f \in Nat /\ 0 <= f
      BY <1>0
    <3> QED
      BY <2>4, <3>1, PastLater
  <2> QED
    BY <2>1, <2>2, <2>3, <2>5 DEF ApartInv, WaysOK
<1>6. CASE BackfillOne
  <2>1. /\ reply # <<>> /\ backfill = "looping" /\ Offer(Head(reply), "backfill")
        /\ reply' = Tail(reply)
        /\ UNCHANGED <<published, wire, backfill>>
    BY <1>6 DEF BackfillOne, Busy
  <2>2. /\ Head(reply) \in Event /\ Head(reply) \in Elems(reply)
        /\ Elems(Tail(reply)) \subseteq Elems(reply)
    BY <1>0, <2>1, Taken
  <2>3. /\ Ascending(Tail(reply))
        /\ \A f \in Elems(Tail(reply)) : f \in Elems(reply) /\ Head(reply) < f
    BY <1>0, <2>1, AscendingTail DEF ApartInv, WaysOK
  <2>4. Past("backfill", Head(reply)) /\ Remembered /\ Apart
    BY <2>2 DEF ApartInv, WaysOK
  <2>5. /\ Remembered' /\ Apart'
        /\ \A w, f : f \in Nat /\ Past(w, f) /\ (w = "backfill" => Head(reply) < f) => Past(w, f)'
    BY <2>1, <2>2, <2>4, OfferApart
  <2>6. \A f \in Elems(reply') : Past("backfill", f)'
    BY <1>0, <2>1, <2>2, <2>3, <2>5 DEF ApartInv, WaysOK
  <2>7. \A f \in Elems(wire) : Past("live", f)'
    BY <1>0, <2>5 DEF ApartInv, WaysOK
  <2>8. Past("live", published + 1)'
    BY <1>0, <2>1, <2>5 DEF ApartInv, WaysOK
  <2> QED
    BY <2>1, <2>3, <2>5, <2>6, <2>7, <2>8 DEF ApartInv, WaysOK
<1>7. CASE Fanout /\ backfill # "none"
  <2>1. /\ wire # <<>> /\ Offer(Head(wire), "live") /\ wire' = Tail(wire)
        /\ UNCHANGED <<published, reply, backfill>>
    BY <1>7 DEF Fanout
  <2>2. /\ Head(wire) \in Event /\ Head(wire) \in Elems(wire)
        /\ Elems(Tail(wire)) \subseteq Elems(wire)
    BY <1>0, <2>1, Taken
  <2>3. /\ Ascending(Tail(wire))
        /\ \A f \in Elems(Tail(wire)) : f \in Elems(wire) /\ Head(wire) < f
    BY <1>0, <2>1, AscendingTail DEF ApartInv, WaysOK
  <2>4. Past("live", Head(wire)) /\ Remembered /\ Apart /\ Head(wire) <= published
    BY <2>2 DEF ApartInv, WaysOK
  <2>5. /\ Remembered' /\ Apart'
        /\ \A w, f : f \in Nat /\ Past(w, f) /\ (w = "live" => Head(wire) < f) => Past(w, f)'
    BY <2>1, <2>2, <2>4, OfferApart
  <2>6. \A f \in Elems(wire') : f <= published' /\ Past("live", f)'
    BY <1>0, <2>1, <2>2, <2>3, <2>5 DEF ApartInv, WaysOK
  <2>7. \A f \in Elems(reply) : Past("backfill", f)'
    BY <1>0, <2>5 DEF ApartInv, WaysOK
  <2>8. Past("live", published + 1)'
    <3>1. Head(wire) < published + 1 /\ published + 1 \in Nat
      BY <1>0, <2>2, <2>4
    <3>2. Past("live", published + 1)
      BY DEF ApartInv, WaysOK
    <3>3. Past("live", published + 1)'
      BY <2>1, <2>5, <3>1, <3>2 DEF Past
    <3> QED
      BY <3>3
  <2>9. backfill' \in {"none", "asked"} => Past("backfill", 0)'
    BY <2>1, <2>5 DEF ApartInv, WaysOK
  <2> QED
    BY <2>1, <2>3, <2>5, <2>6, <2>7, <2>8, <2>9 DEF ApartInv, WaysOK
<1>8. CASE Fanout /\ backfill = "none"
  <2>1. wire # <<>> /\ wire' = Tail(wire) /\ UNCHANGED <<published, reply, backfill, dedup, accepted>>
    BY <1>8 DEF Fanout
  <2>2. /\ Ascending(Tail(wire))
        /\ \A f \in Elems(Tail(wire)) : f \in Elems(wire)
    BY <1>0, <2>1, AscendingTail DEF ApartInv, WaysOK
  <2> QED
    BY <2>1, <2>2 DEF ApartInv, Remembered, Apart, WaysOK, Past
<1>9. CASE \/ Push \/ Trim \/ PipelineBreaks \/ SubscribeSent \/ SubscribeTakesEffect
           \/ LrangeFails \/ BackfillDone \/ ReaderFails \/ Send \/ UNCHANGED vars
  BY <1>1, <1>9 DEF Push, Trim, PipelineBreaks, SubscribeSent, SubscribeTakesEffect,
     LrangeFails, BackfillDone, ReaderFails, Send, vars
<1> QED
  BY <1>2, <1>3, <1>4, <1>5, <1>6, <1>7, <1>8, <1>9 DEF Next, Publisher, Subscriber

LEMMA ApartInit == Init => ApartInv
<1> SUFFICES ASSUME Init PROVE ApartInv
  OBVIOUS
<1>1. /\ Len(accepted) = 0 /\ Len(dedup) = 0 /\ Len(wire) = 0 /\ Len(reply) = 0
      /\ 1..Len(accepted) = {} /\ 1..Len(dedup) = {} /\ 1..Len(wire) = {} /\ 1..Len(reply) = {}
  BY DEF Init
<1>2. Elems(wire) = {} /\ Elems(reply) = {}
  BY NoElems DEF Init
<1> QED
  BY <1>1, <1>2 DEF ApartInv, Remembered, Apart, WaysOK, Past, Ascending

\* However long the run, however small the window and however history and live
\* stream overlap: an event gets through a second time only on the other way and
\* after a whole window of others (api/streaming/manager.py:62).
THEOREM RepeatsAreApart == Spec => []RepeatsApart
<1>1. ASSUME GapInv, ApartInv, [Next]_vars PROVE ApartInv'
  BY <1>1, ApartStep DEF GapInv
<1>2. ASSUME GapInv, ApartInv PROVE RepeatsApart
  <2>1. ASSUME NEW i \in 1..Len(accepted), NEW k \in 1..Len(accepted), i < k,
               accepted[i].event = accepted[k].event
        PROVE  accepted[i].via # accepted[k].via /\ k - i > Window
    <3>1. k - i > Window /\ (accepted[i].via = accepted[k].via => accepted[i].event < accepted[k].event)
      BY <1>2, <2>1 DEF ApartInv, Apart
    <3>2. accepted[i].event \in Nat
      <4>1. accepted \in Seq(Entry) /\ MaxEvents \in Nat
        BY <1>2, RunStreamAssumption DEF GapInv, TypeOK
      <4>2. accepted[i] \in Entry
        BY <4>1
      <4> QED
        BY <4>1, <4>2 DEF Entry, Event
    <3> QED
      BY <2>1, <3>1, <3>2
  <2> QED
    BY <2>1 DEF RepeatsApart
<1> QED
  BY <1>1, <1>2, ApartInit, StreamInvariant, PTL DEF Spec

=============================================================================
