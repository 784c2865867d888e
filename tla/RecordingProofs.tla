--------------------------- MODULE RecordingProofs ---------------------------
(***************************************************************************)
(* Proofs about what is recorded.  By the recorder (Recorder): order, loss, *)
(* registration and end of the log.  By another program (Ingest): that a    *)
(* recording and the pointer to its log are saved together, and that the    *)
(* heuristic engine (Heuristic) leaves out only noise and keeps the forms.  *)
(***************************************************************************)
EXTENDS Recorder, Ingest, FiniteSetTheorems, FunctionTheorems, SequenceTheorems,
        WellFoundedInduction, TLAPS

-----------------------------------------------------------------------------
(* Sequences and what is in them. *)

LEMMA Joined ==
    ASSUME NEW T, NEW s \in Seq(T), NEW t \in Seq(T)
    PROVE  /\ s \o t \in Seq(T)
           /\ Len(s) \in Nat /\ Len(t) \in Nat /\ Len(s \o t) = Len(s) + Len(t)
           /\ \A i \in 1..Len(s) : (s \o t)[i] = s[i]
           /\ \A i \in 1..Len(t) : (s \o t)[Len(s) + i] = t[i]
           /\ \A i \in 1..Len(s \o t) : \/ i \in 1..Len(s) /\ (s \o t)[i] = s[i]
                                        \/ /\ i - Len(s) \in 1..Len(t)
                                           /\ (s \o t)[i] = t[i - Len(s)]
           /\ Elems(s \o t) = Elems(s) \cup Elems(t)
<1>1. /\ s \o t \in Seq(T)
      /\ Len(s) \in Nat /\ Len(t) \in Nat /\ Len(s \o t) = Len(s) + Len(t)
      /\ \A i \in 1..Len(s) : (s \o t)[i] = s[i]
  OBVIOUS
<1>2. \A i \in 1..Len(t) : (s \o t)[Len(s) + i] = t[i]
  BY <1>1
<1>3. \A i \in 1..Len(s \o t) : \/ i \in 1..Len(s) /\ (s \o t)[i] = s[i]
                                \/ /\ i - Len(s) \in 1..Len(t)
                                   /\ (s \o t)[i] = t[i - Len(s)]
  BY <1>1
<1>4. \A i \in 1..Len(t) : Len(s) + i \in 1..Len(s \o t)
  BY <1>1
<1>5. \A i \in 1..Len(s) : i \in 1..Len(s \o t)
  BY <1>1
<1> DEFINE w == s \o t
<1>6. Elems(w) = Elems(s) \cup Elems(t)
  <2>1. Elems(w) \subseteq Elems(s) \cup Elems(t)
    BY <1>3 DEF Elems
  <2>2. Elems(s) \subseteq Elems(w)
    BY <1>1, <1>5 DEF Elems
  <2>3. Elems(t) \subseteq Elems(w)
    BY <1>2, <1>4 DEF Elems
  <2> QED
    BY <2>1, <2>2, <2>3
<1> QED
  BY <1>1, <1>2, <1>3, <1>6

LEMMA Appended ==
    ASSUME NEW T, NEW s \in Seq(T), NEW x \in T
    PROVE  /\ Append(s, x) \in Seq(T) /\ Append(s, x) # <<>>
           /\ Len(s) \in Nat /\ Len(Append(s, x)) = Len(s) + 1
           /\ \A i \in 1..Len(s) : Append(s, x)[i] = s[i]
           /\ Append(s, x)[Len(s) + 1] = x
           /\ Elems(Append(s, x)) = Elems(s) \cup {x}
<1>1. /\ Append(s, x) \in Seq(T) /\ Append(s, x) # <<>>
      /\ Len(s) \in Nat /\ Len(Append(s, x)) = Len(s) + 1
      /\ \A i \in 1..Len(s) : Append(s, x)[i] = s[i]
      /\ Append(s, x)[Len(s) + 1] = x
  OBVIOUS
<1> DEFINE w == Append(s, x)
<1>2. \A i \in 1..(Len(s) + 1) : i \in 1..Len(s) \/ i = Len(s) + 1
  BY <1>1
<1> HIDE DEF w
<1>3. Elems(w) = Elems(s) \cup {x}
  BY <1>1, <1>2 DEF Elems, w
<1> QED
  BY <1>1, <1>3 DEF w

LEMMA Taken ==
    ASSUME NEW T, NEW s \in Seq(T), s # <<>>
    PROVE  /\ Head(s) \in T /\ Tail(s) \in Seq(T) /\ Head(s) = s[1]
           /\ Len(s) \in Nat /\ Len(s) >= 1 /\ Len(Tail(s)) = Len(s) - 1
           /\ \A i \in 1..Len(Tail(s)) : i + 1 \in 1..Len(s) /\ Tail(s)[i] = s[i + 1]
           /\ Elems(s) = {Head(s)} \cup Elems(Tail(s))
<1>1. /\ Head(s) \in T /\ Tail(s) \in Seq(T) /\ Head(s) = s[1]
      /\ Len(s) \in Nat /\ Len(s) >= 1 /\ Len(Tail(s)) = Len(s) - 1
      /\ \A i \in 1..Len(Tail(s)) : i + 1 \in 1..Len(s) /\ Tail(s)[i] = s[i + 1]
  OBVIOUS
<1> DEFINE w == Tail(s)
<1>2. \A i \in 1..Len(s) : i = 1 \/ (i - 1 \in 1..Len(w) /\ s[i] = w[i - 1])
  BY <1>1
<1>3. 1 \in 1..Len(s)
  BY <1>1
<1> HIDE DEF w
<1>4. Elems(s) \subseteq {s[1]} \cup Elems(w)
  BY <1>2 DEF Elems
<1>5. {s[1]} \cup Elems(w) \subseteq Elems(s)
  BY <1>1, <1>3 DEF Elems, w
<1> QED
  BY <1>1, <1>4, <1>5 DEF w

LEMMA NoElems == Elems(<<>>) = {}
BY DEF Elems

\* A sequence has no more elements than places.
LEMMA ElemsCounted ==
    ASSUME NEW T, NEW s \in Seq(T)
    PROVE  IsFiniteSet(Elems(s)) /\ Cardinality(Elems(s)) <= Len(s)
<1>1. Len(s) \in Nat
  OBVIOUS
<1>2. IsFiniteSet(1..Len(s)) /\ Cardinality(1..Len(s)) = Len(s)
  <2>1. PICK n \in Nat : n = Len(s)
    BY <1>1
  <2>2. IsFiniteSet(1..n) /\ Cardinality(1..n) = IF 1 > n THEN 0 ELSE n - 1 + 1
    BY FS_Interval
  <2>3. Cardinality(1..n) = n
    BY <2>2
  <2> QED
    BY <2>1, <2>2, <2>3
<1> DEFINE f == [i \in 1..Len(s) |-> s[i]]
<1>3. f \in Surjection(1..Len(s), Elems(s))
  BY DEF Surjection, Elems
<1> QED
  BY <1>2, <1>3, FS_Surjection

-----------------------------------------------------------------------------
(* Types. *)

\* The rescue takes the envelopes that are in the queue, in their order.
LEMMA LeftoverFacts ==
    ASSUME TypeOK, QueueOK
    PROVE  /\ Leftover \in Seq(Envelope) /\ Len(Leftover) <= Len(queue)
           /\ \A i \in 1..Len(Leftover) : /\ i \in 1..Len(queue)
                                          /\ Leftover[i] = queue[i] /\ queue[i] # Sentinel
           /\ Elems(Leftover) = Elems(queue) \ {Sentinel}
<1> DEFINE n == Len(queue)
           all == Envelope \cup {Sentinel}
<1>1. queue \in Seq(all) /\ n \in Nat /\ \A i \in 1..n : queue[i] \in all
  BY DEF TypeOK
<1>2. \A i \in 1..n : queue[i] = Sentinel => i = n
  BY DEF QueueOK
<1>3. CASE Sentinel \in Elems(queue)
  <2>0. PICK k \in 1..n : queue[k] = Sentinel
    BY <1>3 DEF Elems
  <2>1. k = n /\ n >= 1
    BY <1>1, <1>2, <2>0
  <2>2. Leftover = SubSeq(queue, 1, n - 1)
    BY <1>3 DEF Leftover
  <2>3. /\ Len(Leftover) = n - 1
        /\ \A i \in 1..(n - 1) : Leftover[i] = queue[i] /\ i \in 1..n
    BY <1>1, <2>1, <2>2
  <2>4. \A i \in 1..(n - 1) : queue[i] \in Envelope /\ queue[i] # Sentinel
    BY <1>1, <1>2, <2>1
  <2>5. Leftover \in Seq(Envelope)
    <3>1. Leftover = [i \in 1..(n - 1) |-> queue[i]]
      BY <1>1, <2>1, <2>2
    <3>2. n - 1 \in Nat
      BY <1>1, <2>1
    <3> QED
      BY <2>4, <3>1, <3>2, SeqDef
  <2>6. \A i \in 1..n : i = n \/ i \in 1..(n - 1)
    BY <1>1
  <2>7. Elems(Leftover) = Elems(queue) \ {Sentinel}
    BY <2>0, <2>1, <2>3, <2>4, <2>6 DEF Elems
  <2> QED
    BY <1>1, <2>1, <2>3, <2>4, <2>5, <2>7
<1>4. CASE Sentinel \notin Elems(queue)
  <2>1. Leftover = queue
    BY <1>4 DEF Leftover
  <2>2. \A i \in 1..n : queue[i] \in Envelope /\ queue[i] # Sentinel
    BY <1>1, <1>4 DEF Elems
  <2>3. queue \in Seq(Envelope)
    BY <1>1, <2>2, SeqDef
  <2> QED
    BY <1>1, <1>4, <2>1, <2>2, <2>3
<1> QED
  BY <1>3, <1>4

LEMMA SentinelOutside == Sentinel \notin Envelope
BY RecorderAssumption DEF Sentinel, Envelope

LEMMA TypeStep ==
    ASSUME TypeOK, QueueOK, DrainOK, CapturedOK, RowsOK, Next
    PROVE  TypeOK'
<1> DEFINE all == Envelope \cup {Sentinel}
           numbers == 1..(MaxCaptures + MaxNavs)
<1>0. /\ captured \in Nat /\ navs \in Nat /\ sequence \in Nat /\ rows \in Nat
      /\ MaxCaptures \in Nat /\ MaxNavs \in Nat
  BY RecorderAssumption DEF TypeOK
<1>1. CASE Capture
  <2>1. captured + 1 \in Envelope /\ captured' \in 0..MaxCaptures /\ captured + 1 \in all
    BY <1>0, <1>1 DEF Capture, Envelope
  <2>2. queue' \in Seq(all) /\ Len(queue') <= QueueSize /\ dropped' \in SUBSET Envelope
    <3>1. CASE Len(queue) < QueueSize /\ queue' = Append(queue, captured + 1) /\ dropped' = dropped
      <4>1. queue \in Seq(all)
        BY DEF TypeOK
      <4>2. /\ Append(queue, captured + 1) \in Seq(all) /\ Len(queue) \in Nat
            /\ Len(Append(queue, captured + 1)) = Len(queue) + 1
        BY <2>1, <4>1, Appended
      <4> QED
        BY <3>1, <4>2, RecorderAssumption DEF TypeOK
    <3>2. CASE dropped' = dropped \cup {captured + 1} /\ queue' = queue
      BY <2>1, <3>2 DEF TypeOK
    <3> QED
      BY <1>1, <3>1, <3>2 DEF Capture, Enqueue
  <2>3. sequence' \in 0..(MaxCaptures + MaxNavs) /\ actions' \in Seq(numbers)
    <3>1. sequence + 1 \in numbers
      BY <1>0, <1>1 DEF Capture, CapturedOK, TypeOK
    <3>2. Append(actions, sequence + 1) \in Seq(numbers)
      BY <3>1 DEF TypeOK
    <3>3. sequence' \in {sequence, sequence + 1} /\ actions' \in {actions, Append(actions, sequence + 1)}
      BY <1>1 DEF Capture, Record, RecordRefused
    <3>4. sequence \in 0..(MaxCaptures + MaxNavs) /\ actions \in Seq(numbers)
      BY DEF TypeOK
    <3>5. sequence' \in 0..(MaxCaptures + MaxNavs)
      BY <1>0, <3>1, <3>3, <3>4
    <3>6. actions' \in Seq(numbers)
      BY <3>2, <3>3, <3>4
    <3> QED
      BY <3>5, <3>6
  <2> QED
    BY <1>1, <2>1, <2>2, <2>3 DEF Capture, logVars, TypeOK
<1>2. CASE Navigate
  <2>1. navs' \in 0..MaxNavs
    BY <1>0, <1>2 DEF Navigate
  <2>2. sequence' \in 0..(MaxCaptures + MaxNavs) /\ actions' \in Seq(numbers)
    <3>1. sequence + 1 \in numbers
      BY <1>0, <1>2 DEF Navigate, CapturedOK, TypeOK
    <3>2. Append(actions, sequence + 1) \in Seq(numbers)
      BY <3>1 DEF TypeOK
    <3> QED
      BY <1>0, <1>2, <3>1, <3>2 DEF Navigate, Record, TypeOK
  <2> QED
    BY <1>2, <2>1, <2>2 DEF Navigate, logVars, TypeOK
<1>3. CASE FetchFirst \/ FetchMore
  <2>1. queue \in Seq(all) /\ queue # <<>> /\ queue' = Tail(queue) /\ batch \in Seq(Envelope)
    BY <1>3 DEF FetchFirst, FetchMore, TypeOK
  <2>2. Head(queue) \in all /\ queue' \in Seq(all) /\ Len(queue') <= QueueSize
    <3>1. /\ Head(queue) \in all /\ Tail(queue) \in Seq(all) /\ Len(queue) \in Nat
          /\ Len(Tail(queue)) = Len(queue) - 1
      BY <2>1, Taken
    <3> QED
      BY <2>1, <3>1, RecorderAssumption DEF TypeOK
  <2>3. batch' \in Seq(Envelope) /\ drain' \in Drain
    <3>1. CASE Head(queue) = Sentinel
      BY <1>3, <2>1, <3>1 DEF FetchFirst, FetchMore, Drain
    <3>2. CASE Head(queue) # Sentinel
      <4>1. Head(queue) \in Envelope
        BY <2>2, <3>2
      <4>2. /\ batch' = <<Head(queue)>> \/ batch' = Append(batch, Head(queue))
            /\ drain' \in {"flushing", "collecting"}
        BY <1>3, <3>2 DEF FetchFirst, FetchMore
      <4>3. <<Head(queue)>> \in Seq(Envelope) /\ Append(batch, Head(queue)) \in Seq(Envelope)
        BY <2>1, <4>1
      <4>4. drain' \in Drain
        BY <4>2 DEF Drain
      <4> QED
        BY <4>2, <4>3, <4>4
    <3> QED
      BY <3>1, <3>2
  <2> QED
    BY <1>3, <2>2, <2>3 DEF FetchFirst, FetchMore, recVars, logVars, TypeOK
<1>4. CASE BatchTimeout
  BY <1>4 DEF BatchTimeout, recVars, logVars, TypeOK, Drain
<1>5. CASE Flushed
  <2>1. written' \in Seq(Envelope) /\ unwritten' \in SUBSET Envelope
    <3>1. written \o batch \in Seq(Envelope)
      BY DEF TypeOK
    <3>2. Elems(batch) \subseteq Envelope
      BY DEF TypeOK, Elems
    <3> QED
      BY <1>5, <3>1, <3>2 DEF Flushed, Stored, TypeOK
  <2>2. rows' \in 0..2 /\ known' \in BOOLEAN
    <3>1. \/ UNCHANGED <<known, rows>>
          \/ ~known /\ known' = TRUE /\ rows' = rows + 1
      BY <1>5 DEF Flushed, Stored
    <3>2. ~known => rows <= 1
      BY DEF RowsOK
    <3>3. rows' = rows \/ (rows <= 1 /\ rows' = rows + 1)
      BY <3>1, <3>2
    <3>4. rows \in 0..2
      BY DEF TypeOK
    <3>5. rows' \in 0..2
      BY <3>3, <3>4
    <3>6. known' = known \/ known' = TRUE
      BY <3>1
    <3>7. known' \in BOOLEAN
      BY <3>6 DEF TypeOK
    <3> QED
      BY <3>5, <3>7
  <2>3. batch' \in Seq(Envelope) /\ drain' \in Drain
    BY <1>5 DEF Flushed, Drain
  <2> QED
    BY <1>5, <2>1, <2>2, <2>3 DEF Flushed, recVars, TypeOK
<1>6. CASE Stop
  <2>1. queue' \in Seq(all) /\ Len(queue') <= QueueSize
    <3>1. queue \in Seq(all) /\ Sentinel \in all
      BY DEF TypeOK
    <3>2. /\ Append(queue, Sentinel) \in Seq(all) /\ Len(queue) \in Nat
          /\ Len(Append(queue, Sentinel)) = Len(queue) + 1
      BY <3>1, Appended
    <3> QED
      BY <1>6, <3>2, RecorderAssumption DEF Stop, TypeOK
  <2> QED
    BY <1>6, <2>1 DEF Stop, recVars, logVars, TypeOK
<1>7. CASE Overrun
  <2>1. Leftover \in Seq(Envelope)
    BY LeftoverFacts
  <2>2. drain' \in Drain /\ queue' \in Seq(all) /\ Len(queue') <= QueueSize
    BY <1>7, RecorderAssumption DEF Overrun, Drain
  <2>3. /\ written' \in Seq(Envelope) /\ stray' \in Seq(Envelope) /\ late' \in SUBSET Envelope
        /\ rows' \in 0..2
    <3>1. written \o batch \in Seq(Envelope) /\ Elems(batch) \subseteq Envelope
      BY DEF TypeOK, Elems
    <3>2. ~known => rows + 1 \in 0..2
      BY <1>0 DEF RowsOK
    <3> QED
      BY <1>7, <3>1, <3>2 DEF Overrun, Interrupted, TypeOK
  <2> QED
    BY <1>7, <2>1, <2>2, <2>3 DEF Overrun, recVars, TypeOK
<1>8. CASE StopReturns
  BY <1>8 DEF StopReturns, recVars, logVars, TypeOK
<1>9. CASE StrayLands
  <2>1. written' \in Seq(Envelope) /\ stray' \in Seq(Envelope)
    BY <1>9 DEF StrayLands, TypeOK
  <2> QED
    BY <1>9, <2>1 DEF StrayLands, recVars, TypeOK
<1>10. CASE Finalize
  <2>1. size' \in Nat
    BY <1>10 DEF Finalize, TypeOK
  <2> QED
    BY <1>10, <2>1 DEF Finalize, recVars, TypeOK
<1> QED
  BY <1>1, <1>2, <1>3, <1>4, <1>5, <1>6, <1>7, <1>8, <1>9, <1>10 DEF Next, DrainStep

-----------------------------------------------------------------------------
(* The queue and the task that drains it. *)

LEMMA QueueStep ==
    ASSUME TypeOK, QueueOK, DrainOK, CapturedOK, Next
    PROVE  QueueOK'
<1> DEFINE all == Envelope \cup {Sentinel}
           n == Len(queue)
<1>0. /\ queue \in Seq(all) /\ n \in Nat /\ captured \in Nat
      /\ \A i \in 1..n : queue[i] <= captured /\ queue[i] \in Nat
  <2>1. queue \in Seq(all) /\ captured \in Nat
    BY RecorderAssumption DEF TypeOK
  <2>2. \A i \in 1..n : queue[i] \in Elems(queue)
    BY DEF Elems
  <2> QED
    BY <2>1, <2>2 DEF CapturedOK
<1>1. CASE Capture
  <2>1. stop = "no" /\ stop' = stop /\ drain' = drain
    BY <1>1 DEF Capture
  <2>2. Patient /\ Patient' /\ drain \notin {"last", "ended"}
    BY <2>1 DEF Patient, DrainOK
  <2>3. CASE queue' = queue
    BY <2>1, <2>2, <2>3 DEF QueueOK
  <2>4. CASE queue' = Append(queue, captured + 1)
    <3>1. captured + 1 \in all /\ captured + 1 # Sentinel
      BY <1>0, <1>1, RecorderAssumption DEF Capture, Envelope, Sentinel
    <3>2. /\ Len(queue') = n + 1 /\ queue'[n + 1] = captured + 1
          /\ \A i \in 1..n : queue'[i] = queue[i]
      BY <1>0, <2>4, <3>1, Appended
    <3>3. \A i \in 1..n : queue[i] # Sentinel
      BY <2>1 DEF QueueOK
    <3>4. \A i \in 1..(n + 1) : i = n + 1 \/ i \in 1..n
      BY <1>0
    <3>5. \A i \in 1..Len(queue') : queue'[i] # Sentinel
      BY <3>1, <3>2, <3>3, <3>4
    <3>6. \A i, j \in 1..Len(queue') : i < j => queue'[i] < queue'[j]
      <4> SUFFICES ASSUME NEW i \in 1..(n + 1), NEW j \in 1..(n + 1), i < j
                   PROVE  queue'[i] < queue'[j]
        BY <3>2
      <4>1. i \in 1..n
        BY <1>0
      <4>2. CASE j = n + 1
        BY <1>0, <3>2, <4>1, <4>2
      <4>3. CASE j \in 1..n
        BY <3>2, <3>3, <4>1, <4>3 DEF QueueOK
      <4> QED
        BY <3>4, <4>2, <4>3
    <3> QED
      BY <2>1, <2>2, <3>5, <3>6 DEF QueueOK
  <2> QED
    BY <1>1, <2>3, <2>4 DEF Capture, Enqueue
<1>2. CASE FetchFirst \/ FetchMore
  <2>1. queue # <<>> /\ queue' = Tail(queue) /\ stop' = stop
    BY <1>2 DEF FetchFirst, FetchMore
  <2> DEFINE m == Len(queue')
  <2>2. /\ m = n - 1 /\ n >= 1 /\ Head(queue) = queue[1]
        /\ \A i \in 1..m : i + 1 \in 1..n /\ queue'[i] = queue[i + 1]
    BY <1>0, <2>1, Taken
  <2>3. \A i \in 1..m : queue'[i] = Sentinel => i = m /\ stop' # "no"
    <3> SUFFICES ASSUME NEW i \in 1..m, queue'[i] = Sentinel PROVE i = m /\ stop' # "no"
      OBVIOUS
    <3>1. i + 1 \in 1..n /\ queue[i + 1] = Sentinel /\ i \in Int
      BY <2>2
    <3>2. i + 1 = n /\ stop # "no"
      BY <3>1 DEF QueueOK
    <3>3. m = n - 1
      BY <2>2
    <3>4. i = m
      BY <1>0, <3>1, <3>2, <3>3
    <3> QED
      BY <2>1, <3>2, <3>4
  <2>4. \A i, j \in 1..m : i < j /\ queue'[j] # Sentinel => queue'[i] < queue'[j]
    <3> SUFFICES ASSUME NEW i \in 1..m, NEW j \in 1..m, i < j, queue'[j] # Sentinel
                 PROVE  queue'[i] < queue'[j]
      OBVIOUS
    <3>1. /\ i + 1 \in 1..n /\ j + 1 \in 1..n /\ i + 1 < j + 1
          /\ queue'[i] = queue[i + 1] /\ queue'[j] = queue[j + 1]
      BY <2>2
    <3> QED
      BY <3>1 DEF QueueOK
  <2>5. Patient' /\ (drain' \in {"last", "ended"} => Head(queue) = Sentinel)
    BY <1>2, <2>1 DEF FetchFirst, FetchMore, QueueOK, Patient, TypeOK
  <2>6. Head(queue) = Sentinel => queue' = <<>>
    <3>1. queue[1] = Sentinel => n = 1
      BY <1>0, <2>2 DEF QueueOK
    <3> QED
      BY <1>0, <2>1, <2>2, <3>1
  <2> QED
    BY <2>3, <2>4, <2>5, <2>6 DEF QueueOK
<1>3. CASE BatchTimeout
  <2>1. UNCHANGED <<queue, stop>> /\ drain' = "flushing"
    BY <1>3 DEF BatchTimeout
  <2> QED
    BY <2>1 DEF QueueOK, Patient
<1>4. CASE Flushed
  <2>1. UNCHANGED <<queue, stop>> /\ drain' \in {"fetching", "ended"}
    BY <1>4 DEF Flushed
  <2>2. drain' = "ended" => queue = <<>>
    BY <1>4 DEF Flushed, QueueOK, DrainOK, Patient
  <2> QED
    BY <2>1, <2>2 DEF QueueOK, Patient
<1>5. CASE Stop
  <2>1. stop = "no" /\ stop' = "waiting" /\ drain' = drain
    BY <1>5 DEF Stop
  <2>2. Patient' /\ drain \notin {"last", "ended"}
    BY <2>1 DEF Patient, DrainOK
  <2>3. CASE queue' = queue
    BY <2>1, <2>2, <2>3 DEF QueueOK
  <2>4. CASE queue' = Append(queue, Sentinel)
    <3>1. /\ Len(queue') = n + 1 /\ queue'[n + 1] = Sentinel
          /\ \A i \in 1..n : queue'[i] = queue[i]
      BY <1>0, <2>4, Appended
    <3>2. \A i \in 1..n : queue[i] # Sentinel
      BY <2>1 DEF QueueOK
    <3>3. \A i \in 1..(n + 1) : i = n + 1 \/ i \in 1..n
      BY <1>0
    <3>4. \A i, j \in 1..(n + 1) : i < j /\ queue'[j] # Sentinel => queue'[i] < queue'[j]
      <4> SUFFICES ASSUME NEW i \in 1..(n + 1), NEW j \in 1..(n + 1), i < j,
                          queue'[j] # Sentinel
                   PROVE  queue'[i] < queue'[j]
        OBVIOUS
      <4>1. j \in 1..n /\ i \in 1..n
        BY <1>0, <3>1, <3>3
      <4> QED
        BY <3>1, <4>1 DEF QueueOK
    <3> QED
      BY <2>1, <2>2, <3>1, <3>2, <3>3, <3>4 DEF QueueOK
  <2> QED
    BY <1>5, <2>3, <2>4 DEF Stop
<1>6. CASE Overrun
  <2>1. queue' = <<>>
    BY <1>6 DEF Overrun
  <2> QED
    BY <2>1 DEF QueueOK
<1>7. CASE StopReturns
  <2>1. UNCHANGED <<queue, drain>> /\ drain = "ended" /\ stop' = "done"
    BY <1>7 DEF StopReturns
  <2> QED
    BY <2>1 DEF QueueOK
<1>8. CASE Navigate \/ StrayLands \/ Finalize
  <2>1. UNCHANGED <<queue, drain, stop>>
    BY <1>8 DEF Navigate, StrayLands, Finalize
  <2> QED
    BY <2>1 DEF QueueOK, Patient
<1> QED
  BY <1>1, <1>2, <1>3, <1>4, <1>5, <1>6, <1>7, <1>8 DEF Next, DrainStep

LEMMA DrainOKStep ==
    ASSUME TypeOK, QueueOK, DrainOK, Next
    PROVE  DrainOK'
<1>0. Len(batch) \in Nat /\ BatchSize \in Nat \ {0} /\ batch \in Seq(Envelope)
  BY RecorderAssumption DEF TypeOK
<1>1. CASE FetchFirst
  <2>1. queue # <<>> /\ drain = "fetching" /\ stop' = stop
    BY <1>1 DEF FetchFirst
  <2>2. Patient /\ batch = <<>>
    BY <2>1 DEF QueueOK, DrainOK
  <2>3. CASE Head(queue) = Sentinel
    <3>1. drain' = "ended" /\ batch' = batch
      BY <1>1, <2>3 DEF FetchFirst
    <3>2. stop # "no"
      <4>1. queue \in Seq(Envelope \cup {Sentinel})
        BY DEF TypeOK
      <4>2. Head(queue) = queue[1] /\ 1 \in 1..Len(queue)
        BY <2>1, <4>1
      <4> QED
        BY <2>3, <4>2 DEF QueueOK
    <3> QED
      BY <2>1, <2>2, <3>1, <3>2 DEF DrainOK, Patient
  <2>4. CASE Head(queue) # Sentinel
    <3>1. /\ batch' = <<Head(queue)>> /\ drain' \in {"flushing", "collecting"}
          /\ drain' = "collecting" => BatchSize # 1
      BY <1>1, <2>4 DEF FetchFirst
    <3>2. Len(batch') = 1 /\ batch' # <<>>
      BY <3>1
    <3> QED
      BY <1>0, <2>1, <2>2, <3>1, <3>2 DEF DrainOK, Patient
  <2> QED
    BY <2>3, <2>4
<1>2. CASE FetchMore
  <2>1. queue # <<>> /\ drain = "collecting" /\ stop' = stop
    BY <1>2 DEF FetchMore
  <2>2. Patient /\ batch # <<>> /\ Len(batch) < BatchSize
    BY <2>1 DEF QueueOK, DrainOK
  <2>3. CASE Head(queue) = Sentinel
    <3>1. drain' = "last" /\ batch' = batch
      BY <1>2, <2>3 DEF FetchMore
    <3>2. stop # "no"
      <4>1. queue \in Seq(Envelope \cup {Sentinel})
        BY DEF TypeOK
      <4>2. Head(queue) = queue[1] /\ 1 \in 1..Len(queue)
        BY <2>1, <4>1
      <4> QED
        BY <2>3, <4>2 DEF QueueOK
    <3> QED
      BY <1>0, <2>1, <2>2, <3>1, <3>2 DEF DrainOK, Patient
  <2>4. CASE Head(queue) # Sentinel
    <3>1. /\ batch' = Append(batch, Head(queue)) /\ drain' \in {"flushing", "collecting"}
          /\ drain' = "collecting" => Len(batch) + 1 # BatchSize
      BY <1>2, <2>4 DEF FetchMore
    <3>2. Len(batch') = Len(batch) + 1 /\ batch' # <<>>
      <4>1. queue \in Seq(Envelope \cup {Sentinel})
        BY DEF TypeOK
      <4>2. Head(queue) \in Envelope
        BY <2>1, <2>4, <4>1
      <4> QED
        BY <1>0, <3>1, <4>2, Appended
    <3> QED
      BY <1>0, <2>1, <2>2, <3>1, <3>2 DEF DrainOK, Patient
  <2> QED
    BY <2>3, <2>4
<1>3. CASE BatchTimeout
  <2>1. UNCHANGED <<batch, stop>> /\ drain = "collecting" /\ drain' = "flushing"
    BY <1>3 DEF BatchTimeout
  <2> QED
    BY <2>1 DEF DrainOK, Patient
<1>4. CASE Flushed
  <2>1. /\ stop' = stop /\ batch' = <<>> /\ Len(batch') = 0
        /\ drain \in {"flushing", "last", "rescuing"}
        /\ drain' = IF drain = "flushing" THEN "fetching" ELSE "ended"
    BY <1>4 DEF Flushed
  <2> QED
    BY <1>0, <2>1 DEF DrainOK, Patient
<1>5. CASE Stop
  <2>1. UNCHANGED <<drain, batch>> /\ stop = "no" /\ stop' = "waiting"
    BY <1>5 DEF Stop
  <2> QED
    BY <2>1 DEF DrainOK, Patient
<1>6. CASE Overrun
  <2>1. /\ stop' = "overrun" /\ batch' = Leftover
        /\ drain' = IF Leftover = <<>> THEN "ended" ELSE "rescuing"
    BY <1>6 DEF Overrun
  <2> QED
    BY <2>1 DEF DrainOK, Patient
<1>7. CASE StopReturns
  <2>1. UNCHANGED <<drain, batch>> /\ drain = "ended" /\ stop' = "done"
    BY <1>7 DEF StopReturns
  <2> QED
    BY <2>1 DEF DrainOK, Patient
<1>8. CASE Capture \/ Navigate \/ StrayLands \/ Finalize
  <2>1. UNCHANGED <<batch, drain, stop>>
    BY <1>8 DEF Capture, Navigate, StrayLands, Finalize
  <2> QED
    BY <2>1 DEF DrainOK, Patient
<1> QED
  BY <1>1, <1>2, <1>3, <1>4, <1>5, <1>6, <1>7, <1>8 DEF Next, DrainStep

LEMMA CapturedStep ==
    ASSUME TypeOK, QueueOK, CapturedOK, Next
    PROVE  CapturedOK'
<1> DEFINE all == Envelope \cup {Sentinel}
<1>0. /\ captured \in Nat /\ navs \in Nat /\ sequence \in Nat
      /\ queue \in Seq(all) /\ batch \in Seq(Envelope) /\ written \in Seq(Envelope)
      /\ stray \in Seq(Envelope)
  BY RecorderAssumption DEF TypeOK
<1>1. CASE Capture
  <2>1. UNCHANGED <<navs, written, batch, stray>> /\ captured' = captured + 1
        /\ sequence' \in {sequence, sequence + 1}
    BY <1>1 DEF Capture, Record, RecordRefused, logVars
  <2>2. Elems(queue') \subseteq 0..(captured + 1)
    <3>1. captured + 1 \in all
      BY <1>0, <1>1, RecorderAssumption DEF Capture, Envelope
    <3>2. Elems(Append(queue, captured + 1)) = Elems(queue) \cup {captured + 1}
      <4>1. PICK x \in all : x = captured + 1
        BY <3>1
      <4>2. Elems(Append(queue, x)) = Elems(queue) \cup {x}
        <5> HIDE DEF all
        <5> QED
          BY <1>0, Appended
      <4> QED
        BY <4>1, <4>2
    <3>3. queue' = queue \/ queue' = Append(queue, captured + 1)
      BY <1>1 DEF Capture, Enqueue
    <3>4. Elems(queue) \subseteq 0..(captured + 1) /\ captured + 1 \in 0..(captured + 1)
      BY <1>0 DEF CapturedOK
    <3> QED
      BY <3>2, <3>3, <3>4
  <2>3. 1..captured \subseteq 1..(captured + 1)
    BY <1>0
  <2>4. sequence' <= captured' + navs'
    BY <1>0, <2>1 DEF CapturedOK
  <2> QED
    BY <2>1, <2>2, <2>3, <2>4 DEF CapturedOK
<1>2. CASE Navigate
  <2>1. UNCHANGED <<captured, queue, batch, written, stray>> /\ navs' = navs + 1 /\ sequence' = sequence + 1
    BY <1>2 DEF Navigate, Record, logVars
  <2> QED
    BY <1>0, <2>1 DEF CapturedOK
<1>3. CASE FetchFirst \/ FetchMore
  <2>1. UNCHANGED <<captured, navs, sequence, written, stray>> /\ queue # <<>> /\ queue' = Tail(queue)
    BY <1>3 DEF FetchFirst, FetchMore, recVars, logVars
  <2>2. Elems(queue) = {Head(queue)} \cup Elems(queue') /\ Head(queue) \in all
    BY <1>0, <2>1, Taken
  <2>3. Elems(batch') \subseteq 1..captured
    <3>1. CASE Head(queue) = Sentinel
      BY <1>3, <3>1 DEF FetchFirst, FetchMore, CapturedOK
    <3>2. CASE Head(queue) # Sentinel
      <4>1. Head(queue) \in Envelope /\ Head(queue) \in 1..captured
        <5>1. Head(queue) \in Elems(queue)
          BY <2>2
        <5>2. Head(queue) \in 0..captured /\ Head(queue) # 0
          BY <3>2, <5>1 DEF CapturedOK, Sentinel
        <5> QED
          BY <1>0, <2>2, <3>2, <5>2
      <4>2. batch' = <<Head(queue)>> \/ batch' = Append(batch, Head(queue))
        BY <1>3, <3>2 DEF FetchFirst, FetchMore
      <4>3. Elems(<<Head(queue)>>) = {Head(queue)}
        BY DEF Elems
      <4>4. Elems(Append(batch, Head(queue))) = Elems(batch) \cup {Head(queue)}
        BY <1>0, <4>1, Appended
      <4> QED
        BY <4>1, <4>2, <4>3, <4>4 DEF CapturedOK
    <3> QED
      BY <3>1, <3>2
  <2> QED
    BY <2>1, <2>2, <2>3 DEF CapturedOK
<1>4. CASE Flushed
  <2>1. UNCHANGED <<captured, navs, sequence, queue, stray>> /\ batch' = <<>>
        /\ (written' = written \/ written' = written \o batch)
    BY <1>4 DEF Flushed, Stored, recVars
  <2>2. Elems(written \o batch) = Elems(written) \cup Elems(batch)
    BY <1>0, Joined
  <2> QED
    BY <2>1, <2>2, NoElems DEF CapturedOK
<1>5. CASE Stop
  <2>1. UNCHANGED <<captured, navs, sequence, batch, written, stray>>
        /\ (queue' = queue \/ queue' = Append(queue, Sentinel))
    BY <1>5 DEF Stop, recVars, logVars
  <2>2. Elems(Append(queue, Sentinel)) = Elems(queue) \cup {Sentinel}
    BY <1>0, Appended
  <2>3. Sentinel \in 0..captured
    BY <1>0 DEF Sentinel
  <2> QED
    BY <2>1, <2>2, <2>3 DEF CapturedOK
<1>6. CASE Overrun
  <2>1. UNCHANGED <<captured, navs, sequence>> /\ batch' = Leftover /\ queue' = <<>>
        /\ (written' = written \/ written' = written \o batch)
        /\ (stray' = stray \/ stray' = batch)
    BY <1>6 DEF Overrun, Interrupted, recVars
  <2>2. Elems(written \o batch) = Elems(written) \cup Elems(batch)
    BY <1>0, Joined
  <2>3. Elems(Leftover) \subseteq 1..captured
    BY <1>0, LeftoverFacts DEF CapturedOK, Sentinel
  <2> QED
    BY <2>1, <2>2, <2>3, NoElems DEF CapturedOK
<1>7. CASE StrayLands
  <2>1. UNCHANGED <<captured, navs, sequence, queue, batch>> /\ written' = written \o stray
        /\ stray' = <<>>
    BY <1>7 DEF StrayLands, recVars
  <2>2. Elems(written \o stray) = Elems(written) \cup Elems(stray)
    BY <1>0, Joined
  <2> QED
    BY <2>1, <2>2, NoElems DEF CapturedOK
<1>8. CASE BatchTimeout \/ StopReturns \/ Finalize
  <2>1. UNCHANGED <<captured, navs, sequence, queue, batch, written, stray>>
    BY <1>8 DEF BatchTimeout, StopReturns, Finalize, recVars, logVars
  <2> QED
    BY <2>1 DEF CapturedOK
<1> QED
  BY <1>1, <1>2, <1>3, <1>4, <1>5, <1>6, <1>7, <1>8 DEF Next, DrainStep

\* What goes into the log is not empty, so the row is never there before the file.
LEMMA RowsStep ==
    ASSUME TypeOK, QueueOK, DrainOK, OrderOK, RowsOK, Next
    PROVE  RowsOK'
<1>0. /\ rows \in Nat /\ batch \in Seq(Envelope) /\ written \in Seq(Envelope)
      /\ stray \in Seq(Envelope) /\ known \in BOOLEAN
  BY DEF TypeOK
<1>1. CASE Flushed
  <2>1. UNCHANGED <<late, size, stop>> /\ drain \in {"flushing", "last", "rescuing"}
    BY <1>1 DEF Flushed
  <2>2. batch # <<>> /\ stop # "done"
    BY <2>1 DEF DrainOK
  <2>3. \/ UNCHANGED <<written, rows, known>>
        \/ /\ written' = written \o batch
           /\ \/ known' = TRUE /\ rows' = rows + 1
              \/ UNCHANGED <<known, rows>>
    BY <1>1 DEF Flushed, Stored
  <2>4. written \o batch # <<>>
    BY <1>0, <2>2
  <2>5. size = 0 /\ size' = 0
    BY <2>1, <2>2 DEF RowsOK
  <2>6. rows' > 0 => written' # <<>>
    BY <2>3, <2>4 DEF RowsOK
  <2>7. ~known' => ~known /\ rows' = rows
    BY <2>3
  <2>8. Patient' = Patient
    BY <2>1 DEF Patient
  <2> QED
    BY <2>5, <2>6, <2>7, <2>8 DEF RowsOK
<1>2. CASE Overrun
  <2>1. UNCHANGED <<known, size>> /\ stop = "waiting" /\ ~Patient'
    BY <1>2 DEF Overrun, Patient
  <2>2. \/ UNCHANGED <<written, rows>>
        \/ /\ drain \in {"flushing", "last"} /\ written' = written \o batch
           /\ rows' \in {rows, IF known THEN rows ELSE rows + 1}
    BY <1>2 DEF Overrun, Interrupted
  <2>3. drain \in {"flushing", "last"} => written \o batch # <<>>
    <3>1. drain \in {"flushing", "last"} => batch # <<>>
      BY DEF DrainOK
    <3> QED
      BY <1>0, <3>1
  <2>4. rows' > 0 => written' # <<>>
    BY <2>2, <2>3 DEF RowsOK
  <2>5. ~known => rows = 0
    BY <2>1 DEF RowsOK, Patient
  <2>6. ~known' => rows' <= 1
    BY <2>1, <2>2, <2>5
  <2>7. size = 0 /\ size' = 0
    BY <2>1 DEF RowsOK
  <2> QED
    BY <2>1, <2>4, <2>6, <2>7 DEF RowsOK
<1>3. CASE StrayLands
  <2>1. UNCHANGED <<rows, known, size, stop, late>> /\ written' = written \o stray /\ stray # <<>>
    BY <1>3 DEF StrayLands
  <2>2. late # {} /\ written' # <<>>
    BY <1>0, <2>1 DEF OrderOK
  <2> QED
    BY <2>1, <2>2 DEF RowsOK, Patient
<1>4. CASE Finalize
  <2>1. UNCHANGED <<rows, known, stop, late, written>> /\ stop = "done"
        /\ (size' = size \/ size' = Len(written))
    BY <1>4 DEF Finalize
  <2> QED
    BY <2>1 DEF RowsOK, Patient
<1>5. CASE Stop
  <2>1. UNCHANGED <<rows, known, late, written, size>> /\ stop = "no" /\ stop' = "waiting"
    BY <1>5 DEF Stop, logVars
  <2>2. size = 0
    BY <2>1 DEF RowsOK
  <2> QED
    BY <2>1, <2>2 DEF RowsOK, Patient
<1>6. CASE StopReturns
  <2>1. UNCHANGED <<rows, known, late, written, size>> /\ stop' = "done" /\ stop # "done"
    BY <1>6 DEF StopReturns, logVars
  <2>2. size = 0
    BY <2>1 DEF RowsOK
  <2> QED
    BY <2>1, <2>2 DEF RowsOK, Patient
<1>7. CASE Capture \/ Navigate \/ FetchFirst \/ FetchMore \/ BatchTimeout
  <2>1. UNCHANGED <<rows, known, late, written, size, stop>>
    BY <1>7 DEF Capture, Navigate, FetchFirst, FetchMore, BatchTimeout, logVars
  <2> QED
    BY <2>1 DEF RowsOK, Patient
<1> QED
  BY <1>1, <1>2, <1>3, <1>4, <1>5, <1>6, <1>7 DEF Next, DrainStep

-----------------------------------------------------------------------------
(* The order of the log. *)

\* What LogInOrder says of the log w when the batch of l was abandoned in close().
InLogOrder(w, l) ==
    /\ \A i, j \in 1..Len(w) : i < j /\ {w[i], w[j]} \cap l = {} => w[i] < w[j]
    /\ \A i, j \in 1..Len(w) : w[i] = w[j] => i = j

\* A batch that goes up and comes after the log, but for what was abandoned,
\* keeps the log in order.
LEMMA LogGrows ==
    ASSUME NEW w \in Seq(Envelope), NEW b \in Seq(Envelope), NEW l,
           InLogOrder(w, l), Increasing(b), Elems(w) \cap Elems(b) = {},
           \A i \in 1..Len(w), j \in 1..Len(b) : w[i] \notin l /\ b[j] \notin l => w[i] < b[j]
    PROVE  InLogOrder(w \o b, l)
<1> DEFINE v == w \o b
           n == Len(w)
<1>1. /\ n \in Nat /\ Len(b) \in Nat
      /\ \A i \in 1..Len(v) : \/ i \in 1..n /\ v[i] = w[i]
                              \/ i - n \in 1..Len(b) /\ v[i] = b[i - n]
      /\ Len(v) = n + Len(b)
  BY Joined
<1> HIDE DEF v
<1>2. ASSUME NEW i \in 1..Len(v), NEW j \in 1..Len(v), i < j, {v[i], v[j]} \cap l = {}
      PROVE  v[i] < v[j]
  <2>1. v[i] \notin l /\ v[j] \notin l
    BY <1>2
  <2>2. CASE i \in 1..n /\ v[i] = w[i] /\ j \in 1..n /\ v[j] = w[j]
    BY <1>2, <2>2 DEF InLogOrder
  <2>3. CASE i \in 1..n /\ v[i] = w[i] /\ j - n \in 1..Len(b) /\ v[j] = b[j - n]
    BY <2>1, <2>3
  <2>4. CASE i - n \in 1..Len(b) /\ v[i] = b[i - n] /\ j - n \in 1..Len(b) /\ v[j] = b[j - n]
    <3>1. PICK p \in 1..Len(b) : p = i - n /\ v[i] = b[p]
      BY <2>4
    <3>2. PICK q \in 1..Len(b) : q = j - n /\ v[j] = b[q]
      BY <2>4
    <3>3. p < q
      BY <1>1, <1>2, <3>1, <3>2
    <3> QED
      BY <3>1, <3>2, <3>3 DEF Increasing
  <2>5. i \in 1..n => ~(i - n \in 1..Len(b))
    BY <1>1
  <2>6. i - n \in 1..Len(b) => ~(j \in 1..n)
    BY <1>1, <1>2
  <2> QED
    BY <1>1, <2>2, <2>3, <2>4, <2>5, <2>6
<1>3. ASSUME NEW i \in 1..Len(v), NEW j \in 1..Len(v), v[i] = v[j]
      PROVE  i = j
  <2>1. \A k \in 1..n : w[k] \in Elems(w)
    BY DEF Elems
  <2>2. \A k \in 1..Len(b) : b[k] \in Elems(b) /\ b[k] \in Envelope
    BY DEF Elems
  <2>3. CASE i \in 1..n /\ v[i] = w[i] /\ j \in 1..n /\ v[j] = w[j]
    BY <1>3, <2>3 DEF InLogOrder
  <2>4. CASE i - n \in 1..Len(b) /\ v[i] = b[i - n] /\ j - n \in 1..Len(b) /\ v[j] = b[j - n]
    <3>1. PICK p \in 1..Len(b) : p = i - n /\ v[i] = b[p]
      BY <2>4
    <3>2. PICK q \in 1..Len(b) : q = j - n /\ v[j] = b[q]
      BY <2>4
    <3>3. b[p] = b[q] /\ b[p] \in Nat
      <4>1. b[p] = b[q]
        BY <1>3, <3>1, <3>2
      <4>2. b[p] \in Envelope
        OBVIOUS
      <4> QED
        BY <4>1, <4>2, RecorderAssumption DEF Envelope
    <3>4. ~(p < q) /\ ~(q < p)
      BY <3>3 DEF Increasing
    <3>5. p = q
      BY <3>4
    <3> QED
      BY <1>1, <3>1, <3>2, <3>5
  <2>5. ~(i \in 1..n /\ v[i] = w[i] /\ j - n \in 1..Len(b) /\ v[j] = b[j - n])
    BY <1>3, <2>1, <2>2
  <2>6. ~(j \in 1..n /\ v[j] = w[j] /\ i - n \in 1..Len(b) /\ v[i] = b[i - n])
    BY <1>3, <2>1, <2>2
  <2> QED
    BY <1>1, <2>3, <2>4, <2>5, <2>6
<1> QED
  BY <1>2, <1>3 DEF InLogOrder, v

LEMMA BeforeAppend ==
    ASSUME NEW T, NEW q \in Seq(T), NEW x, NEW e \in T, Before(x, q), e = Sentinel \/ x < e
    PROVE  Before(x, Append(q, e))
<1>1. /\ Len(Append(q, e)) = Len(q) + 1 /\ Len(q) \in Nat
      /\ \A i \in 1..Len(q) : Append(q, e)[i] = q[i]
      /\ Append(q, e)[Len(q) + 1] = e
  BY Appended
<1>2. \A i \in 1..(Len(q) + 1) : i = Len(q) + 1 \/ i \in 1..Len(q)
  BY <1>1
<1> QED
  BY <1>1, <1>2 DEF Before

LEMMA BeforeTail ==
    ASSUME NEW T, NEW q \in Seq(T), q # <<>>, NEW x, Before(x, q)
    PROVE  Before(x, Tail(q)) /\ (Head(q) # Sentinel => x < Head(q))
<1>1. /\ Len(Tail(q)) = Len(q) - 1 /\ Len(q) \in Nat /\ Len(q) >= 1 /\ Head(q) = q[1]
      /\ \A i \in 1..Len(Tail(q)) : i + 1 \in 1..Len(q) /\ Tail(q)[i] = q[i + 1]
  BY Taken
<1>2. 1 \in 1..Len(q)
  BY <1>1
<1> QED
  BY <1>1, <1>2 DEF Before

LEMMA IncreasingAppend ==
    ASSUME NEW T, NEW s \in Seq(T), NEW e \in T, Increasing(s), \A i \in 1..Len(s) : s[i] < e
    PROVE  Increasing(Append(s, e))
<1>1. /\ Len(Append(s, e)) = Len(s) + 1 /\ Len(s) \in Nat
      /\ \A i \in 1..Len(s) : Append(s, e)[i] = s[i]
      /\ Append(s, e)[Len(s) + 1] = e
  BY Appended
<1>2. ASSUME NEW i \in 1..(Len(s) + 1), NEW j \in 1..(Len(s) + 1), i < j
      PROVE  i \in 1..Len(s) /\ (j = Len(s) + 1 \/ j \in 1..Len(s))
  BY <1>1, <1>2
<1> QED
  BY <1>1, <1>2 DEF Increasing

\* What was waiting in the queue is rescued in its order.
LEMMA LeftoverOrder ==
    ASSUME TypeOK, QueueOK
    PROVE  /\ Increasing(Leftover)
           /\ \A x : Before(x, queue) => Before(x, Leftover)
<1>1. \A i \in 1..Len(Leftover) : /\ i \in 1..Len(queue)
                                  /\ Leftover[i] = queue[i] /\ queue[i] # Sentinel
  BY LeftoverFacts
<1>2. Increasing(Leftover)
  BY <1>1 DEF Increasing, QueueOK
<1> QED
  BY <1>1, <1>2 DEF Before

\* Nothing comes before itself.
LEMMA BeforeOthers ==
    ASSUME NEW x \in Envelope, NEW t \in Seq(Envelope), Before(x, t)
    PROVE  x \notin Elems(t)
<1>1. \A j \in 1..Len(t) : t[j] \in Envelope /\ t[j] # Sentinel
  BY RecorderAssumption DEF Sentinel, Envelope
<1> QED
  BY <1>1, RecorderAssumption DEF Before, Elems, Envelope

LEMMA OrderStep ==
    ASSUME TypeOK, QueueOK, DrainOK, OrderOK, CapturedOK, Next
    PROVE  OrderOK'
<1> DEFINE all == Envelope \cup {Sentinel}
<1>0. /\ queue \in Seq(all) /\ batch \in Seq(Envelope) /\ written \in Seq(Envelope)
      /\ stray \in Seq(Envelope) /\ captured \in Nat
      /\ \A i \in 1..Len(written) : written[i] \in Envelope
      /\ \A i \in 1..Len(batch) : batch[i] \in Envelope
  BY RecorderAssumption DEF TypeOK
<1>1. InLogOrder(written, late)
  BY DEF OrderOK, LogInOrder, InLogOrder
<1>2. /\ \A i \in 1..Len(written) : written[i] \in Elems(written) /\ written[i] <= captured
      /\ \A i \in 1..Len(batch) : batch[i] \in Elems(batch) /\ batch[i] <= captured
  <2>1. /\ \A i \in 1..Len(written) : written[i] \in Elems(written)
        /\ \A i \in 1..Len(batch) : batch[i] \in Elems(batch)
    BY DEF Elems
  <2> QED
    BY <1>0, <2>1 DEF CapturedOK
\* The batch in hand is not in the log yet.
<1>3. Elems(written) \cap Elems(batch) = {}
  <2> SUFFICES ASSUME NEW i \in 1..Len(written), written[i] \in Elems(batch)
               PROVE  FALSE
    BY DEF Elems
  <2>1. written[i] \notin late
    BY DEF OrderOK
  <2>2. Before(written[i], batch)
    BY <2>1 DEF OrderOK
  <2> QED
    BY <1>0, <2>2, BeforeOthers
\* Written, it keeps the log in order.
<1>4. InLogOrder(written \o batch, late)
  <2>1. Increasing(batch)
    BY DEF OrderOK
  <2>2. \A j \in 1..Len(batch) : batch[j] # Sentinel
    BY <1>0, SentinelOutside
  <2>3. \A i \in 1..Len(written), j \in 1..Len(batch) :
            written[i] \notin late /\ batch[j] \notin late => written[i] < batch[j]
    BY <2>2 DEF OrderOK, Before
  <2> QED
    BY <1>0, <1>1, <1>3, <2>1, <2>3, LogGrows
\* So it is for whatever the log then consists of.
<1>5. \A i \in 1..Len(written \o batch) : (written \o batch)[i] \notin late =>
          Before((written \o batch)[i], queue)
  <2> SUFFICES ASSUME NEW i \in 1..Len(written \o batch), (written \o batch)[i] \notin late
               PROVE  Before((written \o batch)[i], queue)
    OBVIOUS
  <2>1. CASE i \in 1..Len(written) /\ (written \o batch)[i] = written[i]
    BY <2>1 DEF OrderOK
  <2>2. CASE i - Len(written) \in 1..Len(batch) /\ (written \o batch)[i] = batch[i - Len(written)]
    BY <2>2 DEF OrderOK
  <2> QED
    BY <1>0, <2>1, <2>2, Joined
<1>6. Elems(written \o batch) = Elems(written) \cup Elems(batch)
  BY <1>0, Joined
<1>7. \A x : Before(x, <<>>)
  BY DEF Before
<1>8. Increasing(<<>>)
  BY DEF Increasing
<1>9. CASE Capture
  <2>1. /\ UNCHANGED <<batch, written, stray, late, stop>>
        /\ queue' = queue \/ queue' = Append(queue, captured + 1)
    BY <1>9 DEF Capture, Enqueue, logVars
  <2>2. Patient /\ Patient' /\ late = {} /\ stray = <<>> /\ captured + 1 \in all
    BY <1>0, <1>9, RecorderAssumption DEF Capture, Patient, OrderOK, Envelope
  <2>3. \A x \in Envelope : x <= captured /\ Before(x, queue) => Before(x, queue')
    <3> SUFFICES ASSUME NEW x \in Envelope, x <= captured, Before(x, queue)
                 PROVE  Before(x, queue')
      OBVIOUS
    <3>1. x < captured + 1
      BY <1>0, RecorderAssumption DEF Envelope
    <3>2. Before(x, Append(queue, captured + 1))
      BY <1>0, <2>2, <3>1, BeforeAppend
    <3> QED
      BY <2>1, <3>2
  <2>4. \A i \in 1..Len(batch) : Before(batch[i], queue')
    BY <1>0, <1>2, <2>3 DEF OrderOK
  <2>5. \A i \in 1..Len(written) : written[i] \notin late =>
            Before(written[i], batch) /\ Before(written[i], queue')
    BY <1>0, <1>2, <2>3 DEF OrderOK
  <2> QED
    BY <2>1, <2>2, <2>4, <2>5 DEF OrderOK, LogInOrder
<1>10. CASE FetchFirst \/ FetchMore
  <2>1. /\ UNCHANGED <<written, stray, late, stop>>
        /\ queue # <<>> /\ queue' = Tail(queue)
        /\ IF Head(queue) = Sentinel THEN batch' = batch
           ELSE batch' = <<Head(queue)>> \/ batch' = Append(batch, Head(queue))
    BY <1>10 DEF FetchFirst, FetchMore, logVars
  <2> DEFINE h == Head(queue)
  <2>2. Patient /\ Patient' /\ late = {} /\ stray = <<>>
    BY <2>1 DEF Patient, OrderOK, QueueOK
  <2>3. /\ h = queue[1] /\ Len(queue) \in Nat /\ Len(queue) >= 1
        /\ \A i \in 1..Len(Tail(queue)) : i + 1 \in 1..Len(queue) /\ Tail(queue)[i] = queue[i + 1]
    BY <1>0, <2>1, Taken
  <2>4. \A x : Before(x, queue) => Before(x, queue') /\ (h # Sentinel => x < h)
    BY <1>0, <2>1, BeforeTail
  <2>5. Before(h, queue')
    <3> SUFFICES ASSUME NEW j \in 1..Len(Tail(queue)), Tail(queue)[j] # Sentinel
                 PROVE  h < Tail(queue)[j]
      BY <2>1 DEF Before
    <3>1. PICK k \in 1..Len(queue) : k = j + 1 /\ Tail(queue)[j] = queue[k]
      BY <2>3
    <3>2. 1 \in 1..Len(queue) /\ 1 < k
      BY <2>3, <3>1
    <3> QED
      BY <2>3, <3>1, <3>2 DEF QueueOK
  <2>6. CASE h = Sentinel
    <3>1. batch' = batch
      BY <2>1, <2>6
    <3> QED
      BY <2>1, <2>2, <2>4, <3>1 DEF OrderOK, LogInOrder
  <2>7. CASE h # Sentinel
    <3>1. h \in Envelope
      BY <1>0, <2>1, <2>7
    <3>2. Increasing(<<h>>) /\ \A i \in 1..Len(<<h>>) : <<h>>[i] = h
      BY DEF Increasing
    <3>3. \A i \in 1..Len(batch) : batch[i] < h
      BY <2>4, <2>7 DEF OrderOK
    <3>4. Increasing(Append(batch, h))
      BY <1>0, <3>1, <3>3, IncreasingAppend DEF OrderOK
    <3>5. Increasing(batch')
      BY <2>1, <2>7, <3>2, <3>4
    <3>6. \A i \in 1..Len(batch') : Before(batch'[i], queue')
      <4>1. \A i \in 1..Len(Append(batch, h)) : Before(Append(batch, h)[i], queue')
        <5>1. /\ Len(Append(batch, h)) = Len(batch) + 1 /\ Len(batch) \in Nat
              /\ \A i \in 1..Len(batch) : Append(batch, h)[i] = batch[i]
              /\ Append(batch, h)[Len(batch) + 1] = h
          BY <1>0, <3>1, Appended
        <5>2. \A i \in 1..(Len(batch) + 1) : i = Len(batch) + 1 \/ i \in 1..Len(batch)
          BY <5>1
        <5>3. \A i \in 1..Len(batch) : Before(batch[i], queue')
          BY <2>4 DEF OrderOK
        <5> QED
          BY <2>5, <5>1, <5>2, <5>3
      <4> QED
        BY <2>1, <2>5, <2>7, <3>2, <4>1
    <3>7. \A i \in 1..Len(written) : Before(written[i], batch') /\ Before(written[i], queue')
      <4> SUFFICES ASSUME NEW i \in 1..Len(written)
                   PROVE  Before(written[i], batch') /\ Before(written[i], queue')
        OBVIOUS
      <4>1. Before(written[i], batch) /\ Before(written[i], queue)
        BY <2>2 DEF OrderOK
      <4>2. written[i] < h
        BY <2>4, <2>7, <4>1
      <4>3. Before(written[i], <<h>>)
        BY <3>2, <4>2 DEF Before
      <4>4. Before(written[i], Append(batch, h))
        BY <1>0, <3>1, <4>1, <4>2, BeforeAppend
      <4> QED
        BY <2>1, <2>4, <2>7, <4>1, <4>3, <4>4
    <3> QED
      BY <2>1, <2>2, <3>5, <3>6, <3>7 DEF OrderOK, LogInOrder
  <2> QED
    BY <2>6, <2>7
<1>11. CASE Flushed
  <2>1. /\ UNCHANGED <<queue, stray, late, stop>> /\ batch' = <<>>
        /\ written' = written \/ written' = written \o batch
    BY <1>11 DEF Flushed, Stored
  <2>2. LogInOrder'
    BY <1>1, <1>4, <2>1 DEF LogInOrder, InLogOrder
  <2>3. \A i \in 1..Len(written') : written'[i] \notin late' => Before(written'[i], queue')
    BY <1>5, <2>1 DEF OrderOK
  <2>4. Elems(batch') = {}
    BY <2>1, NoElems
  <2>5. stray # <<>> => late \cap Elems(written') = {}
    BY <1>6, <2>1 DEF OrderOK
  <2>6. \A i \in 1..Len(batch') : FALSE
    BY <2>1
  <2> QED
    BY <1>7, <1>8, <2>1, <2>2, <2>3, <2>4, <2>5, <2>6 DEF OrderOK, Patient
<1>12. CASE Stop
  <2>1. /\ UNCHANGED <<batch, written, stray, late>> /\ stop = "no"
        /\ queue' = queue \/ queue' = Append(queue, Sentinel)
    BY <1>12 DEF Stop, logVars
  <2>2. Patient /\ late = {} /\ stray = <<>>
    BY <2>1 DEF Patient, OrderOK
  <2>3. \A x : Before(x, queue) => Before(x, queue')
    <3>1. \A x : Before(x, queue) => Before(x, Append(queue, Sentinel))
      BY <1>0, BeforeAppend
    <3> QED
      BY <2>1, <3>1
  <2> QED
    BY <2>1, <2>2, <2>3 DEF OrderOK, LogInOrder
<1>13. CASE Overrun
  <2>1. queue' = <<>> /\ batch' = Leftover /\ ~Patient' /\ Patient
    BY <1>13 DEF Overrun, Patient
  <2>2. late = {} /\ stray = <<>>
    BY <2>1 DEF OrderOK
  <2>3. /\ Leftover \in Seq(Envelope) /\ Increasing(Leftover)
        /\ \A x : Before(x, queue) => Before(x, Leftover)
    BY LeftoverFacts, LeftoverOrder
  <2>4. \/ UNCHANGED <<written, stray, late>>
        \/ written' = written \o batch /\ UNCHANGED <<stray, late>>
        \/ stray' = batch /\ late' = Elems(batch) /\ written' = written
    BY <1>13 DEF Overrun, Interrupted
  <2>5. Elems(batch) \cap Elems(Leftover) = {}
    <3> SUFFICES ASSUME NEW i \in 1..Len(batch), batch[i] \in Elems(Leftover)
                 PROVE  FALSE
      BY DEF Elems
    <3>1. Before(batch[i], Leftover)
      BY <2>3 DEF OrderOK
    <3> QED
      BY <1>0, <2>3, <3>1, BeforeOthers
  <2>6. LogInOrder'
    <3>1. CASE late' = {}
      BY <1>1, <1>4, <2>2, <2>4, <3>1 DEF LogInOrder, InLogOrder
    <3>2. CASE written' = written
      BY <1>1, <2>2, <3>2 DEF LogInOrder, InLogOrder
    <3> QED
      BY <2>2, <2>4, <3>1, <3>2
  <2>7. \A i \in 1..Len(written') : Before(written'[i], batch') /\ Before(written'[i], queue')
    <3>1. \A i \in 1..Len(written') : Before(written'[i], queue)
      BY <1>5, <2>2, <2>4 DEF OrderOK
    <3> QED
      BY <1>7, <2>1, <2>3, <3>1
  <2>8. late' \cap (Elems(batch') \cup Elems(queue')) = {}
    BY <2>1, <2>2, <2>4, <2>5, NoElems
  <2>9. stray' # <<>> => Elems(stray') = late' /\ late' # {} /\ late' \cap Elems(written') = {}
    <3>1. batch # <<>> => Elems(batch) # {}
      <4>1. batch # <<>> => 1 \in 1..Len(batch)
        BY <1>0
      <4> QED
        BY <4>1 DEF Elems
    <3> QED
      BY <1>3, <2>2, <2>4, <3>1
  <2>10. Increasing(batch') /\ Increasing(stray')
    BY <2>1, <2>3, <2>4 DEF OrderOK
  <2>11. \A i \in 1..Len(batch') : Before(batch'[i], queue')
    BY <1>7, <2>1
  <2> QED
    BY <2>1, <2>6, <2>7, <2>8, <2>9, <2>10, <2>11 DEF OrderOK
<1>14. CASE StrayLands
  <2>1. UNCHANGED <<queue, batch, late, stop>> /\ stray # <<>> /\ stray' = <<>>
        /\ written' = written \o stray
    BY <1>14 DEF StrayLands
  <2>2. Elems(stray) = late /\ late \cap Elems(written) = {} /\ Increasing(stray)
    BY <2>1 DEF OrderOK
  <2>3. \A j \in 1..Len(stray) : stray[j] \in late
    BY <2>2 DEF Elems
  <2>4. InLogOrder(written \o stray, late)
    BY <1>0, <1>1, <2>2, <2>3, LogGrows
  <2>5. \A i \in 1..Len(written \o stray) : (written \o stray)[i] \notin late =>
            Before((written \o stray)[i], batch) /\ Before((written \o stray)[i], queue)
    <3> SUFFICES ASSUME NEW i \in 1..Len(written \o stray), (written \o stray)[i] \notin late
                 PROVE  /\ Before((written \o stray)[i], batch)
                        /\ Before((written \o stray)[i], queue)
      OBVIOUS
    <3>1. i \in 1..Len(written) /\ (written \o stray)[i] = written[i]
      BY <1>0, <2>3, Joined
    <3> QED
      BY <3>1 DEF OrderOK
  <2>6. ~Patient'
    BY <2>1 DEF OrderOK, Patient
  <2>7. LogInOrder'
    BY <2>1, <2>4 DEF LogInOrder, InLogOrder
  <2> QED
    BY <1>8, <2>1, <2>5, <2>6, <2>7 DEF OrderOK
<1>15. CASE Navigate \/ BatchTimeout \/ StopReturns \/ Finalize
  <2>1. UNCHANGED <<queue, batch, written, stray, late>> /\ (Patient' => Patient)
    BY <1>15 DEF Navigate, BatchTimeout, StopReturns, Finalize, logVars, Patient
  <2> QED
    BY <2>1 DEF OrderOK, LogInOrder
<1> QED
  BY <1>9, <1>10, <1>11, <1>12, <1>13, <1>14, <1>15 DEF Next, DrainStep

-----------------------------------------------------------------------------
(* What is missing from the log. *)

\* A part of what is missing is no larger.
LEMMA SmallerLoss ==
    ASSUME TypeOK, NEW S \in SUBSET Missing, NEW R \in SUBSET S
    PROVE  /\ Cardinality(S) \in Nat /\ Cardinality(R) \in Nat
           /\ Cardinality(R) <= Cardinality(S)
<1>1. IsFiniteSet(1..captured)
  BY FS_Interval, RecorderAssumption DEF TypeOK
<1>2. IsFiniteSet(S)
  <2>1. S \subseteq 1..captured
    BY DEF Missing
  <2> QED
    BY <1>1, <2>1, FS_Subset
<1>3. IsFiniteSet(R) /\ Cardinality(R) <= Cardinality(S)
  BY <1>2, FS_Subset
<1> QED
  BY <1>2, <1>3, FS_CardinalityType

\* After a cancellation less and less is missing.
LEMMA LossShrinks ==
    ASSUME TypeOK, LossOK, ~Patient, ~Patient',
           Missing' \ Elems(batch') \subseteq Missing \ Elems(batch)
    PROVE  LossOK'
<1> DEFINE S == Missing \ Elems(batch)
           R == Missing' \ Elems(batch')
<1>1. Cardinality(S) \in Nat /\ Cardinality(R) \in Nat /\ Cardinality(R) <= Cardinality(S)
  BY SmallerLoss
<1>2. Cardinality(S) <= BatchSize
  BY DEF LossOK
<1>3. Cardinality(R) <= BatchSize
  BY <1>1, <1>2, RecorderAssumption
<1> QED
  BY <1>3 DEF LossOK

LEMMA LossStep ==
    ASSUME TypeOK, QueueOK, DrainOK, LossOK, Next
    PROVE  LossOK'
<1> DEFINE all == Envelope \cup {Sentinel}
<1>0. /\ queue \in Seq(all) /\ batch \in Seq(Envelope) /\ written \in Seq(Envelope)
      /\ stray \in Seq(Envelope) /\ captured \in Nat
  BY RecorderAssumption DEF TypeOK
<1>1. Sentinel \notin Missing
  BY <1>0 DEF Missing, Sentinel
<1>2. Elems(written \o batch) = Elems(written) \cup Elems(batch)
  BY <1>0, Joined
<1>3. CASE Capture
  <2>1. /\ captured' = captured + 1
        /\ UNCHANGED <<batch, written, unwritten, stop>> /\ stop = "no"
        /\ \/ queue' = Append(queue, captured + 1) /\ dropped' = dropped
           \/ dropped' = dropped \cup {captured + 1} /\ queue' = queue
    BY <1>3 DEF Capture, Enqueue, logVars
  <2>2. Patient /\ Patient'
    BY <2>1 DEF Patient
  <2>3. Elems(Append(queue, captured + 1)) = Elems(queue) \cup {captured + 1}
    <3>1. PICK x \in all : x = captured + 1
      BY <1>0, <1>3, RecorderAssumption DEF Capture, Envelope
    <3>2. Elems(Append(queue, x)) = Elems(queue) \cup {x}
      <4> HIDE DEF all
      <4> QED
        BY <1>0, Appended
    <3> QED
      BY <3>1, <3>2
  <2>4. 1..(captured + 1) = 1..captured \cup {captured + 1}
    BY <1>0
  <2>5. /\ Missing = 1..captured \ (Elems(written) \cup unwritten \cup dropped)
        /\ Missing' = 1..(captured + 1) \ (Elems(written) \cup unwritten \cup dropped')
    BY <2>1 DEF Missing
  <2>6. Missing \subseteq Elems(batch) \cup Elems(queue)
    BY <2>2 DEF LossOK
  <2>7. Missing' \subseteq Elems(batch) \cup Elems(queue')
    BY <2>1, <2>3, <2>4, <2>5, <2>6
  <2> QED
    BY <2>1, <2>2, <2>7 DEF LossOK
<1>4. CASE FetchFirst \/ FetchMore
  <2>1. /\ UNCHANGED <<captured, written, unwritten, dropped, stop>>
        /\ queue # <<>> /\ queue' = Tail(queue)
    BY <1>4 DEF FetchFirst, FetchMore, recVars, logVars
  <2>2. Patient /\ Patient' /\ Missing' = Missing
    BY <2>1 DEF Patient, QueueOK, Missing
  <2>3. Elems(queue) = {Head(queue)} \cup Elems(queue') /\ Head(queue) \in all
    BY <1>0, <2>1, Taken
  <2>4. Elems(batch) \subseteq Elems(batch') /\ (Head(queue) # Sentinel => Head(queue) \in Elems(batch'))
    <3>1. CASE Head(queue) = Sentinel
      BY <1>4, <3>1 DEF FetchFirst, FetchMore
    <3>2. CASE FetchFirst /\ Head(queue) # Sentinel
      <4>1. batch = <<>> /\ batch' = <<Head(queue)>>
        BY <3>2 DEF FetchFirst, DrainOK
      <4>2. Elems(<<Head(queue)>>) = {Head(queue)}
        BY DEF Elems
      <4> QED
        BY <4>1, <4>2, NoElems
    <3>3. CASE FetchMore /\ Head(queue) # Sentinel
      <4>1. batch' = Append(batch, Head(queue)) /\ Head(queue) \in Envelope
        BY <2>3, <3>3 DEF FetchMore
      <4> QED
        BY <1>0, <4>1, Appended
    <3> QED
      BY <1>4, <3>1, <3>2, <3>3
  <2>5. Missing \subseteq Elems(batch) \cup Elems(queue)
    BY <2>2 DEF LossOK
  <2>6. Missing' \subseteq Elems(batch') \cup Elems(queue')
    BY <1>1, <2>2, <2>3, <2>4, <2>5
  <2> QED
    BY <2>2, <2>6 DEF LossOK
<1>5. CASE Flushed
  <2>1. /\ UNCHANGED <<captured, dropped, queue, stop>> /\ batch' = <<>>
        /\ \/ written' = written \o batch /\ unwritten' = unwritten
           \/ unwritten' = unwritten \cup Elems(batch) /\ written' = written
    BY <1>5 DEF Flushed, Stored, recVars
  <2>2. Missing' = Missing \ Elems(batch)
    BY <1>2, <2>1 DEF Missing
  <2>3. CASE Patient
    <3>1. Patient' /\ Missing \subseteq Elems(batch) \cup Elems(queue)
      BY <2>1, <2>3 DEF Patient, LossOK
    <3> QED
      BY <2>1, <2>2, <3>1 DEF LossOK
  <2>4. CASE ~Patient
    <3>1. ~Patient'
      BY <2>1, <2>4 DEF Patient
    <3> QED
      BY <2>2, <2>4, <3>1, LossShrinks
  <2> QED
    BY <2>3, <2>4
<1>6. CASE Stop
  <2>1. /\ UNCHANGED <<captured, dropped, written, unwritten, batch>>
        /\ stop = "no" /\ stop' = "waiting"
        /\ queue' = queue \/ queue' = Append(queue, Sentinel)
    BY <1>6 DEF Stop, recVars, logVars
  <2>2. Elems(Append(queue, Sentinel)) = Elems(queue) \cup {Sentinel}
    BY <1>0, Appended
  <2>3. Patient /\ Patient' /\ Missing' = Missing
    BY <2>1 DEF Patient, Missing
  <2> QED
    BY <2>1, <2>2, <2>3 DEF LossOK
<1>7. CASE Overrun
  <2>1. /\ UNCHANGED <<captured, dropped, unwritten>> /\ Patient /\ ~Patient'
        /\ batch' = Leftover
        /\ written' = written \/ written' = written \o batch
    BY <1>7 DEF Overrun, Interrupted, recVars, Patient
  <2>2. Missing' \subseteq Missing
    BY <1>2, <2>1 DEF Missing
  <2>3. Missing \subseteq Elems(batch) \cup Elems(queue)
    BY <2>1 DEF LossOK
  <2>4. Elems(batch') = Elems(queue) \ {Sentinel}
    BY <2>1, LeftoverFacts
  <2>5. Missing' \ Elems(batch') \subseteq Elems(batch)
    BY <1>1, <2>2, <2>3, <2>4
  <2>6. IsFiniteSet(Elems(batch)) /\ Cardinality(Elems(batch)) <= Len(batch)
    BY <1>0, ElemsCounted
  <2>7. Cardinality(Missing' \ Elems(batch')) <= Cardinality(Elems(batch))
    BY <2>5, <2>6, FS_Subset
  <2>8. /\ Cardinality(Elems(batch)) \in Nat /\ Cardinality(Missing' \ Elems(batch')) \in Nat
        /\ Len(batch) \in Nat
    BY <1>0, <2>5, <2>6, FS_Subset, FS_CardinalityType
  <2>9. Len(batch) <= BatchSize
    BY <2>1 DEF DrainOK
  <2>10. Cardinality(Missing' \ Elems(batch')) <= BatchSize
    BY <2>6, <2>7, <2>8, <2>9, RecorderAssumption
  <2> QED
    BY <2>1, <2>10 DEF LossOK
<1>8. CASE StopReturns
  <2>1. /\ UNCHANGED <<captured, dropped, written, unwritten, batch>>
        /\ drain = "ended" /\ ~Patient'
    BY <1>8 DEF StopReturns, recVars, logVars, Patient
  <2>2. batch = <<>> /\ queue = <<>> /\ Missing' = Missing
    BY <2>1 DEF DrainOK, QueueOK, Missing
  <2>3. CASE Patient
    <3>1. Missing' \ Elems(batch') = {}
      BY <2>2, <2>3, NoElems DEF LossOK
    <3>2. Cardinality(Missing' \ Elems(batch')) = 0
      BY <3>1, FS_EmptySet
    <3> QED
      BY <2>1, <3>2, RecorderAssumption DEF LossOK
  <2>4. CASE ~Patient
    BY <2>1, <2>2, <2>4, LossShrinks
  <2> QED
    BY <2>3, <2>4
<1>9. CASE StrayLands
  <2>1. UNCHANGED <<captured, dropped, unwritten, batch, queue, stop>> /\ written' = written \o stray
    BY <1>9 DEF StrayLands, recVars
  <2>2. Elems(written \o stray) = Elems(written) \cup Elems(stray)
    BY <1>0, Joined
  <2>3. Missing' \subseteq Missing /\ Patient' = Patient
    BY <2>1, <2>2 DEF Missing, Patient
  <2>4. CASE Patient
    BY <2>1, <2>3, <2>4 DEF LossOK
  <2>5. CASE ~Patient
    BY <2>1, <2>3, <2>5, LossShrinks
  <2> QED
    BY <2>4, <2>5
<1>10. CASE Navigate \/ BatchTimeout \/ Finalize
  <2>1. UNCHANGED <<captured, dropped, written, unwritten, batch, queue, stop>>
    BY <1>10 DEF Navigate, BatchTimeout, Finalize, recVars, logVars
  <2> QED
    BY <2>1 DEF LossOK, Missing, Patient
<1> QED
  BY <1>3, <1>4, <1>5, <1>6, <1>7, <1>8, <1>9, <1>10 DEF Next, DrainStep

-----------------------------------------------------------------------------
(* The invariant, and what follows from it. *)

LEMMA RecorderInvInit == ASSUME Init PROVE RecorderInv
<1> USE RecorderAssumption
<1>1. TypeOK
  <2>1. /\ captured \in 0..MaxCaptures /\ navs \in 0..MaxNavs
        /\ sequence \in 0..(MaxCaptures + MaxNavs) /\ rows \in 0..2 /\ size \in Nat
    BY DEF Init
  <2>2. \A S : <<>> \in Seq(S) /\ Len(<<>>) = 0
    OBVIOUS
  <2>3. Len(queue) <= QueueSize
    BY <2>2 DEF Init
  <2>4. drain \in Drain /\ known \in BOOLEAN /\ stop \in {"no", "waiting", "overrun", "done"}
    BY DEF Init, Drain
  <2> QED
    BY <2>1, <2>2, <2>3, <2>4 DEF Init, TypeOK
<1>2. QueueOK
  BY DEF Init, QueueOK, Patient
<1>3. DrainOK
  BY DEF Init, DrainOK, Patient
<1>4. OrderOK
  BY NoElems DEF Init, OrderOK, LogInOrder, Increasing, Before, Patient
<1>5. CapturedOK
  BY NoElems DEF Init, CapturedOK
<1>6. LossOK
  BY DEF Init, LossOK, Patient, Missing
<1>7. RowsOK
  BY DEF Init, RowsOK, Patient
<1> QED
  BY <1>1, <1>2, <1>3, <1>4, <1>5, <1>6, <1>7 DEF RecorderInv

LEMMA RecorderInvStep == ASSUME RecorderInv, [Next]_vars PROVE RecorderInv'
<1>1. CASE Next
  BY <1>1, TypeStep, QueueStep, DrainOKStep, OrderStep, CapturedStep, LossStep, RowsStep
     DEF RecorderInv
<1>2. CASE UNCHANGED vars
  <2> USE <1>2 DEF vars
  <2>1. TypeOK'
    BY DEF RecorderInv, TypeOK
  <2>2. QueueOK' /\ DrainOK'
    BY DEF RecorderInv, QueueOK, DrainOK, Patient
  <2>3. OrderOK'
    BY DEF RecorderInv, OrderOK, LogInOrder, Patient
  <2>4. CapturedOK' /\ RowsOK'
    BY DEF RecorderInv, CapturedOK, RowsOK, Patient
  <2>5. LossOK'
    BY DEF RecorderInv, LossOK, Missing, Patient
  <2> QED
    BY <2>1, <2>2, <2>3, <2>4, <2>5 DEF RecorderInv
<1> QED
  BY <1>1, <1>2

\* The queue, the drain task, the log and its row stay in the invariant.
THEOREM RecorderInvariant == Spec => []RecorderInv
BY RecorderInvInit, RecorderInvStep, PTL DEF Spec

\* The event log neither repeats nor reorders what was captured, save for one
\* batch whose close() was abandoned (browser/recorder.py:288-346).
THEOREM LogKeepsOrder == Spec => []LogInOrder
<1>1. RecorderInv => LogInOrder
  BY DEF RecorderInv, OrderOK
<1> QED
  BY <1>1, RecorderInvariant, PTL

\* Nothing is lost when the sentinel ends the drain task, and at most one batch
\* when it is cancelled (browser/recorder.py:142-165).
THEOREM LossIsBounded == Spec => []LossBounded
<1>1. RecorderInv => LossBounded
  <2> SUFFICES ASSUME RecorderInv PROVE LossBounded
    OBVIOUS
  <2> USE DEF RecorderInv
  <2>1. ASSUME stop = "waiting", drain = "ended"
        PROVE  Missing = {}
    <3>1. Patient /\ batch = <<>> /\ queue = <<>>
      BY <2>1 DEF Patient, DrainOK, QueueOK
    <3> QED
      BY <3>1, NoElems DEF LossOK
  <2>2. ASSUME stop = "done"
        PROVE  Cardinality(Missing) <= BatchSize
    <3>1. ~Patient /\ batch = <<>>
      BY <2>2 DEF Patient, DrainOK
    <3>2. Missing \ Elems(batch) = Missing
      BY <3>1, NoElems
    <3> QED
      BY <3>1, <3>2 DEF LossOK
  <2> QED
    BY <2>1, <2>2 DEF LossBounded
<1> QED
  BY <1>1, RecorderInvariant, PTL

\* The pointer row comes after the file and gets the size of the whole log
\* (medallion/bronze.py:45-101).
THEOREM LogIsRegistered == Spec => []LogRegistered
<1>1. RecorderInv => LogRegistered
  BY DEF RecorderInv, RowsOK, LogRegistered
<1> QED
  BY <1>1, RecorderInvariant, PTL

\* When stop() has returned, nothing is captured and only an abandoned close()
\* can still write (browser/recorder.py:157-165).
THEOREM StoppedIsFrozen == Spec => FrozenAfterStop
<1>1. RecorderInv /\ [Next]_vars =>
        [stop = "done" => /\ UNCHANGED <<actions, sequence>>
                          /\ written' \in {written, written \o stray}]_vars
  <2> SUFFICES ASSUME RecorderInv, Next, stop = "done"
               PROVE  /\ UNCHANGED <<actions, sequence>>
                      /\ written' \in {written, written \o stray}
    BY DEF vars
  <2>1. drain = "ended"
    BY DEF RecorderInv, DrainOK
  <2>2. StrayLands \/ Finalize
    BY <2>1 DEF Next, DrainStep, Capture, Navigate, FetchFirst, FetchMore, BatchTimeout,
                Flushed, Stop, Overrun, StopReturns
  <2> QED
    BY <2>2 DEF StrayLands, Finalize, recVars
<1> QED
  BY <1>1, RecorderInvariant, PTL DEF Spec, FrozenAfterStop

-----------------------------------------------------------------------------
(* Ingest.  Whether a row is there depends on failures that the writer has     *)
(* swallowed.  RegisteredOK says that the database session has kept track of   *)
(* them: if it can still be used, a log with lines is registered.  FlushedOK   *)
(* takes that from the flush of finalize() to its commit, and CommitsOnce says *)
(* that there is no second one.                                                *)

\* What the steps write to the rows of a session.
LEMMA RowsWritten ==
    ASSUME NEW rw, Shaped(rw), NEW p, NEW r
    PROVE  /\ [rw EXCEPT !.pointer = p] = [pointer |-> p, recording |-> rw.recording]
           /\ [rw EXCEPT !.recording = r] = [pointer |-> rw.pointer, recording |-> r]
           /\ SizeRefreshed(rw, p) =
                 [pointer |-> [there |-> rw.pointer.there,
                               size |-> IF rw.pointer.there THEN p ELSE rw.pointer.size],
                  recording |-> rw.recording]
BY DEF Shaped, SizeRefreshed

\* The rows of the transaction after each step that writes to them.
LEMMA TxWritten ==
    ASSUME ShapeOK, NEW s \in Sessions
    PROVE  /\ Register(s) => tx' = [tx EXCEPT ![s] = [pointer |-> [there |-> TRUE, size |-> 0],
                                                     recording |-> tx[s].recording]]
           /\ Save(s) => tx' = [tx EXCEPT ![s] =
                    [pointer |-> tx[s].pointer,
                     recording |-> [there |-> TRUE, actions |-> ApplyClassifier(held[s])]]]
           /\ Refresh(s, TRUE) => tx' = [tx EXCEPT ![s] =
                    [pointer |-> [there |-> tx[s].pointer.there,
                                  size |-> IF tx[s].pointer.there THEN Len(log[s])
                                           ELSE tx[s].pointer.size],
                     recording |-> tx[s].recording]]
           /\ Refresh(s, FALSE) => tx' = tx
<1>1. Shaped(tx[s]) /\ DOMAIN tx = Sessions
  BY DEF ShapeOK
<1>2. ASSUME Register(s)
      PROVE  tx' = [tx EXCEPT ![s] = [pointer |-> [there |-> TRUE, size |-> 0],
                                     recording |-> tx[s].recording]]
  <2>1. tx' = [tx EXCEPT ![s] = [tx[s] EXCEPT !.pointer = [there |-> TRUE, size |-> 0]]]
    BY <1>2 DEF Register
  <2> QED
    BY <1>1, <2>1, RowsWritten
<1>3. ASSUME Save(s)
      PROVE  tx' = [tx EXCEPT ![s] =
                       [pointer |-> tx[s].pointer,
                        recording |-> [there |-> TRUE, actions |-> ApplyClassifier(held[s])]]]
  <2>1. tx' = [tx EXCEPT ![s] =
                  [tx[s] EXCEPT !.recording = [there |-> TRUE, actions |-> ApplyClassifier(held[s])]]]
    BY <1>3 DEF Save
  <2> QED
    BY <1>1, <2>1, RowsWritten
<1>4. ASSUME Refresh(s, TRUE)
      PROVE  tx' = [tx EXCEPT ![s] =
                       [pointer |-> [there |-> tx[s].pointer.there,
                                     size |-> IF tx[s].pointer.there THEN Len(log[s])
                                              ELSE tx[s].pointer.size],
                        recording |-> tx[s].recording]]
  <2>1. tx' = [tx EXCEPT ![s] = SizeRefreshed(tx[s], Len(log[s]))]
    BY <1>4 DEF Refresh
  <2> QED
    BY <1>1, <2>1, RowsWritten
<1>5. Refresh(s, FALSE) => tx' = tx
  BY DEF Refresh
<1> QED
  BY <1>2, <1>3, <1>4, <1>5

\* Rows that are put together from their parts have the shape of rows.
LEMMA Reshaped ==
    ASSUME ShapeOK, NEW s \in Sessions, NEW there, NEW n, NEW r,
           tx' = [tx EXCEPT ![s] = [pointer |-> [there |-> there, size |-> n],
                                    recording |-> r]]
    PROVE  \A t \in Sessions : Shaped(tx'[t])
<1>1. Shaped([pointer |-> [there |-> there, size |-> n], recording |-> r])
  BY DEF Shaped
<1> QED
  BY <1>1 DEF ShapeOK

-----------------------------------------------------------------------------
\* Every step keeps the shapes.
LEMMA ShapeStep == ASSUME ShapeOK, [IngestNext]_ingestVars PROVE ShapeOK'
<1> USE IngestAssumption DEF ShapeOK, Steps, Go, dbvars
<1>1. ASSUME NEW s \in Sessions,
             \/ \E n \in 1..MaxBatch : \E events \in [1..n -> Events[s]] : ingest_events(s, events)
             \/ AppendLines(s) \/ AppendFails(s) \/ RegisterFails(s)
             \/ \E last \in BOOLEAN : finalize(s, last)
             \/ SaveFails(s) \/ Leave(s)
      PROVE  ShapeOK'
  <2>1. ASSUME NEW n \in 1..MaxBatch, NEW events \in [1..n -> Events[s]], ingest_events(s, events)
        PROVE  ShapeOK'
    BY <2>1 DEF ingest_events
  <2>2. CASE AppendLines(s)
    <3>1. PICK there : log' = [log EXCEPT ![s] = there]
      BY <2>2 DEF AppendLines
    <3>2. PICK step \in Steps : pc' = [pc EXCEPT ![s] = step]
      BY <2>2 DEF AppendLines
    <3>3. UNCHANGED <<dbvars, finalized, leaving, upto, failures>>
      BY <2>2 DEF AppendLines
    <3> QED
      BY <3>1, <3>2, <3>3
  <2>6. CASE AppendFails(s)
    BY <2>6 DEF AppendFails
  <2>3. CASE RegisterFails(s) \/ SaveFails(s)
    BY <2>3 DEF RegisterFails, SaveFails
  <2>4. ASSUME NEW last \in BOOLEAN, finalize(s, last) PROVE ShapeOK'
    BY <2>4 DEF finalize
  <2>5. CASE Leave(s)
    BY <2>5 DEF Leave
  <2> QED
    BY <1>1, <2>1, <2>2, <2>3, <2>4, <2>5, <2>6
<1>2. ASSUME NEW s \in Sessions, Register(s) PROVE ShapeOK'
  <2>1. \A t \in Sessions : Shaped(tx'[t])
    BY <1>2, TxWritten, Reshaped
  <2> QED
    BY <1>2, <2>1 DEF Register
<1>3. ASSUME NEW s \in Sessions, Save(s) PROVE ShapeOK'
  <2>1. tx[s].pointer = [there |-> tx[s].pointer.there, size |-> tx[s].pointer.size]
    BY DEF Shaped
  <2>2. \A t \in Sessions : Shaped(tx'[t])
    <3>1. PICK saved : saved = [there |-> TRUE, actions |-> ApplyClassifier(held[s])]
      OBVIOUS
    <3>2. tx' = [tx EXCEPT ![s] = [pointer |-> tx[s].pointer, recording |-> saved]]
      BY <1>3, <3>1, TxWritten
    <3>3. tx' = [tx EXCEPT ![s] = [pointer |-> [there |-> tx[s].pointer.there,
                                               size |-> tx[s].pointer.size],
                                   recording |-> saved]]
      BY <2>1, <3>2
    <3> QED
      BY <3>3, Reshaped
  <2> QED
    BY <1>3, <2>2 DEF Save
<1>4. ASSUME NEW s \in Sessions, NEW ok \in BOOLEAN, Refresh(s, ok) PROVE ShapeOK'
  <2>1. \A t \in Sessions : Shaped(tx'[t])
    <3>1. CASE ok = TRUE
      <4>1. PICK n : n = IF tx[s].pointer.there THEN Len(log[s]) ELSE tx[s].pointer.size
        OBVIOUS
      <4>2. tx' = [tx EXCEPT ![s] = [pointer |-> [there |-> tx[s].pointer.there, size |-> n],
                                     recording |-> tx[s].recording]]
        BY <1>4, <3>1, <4>1, TxWritten
      <4> QED
        BY <4>2, Reshaped
    <3>2. CASE ok = FALSE
      BY <1>4, <3>2, TxWritten
    <3> QED
      BY <3>1, <3>2
  <2> QED
    BY <1>4, <2>1 DEF Refresh
<1>5. Shaped(NoRows)
  BY DEF Shaped, NoRows, NoRow, NoRecording
<1>6. ASSUME NEW s \in Sessions, Commit(s) PROVE ShapeOK'
  <2>1. \A t \in Sessions : Shaped(tx'[t])
    BY <1>5, <1>6 DEF Commit
  <2> QED
    BY <1>6, <2>1 DEF Commit
<1>7. ASSUME NEW s \in Sessions, Close(s) \/ Crash(s) PROVE ShapeOK'
  <2>0. End(s)
    BY <1>7 DEF Close, Crash
  <2>1. tx' = [tx EXCEPT ![s] = NoRows] /\ DOMAIN tx' = Sessions
    BY <2>0 DEF End
  <2>2. \A t \in Sessions : Shaped(tx'[t])
    BY <1>5, <2>1
  <2>3. /\ pc' \in [Sessions -> Steps]
        /\ registered' \in [Sessions -> BOOLEAN]
        /\ dead' \in [Sessions -> BOOLEAN]
    BY <2>0 DEF End
  <2>4. /\ finalized' \in [Sessions -> BOOLEAN]
        /\ leaving' \in [Sessions -> BOOLEAN]
        /\ UNCHANGED <<log, db, upto, failures>>
    BY <2>0 DEF End
  <2> QED
    BY <2>1, <2>2, <2>3, <2>4
<1>8. CASE OtherWrites \/ UNCHANGED ingestVars
  BY <1>8 DEF OtherWrites, ingestVars
<1> QED
  BY <1>1, <1>2, <1>3, <1>4, <1>6, <1>7, <1>8 DEF IngestNext, SessionStep

-----------------------------------------------------------------------------
\* SavedTogether of one session.
Together(s) ==
    /\ db[s].pointer.there => Saved(s)
    /\ Saved(s) /\ upto[s].lines > 0 => db[s].pointer.there
    /\ Saved(s) /\ failures = 0 /\ upto[s].lines > 0 => db[s].pointer.size = upto[s].lines
    /\ pc[s] = "closed" => lock # s

SessionOK(s) == RegisteredOK(s) /\ FlushedOK(s) /\ CommitsOnce(s) /\ Together(s)

\* What SessionOK depends on, if it stays, but for failures and the lock.
LEMMA Untouched ==
    ASSUME NEW t \in Sessions, SessionOK(t),
           <<dead[t], pc[t], log[t], registered[t], finalized[t], tx[t], db[t], upto[t]>>' =
               <<dead[t], pc[t], log[t], registered[t], finalized[t], tx[t], db[t], upto[t]>>,
           failures' = 0 => failures = 0,
           lock' = t => lock = t
    PROVE  SessionOK(t)'
BY DEF SessionOK, RegisteredOK, FlushedOK, CommitsOnce, Together, Saved

\* A session does not touch another one.
LEMMA OthersStay ==
    ASSUME ShapeOK, NEW s \in Sessions, SessionStep(s), NEW t \in Sessions, t # s, SessionOK(t)
    PROVE  SessionOK(t)'
<1> USE DEF ShapeOK, Go, dbvars
<1> DEFINE Stays == /\ dead'[t] = dead[t] /\ pc'[t] = pc[t] /\ log'[t] = log[t]
                    /\ registered'[t] = registered[t] /\ finalized'[t] = finalized[t]
                    /\ tx'[t] = tx[t] /\ db'[t] = db[t] /\ upto'[t] = upto[t]
                    /\ failures' = 0 => failures = 0
                    /\ lock' \in {lock, s, NoSession}
<1>1. ASSUME \E n \in 1..MaxBatch : \E events \in [1..n -> Events[s]] : ingest_events(s, events) PROVE Stays
  BY <1>1 DEF ingest_events
<1>2. ASSUME AppendLines(s) PROVE Stays
  BY <1>2 DEF AppendLines
<1>3. ASSUME AppendFails(s) PROVE Stays
  BY <1>3 DEF AppendFails
<1>4. ASSUME Register(s) \/ RegisterFails(s) PROVE Stays
  BY <1>4 DEF Register, RegisterFails
<1>5. ASSUME \E last \in BOOLEAN : finalize(s, last) PROVE Stays
  BY <1>5 DEF finalize
<1>6. ASSUME Save(s) PROVE Stays
  BY <1>6 DEF Save
<1>7. ASSUME SaveFails(s) PROVE Stays
  BY <1>7 DEF SaveFails
<1>8. ASSUME \E ok \in BOOLEAN : Refresh(s, ok) PROVE Stays
  BY <1>8 DEF Refresh
<1>9. ASSUME Commit(s) PROVE Stays
  BY <1>9 DEF Commit
<1>10. ASSUME Close(s) \/ Crash(s) PROVE Stays
  BY <1>10 DEF Close, Crash, End
<1>11. ASSUME Leave(s) PROVE Stays
  BY <1>11 DEF Leave
<1>12. Stays
  BY <1>1, <1>2, <1>3, <1>4, <1>5, <1>6, <1>7, <1>8, <1>9, <1>10, <1>11 DEF SessionStep
<1> HIDE DEF ShapeOK, Go, dbvars
<1>13. <<dead[t], pc[t], log[t], registered[t], finalized[t], tx[t], db[t], upto[t]>>' =
          <<dead[t], pc[t], log[t], registered[t], finalized[t], tx[t], db[t], upto[t]>>
  BY <1>12
<1>14. (failures' = 0 => failures = 0) /\ (lock' = t => lock = t)
  BY <1>12, IngestAssumption
<1> HIDE DEF Stays
<1> QED
  BY <1>13, <1>14, Untouched

\* Every step of a session keeps its SessionOK.
LEMMA OwnStep ==
    ASSUME ShapeOK, NEW s \in Sessions, SessionStep(s), SessionOK(s)
    PROVE  SessionOK(s)'
<1> USE DEF SessionOK, RegisteredOK, FlushedOK, CommitsOnce, Together, Saved, Go, dbvars
<1>0. /\ pc \in [Sessions -> Steps] /\ registered \in [Sessions -> BOOLEAN]
      /\ dead \in [Sessions -> BOOLEAN] /\ finalized \in [Sessions -> BOOLEAN]
      /\ DOMAIN log = Sessions /\ DOMAIN tx = Sessions /\ DOMAIN db = Sessions
      /\ DOMAIN upto = Sessions /\ failures \in Nat
  BY DEF ShapeOK
<1>1. ASSUME NEW n \in 1..MaxBatch, NEW events \in [1..n -> Events[s]], ingest_events(s, events)
      PROVE  SessionOK(s)'
  BY <1>0, <1>1 DEF ingest_events
<1>2. CASE AppendLines(s)
  <2>1. /\ pc'[s] = IF registered[s] THEN "idle" ELSE "register"
        /\ UNCHANGED <<registered, dead, tx, db, lock, finalized, upto, failures>>
        /\ pc[s] = "append"
    BY <1>0, <1>2 DEF AppendLines
  <2> QED
    BY <2>1
<1>3. CASE AppendFails(s)
  BY <1>0, <1>3 DEF AppendFails
<1>4. CASE Register(s)
  <2>1. /\ tx'[s].pointer.there /\ registered'[s] /\ pc'[s] = "idle" /\ pc[s] = "register"
        /\ UNCHANGED <<log, dead, db, finalized, upto, failures>>
    BY <1>0, <1>4, TxWritten DEF Register
  <2> QED
    BY <2>1
<1>5. CASE RegisterFails(s)
  BY <1>0, <1>5 DEF RegisterFails
<1>6. ASSUME NEW last \in BOOLEAN, finalize(s, last) PROVE SessionOK(s)'
  BY <1>0, <1>6 DEF finalize
<1>7. CASE Save(s)
  <2>1. /\ tx'[s].pointer = tx[s].pointer /\ tx'[s].recording.there
        /\ upto'[s].lines = Len(log[s])
        /\ pc'[s] = "refresh" /\ pc[s] = "save" /\ ~dead[s]
        /\ UNCHANGED <<log, registered, dead, db, finalized, failures>>
    BY <1>0, <1>7, TxWritten DEF Save, CanFlush
  <2>2. ~finalized[s] /\ ~db[s].recording.there /\ ~db[s].pointer.there
    BY <2>1
  <2>3. Len(log[s]) > 0 => tx[s].pointer.there
    BY <2>1, <2>2
  <2> QED
    BY <2>1, <2>2, <2>3
<1>8. CASE SaveFails(s)
  BY <1>0, <1>8 DEF SaveFails
<1>9. ASSUME NEW ok \in BOOLEAN, Refresh(s, ok) PROVE SessionOK(s)'
  <2>1. /\ tx'[s].recording = tx[s].recording /\ tx'[s].pointer.there = tx[s].pointer.there
        /\ ok /\ tx[s].pointer.there => tx'[s].pointer.size = Len(log[s])
    <3>1. CASE ok = TRUE
      <4>1. PICK n : n = IF tx[s].pointer.there THEN Len(log[s]) ELSE tx[s].pointer.size
        OBVIOUS
      <4>2. PICK flushed : flushed = [pointer |-> [there |-> tx[s].pointer.there, size |-> n],
                                     recording |-> tx[s].recording]
        OBVIOUS
      <4>3. tx' = [tx EXCEPT ![s] = flushed]
        BY <1>9, <3>1, <4>1, <4>2, TxWritten
      <4>4. tx'[s] = flushed
        BY <1>0, <4>3
      <4> QED
        BY <4>1, <4>2, <4>4
    <3>2. CASE ok = FALSE
      BY <1>9, <3>2, TxWritten
    <3> QED
      BY <3>1, <3>2
  <2>2. /\ pc'[s] = "commit" /\ pc[s] = "refresh"
        /\ failures' = 0 => ok /\ failures = 0
        /\ UNCHANGED <<log, registered, dead, db, lock, finalized, upto>>
    BY <1>0, <1>9 DEF Refresh
  <2> QED
    BY <2>1, <2>2
<1>10. CASE Commit(s)
  <2>1. /\ db'[s] = tx[s] /\ finalized'[s] /\ pc[s] = "commit"
        /\ pc'[s] \in {"rollback", "idle"} /\ lock' = NoSession
        /\ UNCHANGED <<log, registered, dead, upto, failures>>
    BY <1>0, <1>10 DEF Commit
  <2> QED
    BY <2>1
<1>11. CASE Close(s) \/ Crash(s)
  <2>1. /\ pc'[s] = "closed" /\ ~registered'[s] /\ lock' # s
        /\ UNCHANGED <<log, db, upto, failures>>
    BY <1>0, <1>11, IngestAssumption DEF Close, Crash, End
  <2> QED
    BY <2>1
<1>12. CASE Leave(s)
  BY <1>0, <1>12 DEF Leave
<1> QED
  BY <1>1, <1>2, <1>3, <1>4, <1>5, <1>6, <1>7, <1>8, <1>9, <1>10, <1>11, <1>12 DEF SessionStep

\* The rows of a recording that another program makes, through locked databases,
\* dead sessions, failed files and crashes (integration/session.py:140-234).
THEOREM IngestInvariant == IngestSpec => []IngestInv
<1>1. IngestInit => IngestInv
  <2> SUFFICES ASSUME IngestInit PROVE IngestInv
    OBVIOUS
  <2>1. Shaped(NoRows) /\ ~NoRows.recording.there /\ ~NoRows.pointer.there
    BY DEF Shaped, NoRows, NoRow, NoRecording
  <2>2. ShapeOK
    BY <2>1, IngestAssumption DEF IngestInit, ShapeOK, Steps
  <2>3. \A s \in Sessions : /\ pc[s] = "idle" /\ ~registered[s] /\ log[s] = <<>>
                            /\ tx[s] = NoRows /\ db[s] = NoRows
    BY DEF IngestInit
  <2>4. Len(<<>>) = 0
    OBVIOUS
  <2>5. \A s \in Sessions : RegisteredOK(s) /\ FlushedOK(s) /\ CommitsOnce(s)
    BY <2>1, <2>3, <2>4 DEF RegisteredOK, FlushedOK, CommitsOnce, Saved
  <2>6. SavedTogether
    BY <2>1, <2>3 DEF SavedTogether, Saved
  <2> QED
    BY <2>2, <2>5, <2>6 DEF IngestInv
<1>2. ASSUME IngestInv, [IngestNext]_ingestVars PROVE IngestInv'
  <2>1. ShapeOK /\ \A s \in Sessions : SessionOK(s)
    BY <1>2 DEF IngestInv, SessionOK, Together, SavedTogether
  <2>2. ShapeOK'
    BY <2>1, <1>2, ShapeStep
  <2>3. \A t \in Sessions : SessionOK(t)'
    <3>1. ASSUME NEW s \in Sessions, SessionStep(s), NEW t \in Sessions PROVE SessionOK(t)'
      <4>1. CASE t = s
        BY <2>1, <3>1, <4>1, OwnStep
      <4>2. CASE t # s
        BY <2>1, <3>1, <4>2, OthersStay
      <4> QED
        BY <4>1, <4>2
    <3>2. ASSUME OtherWrites, NEW t \in Sessions PROVE SessionOK(t)'
      BY <2>1, <3>2, IngestAssumption, Untouched DEF OtherWrites
    <3>3. ASSUME UNCHANGED ingestVars, NEW t \in Sessions PROVE SessionOK(t)'
      BY <2>1, <3>3, Untouched DEF ingestVars, dbvars
    <3> QED
      BY <1>2, <3>1, <3>2, <3>3 DEF IngestNext
  <2>4. SavedTogether' /\ \A s \in Sessions : (RegisteredOK(s) /\ FlushedOK(s) /\ CommitsOnce(s))'
    BY <2>3 DEF SessionOK, Together, SavedTogether
  <2> QED
    BY <2>2, <2>4 DEF IngestInv
<1> QED
  BY <1>1, <1>2, PTL DEF IngestSpec

\* The recording and the pointer to its log are committed together or not at all,
\* although the writer swallows every failure to register (medallion/bronze.py:70).
THEOREM RowsAreSavedTogether == IngestSpec => []SavedTogether
<1>1. IngestInv => SavedTogether
  BY DEF IngestInv
<1> QED
  BY <1>1, IngestInvariant, PTL

-----------------------------------------------------------------------------
(* What the engine makes of a record.  A pass of the filters is a selection     *)
(* that keeps the order (FilterPicks), so that what is saved can be followed    *)
(* back, place by place, through the second pass, the normalizers and the       *)
(* first pass.                                                                  *)
(*                                                                              *)
(* First, sets of places.  Induction about a set goes by the smallest number    *)
(* that is not in it.                                                           *)

\* A nonempty set of numbers has a smallest element.
LEMMA SmallestOf ==
    ASSUME NEW S \in SUBSET Nat, S # {}
    PROVE  \E x \in S : \A y \in S : x <= y
<1>1. PICK x \in S : \A y \in S : ~(<<y, x>> \in OpToRel(<, Nat))
  BY WFMin, NatLessThanWellFounded
<1>2. \A y \in S : ~(y < x)
  BY <1>1 DEF OpToRel
<1> QED
  BY <1>2

\* A nonempty set of places has a last one.
LEMMA LastOfPlaces ==
    ASSUME NEW n \in Nat, NEW S \in SUBSET (1..n), S # {}
    PROVE  \E i \in S : \A j \in S : j <= i
<1> DEFINE T == {n - i : i \in S}
<1>1. T \in SUBSET Nat /\ T # {}
  <2>1. \A i \in S : i \in 1..n
    OBVIOUS
  <2>2. \A i \in 1..n : n - i \in Nat
    OBVIOUS
  <2> QED
    BY <2>1, <2>2
<1> HIDE DEF T
<1>2. PICK x \in T : \A y \in T : x <= y
  BY <1>1, SmallestOf
<1>3. PICK i \in S : x = n - i
  BY DEF T
<1>4. \A j \in S : n - i <= n - j
  BY <1>2, <1>3 DEF T
<1>5. \A j \in S : j <= i
  BY <1>4
<1> QED
  BY <1>5

\* How many of S come up to i.
Rank(S, i) == Cardinality({j \in S : j <= i})

\* The places of S are numbered from 1, in their order.
LEMMA Ranked ==
    ASSUME NEW n \in Nat, NEW S \in SUBSET (1..n)
    PROVE  /\ Cardinality(S) \in Nat
           /\ \A i \in S : Rank(S, i) \in 1..Cardinality(S)
           /\ \A i, k \in S : i < k => Rank(S, i) < Rank(S, k)
           /\ \A k \in 1..Cardinality(S) : \E i \in S : Rank(S, i) = k
<1>0. \A i \in S : i \in Int
  OBVIOUS
<1>1. IsFiniteSet(S)
  <2>1. IsFiniteSet(1..n)
    BY FS_Interval
  <2> QED
    BY <2>1, FS_Subset
<1>2. PICK c \in Nat : c = Cardinality(S)
  BY <1>1, FS_CardinalityType
<1>3. ASSUME NEW i \in S
      PROVE  IsFiniteSet({j \in S : j <= i}) /\ Rank(S, i) \in 1..c
  <2> DEFINE U == {j \in S : j <= i}
  <2>1. U \subseteq S /\ i \in U
    OBVIOUS
  <2> HIDE DEF U
  <2>2. IsFiniteSet(U) /\ Cardinality(U) <= c
    BY <1>1, <1>2, <2>1, FS_Subset
  <2>3. Cardinality(U) \in Nat /\ Cardinality(U) # 0
    BY <2>1, <2>2, FS_CardinalityType, FS_EmptySet
  <2>4. Cardinality(U) \in 1..c
    BY <2>2, <2>3
  <2> QED
    BY <2>2, <2>4 DEF U, Rank
<1>4. ASSUME NEW i \in S, NEW k \in S, i < k
      PROVE  Rank(S, i) < Rank(S, k)
  <2> DEFINE U == {j \in S : j <= i}
             W == {j \in S : j <= k}
  <2>0. i \in Int /\ k \in Int
    BY <1>0
  <2>1. U \cup {k} \subseteq W /\ k \notin U
    <3>1. \A j \in S : j <= i => j <= k
      BY <1>0, <1>4, <2>0
    <3>2. k <= k /\ ~(k <= i)
      BY <1>4, <2>0
    <3> QED
      BY <3>1, <3>2
  <2>2. IsFiniteSet(U) /\ IsFiniteSet(W)
    BY <1>3
  <2>3. Rank(S, i) = Cardinality(U) /\ Rank(S, k) = Cardinality(W)
    BY DEF Rank
  <2> HIDE DEF U, W
  <2>4. Cardinality(U \cup {k}) = Cardinality(U) + 1
    BY <2>1, <2>2, FS_AddElement
  <2>5. Cardinality(U \cup {k}) <= Cardinality(W)
    BY <2>1, <2>2, FS_Subset
  <2>6. Cardinality(U) \in Nat /\ Cardinality(W) \in Nat
    BY <2>2, FS_CardinalityType
  <2> QED
    BY <2>3, <2>4, <2>5, <2>6
<1> DEFINE r == [i \in S |-> Rank(S, i)]
<1>5. r \in [S -> 1..c]
  BY <1>3
<1>6. \A i, k \in S : r[i] = r[k] => i = k
  <2> SUFFICES ASSUME NEW i \in S, NEW k \in S, Rank(S, i) = Rank(S, k), i # k PROVE FALSE
    OBVIOUS
  <2>1. i < k \/ k < i
    BY <1>0
  <2>2. \A j \in S : Rank(S, j) \in 1..c
    BY <1>3
  <2>3. PICK a \in 1..c : a = Rank(S, i)
    BY <2>2
  <2>4. ~(a < a)
    OBVIOUS
  <2> QED
    BY <1>4, <2>1, <2>3, <2>4
<1>7. r \in Surjection(S, 1..c)
  <2>1. r \in Injection(S, 1..c)
    BY <1>5, <1>6 DEF Injection, IsInjective
  <2>2. IsFiniteSet(1..c) /\ Cardinality(1..c) = IF 1 > c THEN 0 ELSE c - 1 + 1
    BY FS_Interval
  <2>3. Cardinality(1..c) = c
    BY <2>2
  <2> HIDE DEF r
  <2> QED
    BY <1>2, <2>1, <2>2, <2>3, FS_Injection
<1>8. \A k \in 1..c : \E i \in S : r[i] = k
  <2> HIDE DEF r
  <2> QED
    BY <1>7 DEF Surjection
<1>9. \A k \in 1..c : \E i \in S : Rank(S, i) = k
  BY <1>8
<1> QED
  BY <1>2, <1>3, <1>4, <1>9

\* What holds of a number and goes from each to the next holds of all up to n.
LEMMA UpTo ==
    ASSUME NEW n \in Nat, NEW a \in Nat, NEW P, a \in P,
           \A i \in (a + 1)..n : i - 1 \in P => i \in P
    PROVE  \A i \in a..n : i \in P
<1> DEFINE Bad == {i \in a..n : i \notin P}
<1>1. SUFFICES Bad = {}
  OBVIOUS
<1>2. SUFFICES ASSUME Bad # {} PROVE FALSE
  OBVIOUS
<1>3. Bad \in SUBSET Nat
  <2>1. Bad \subseteq a..n
    OBVIOUS
  <2> HIDE DEF Bad
  <2>2. a..n \subseteq Nat
    OBVIOUS
  <2> QED
    BY <2>1, <2>2
<1>4. \A i : i \in Bad <=> i \in a..n /\ i \notin P
  OBVIOUS
<1> HIDE DEF Bad
<1>5. PICK i \in Bad : \A j \in Bad : i <= j
  BY <1>2, <1>3, SmallestOf
<1>6. i \in a..n /\ i \notin P /\ i # a
  BY <1>4, <1>5
<1>7. PICK h \in a..n : h = i - 1 /\ h < i
  BY <1>6
<1>8. h \in P
  <2> SUFFICES ASSUME h \notin P PROVE FALSE
    OBVIOUS
  <2>1. i <= h
    BY <1>4, <1>5, <1>7
  <2> QED
    BY <1>6, <1>7, <2>1
<1>9. i \in (a + 1)..n
  BY <1>6
<1> QED
  BY <1>6, <1>7, <1>8, <1>9

\* A place of a set lies in a run of the set, which begins somewhere.
LEMMA RunBack ==
    ASSUME NEW n \in Nat, NEW P \in SUBSET (1..n), NEW i \in P
    PROVE  \E c \in P : c <= i /\ (c..i) \subseteq P /\ (c > 1 => c - 1 \notin P)
<1> DEFINE R == {c \in 1..i : (c..i) \subseteq P}
<1>0. i \in 1..n /\ i \in Nat /\ 1..i \subseteq 1..n
  OBVIOUS
<1>1. R \in SUBSET Nat
  <2>1. R \subseteq 1..i
    OBVIOUS
  <2> HIDE DEF R
  <2>2. 1..i \subseteq Nat
    OBVIOUS
  <2> QED
    BY <2>1, <2>2
<1>2. i \in R
  BY <1>0
<1>3. \A c : c \in R <=> c \in 1..i /\ (c..i) \subseteq P
  OBVIOUS
<1> HIDE DEF R
<1>4. PICK c \in R : \A x \in R : c <= x
  BY <1>1, <1>2, SmallestOf
<1>5. c \in 1..i /\ (c..i) \subseteq P
  BY <1>3, <1>4
<1>6. c \in P /\ c <= i
  BY <1>0, <1>5
<1>7. ASSUME c > 1, c - 1 \in P PROVE FALSE
  <2>1. PICK d \in 1..i : d = c - 1 /\ d < c
    BY <1>0, <1>5, <1>7
  <2>2. \A j \in d..i : j = d \/ j \in c..i
    BY <1>0, <1>5, <2>1
  <2>3. d \in P
    BY <1>7, <2>1
  <2>4. (d..i) \subseteq P
    BY <1>5, <2>2, <2>3
  <2>5. c <= d
    BY <1>3, <1>4, <2>4
  <2> QED
    BY <1>0, <1>5, <2>1, <2>5
<1> QED
  BY <1>5, <1>6, <1>7

\* A list has the length that its places say.
LEMMA ListLength ==
    ASSUME NEW n \in Nat, NEW as, as = [i \in 1..n |-> as[i]]
    PROVE  Len(as) = n
<1> DEFINE T == {as[i] : i \in 1..n}
<1>1. as \in [1..n -> T]
  OBVIOUS
<1> HIDE DEF T
<1>2. as \in Seq(T)
  BY <1>1, SeqDef
<1>3. Len(as) \in Nat /\ DOMAIN as = 1..Len(as)
  BY <1>2, LenProperties
<1>4. PICK k \in Nat : k = Len(as)
  BY <1>3
<1>5. 1..k = 1..n
  BY <1>1, <1>3, <1>4
<1>6. k = n
  BY <1>5
<1> QED
  BY <1>4, <1>6

-----------------------------------------------------------------------------
(* A pass of the filters. *)

\* What it keeps.
Kept(as, marked) == {i \in DOMAIN as : ~default_filters(as, i, marked)}

\* at is the list of the places that a pass keeps.
Picks(as, marked, m, at) ==
    /\ m \in Nat /\ at \in [1..m -> Kept(as, marked)]
    /\ \A k, l \in 1..m : k < l <=> at[k] < at[l]
    /\ \A i \in Kept(as, marked) : \E k \in 1..m : at[k] = i

Selected(as, m, at) == [k \in 1..m |-> as[at[k]]]

\* A pass of the filters is a selection that keeps the order.
LEMMA FilterPicks ==
    ASSUME NEW as, NEW n \in Nat, DOMAIN as = 1..n, NEW marked
    PROVE  \E m, at : /\ Picks(as, marked, m, at)
                      /\ FilterPass(as, marked) = Selected(as, m, at)
<1> DEFINE S == Kept(as, marked)
           m == Cardinality(S)
           at == [k \in 1..m |-> CHOOSE i \in S : Rank(S, i) = k]
<1>1. S \in SUBSET (1..n) /\ \A i \in S : i \in Int
  <2>1. S \subseteq DOMAIN as
    BY DEF Kept
  <2> HIDE DEF S
  <2> QED
    BY <2>1
<1>2. FilterPass(as, marked) = Selected(as, m, at)
  <2>1. FilterPass(as, marked) =
            [k \in 1..m |-> as[CHOOSE i \in S : Cardinality({j \in S : j <= i}) = k]]
    BY DEF FilterPass, Kept
  <2> QED
    BY <2>1 DEF Rank, Selected
<1> HIDE DEF S
<1>3. /\ m \in Nat
      /\ \A i \in S : Rank(S, i) \in 1..m
      /\ \A i, k \in S : i < k => Rank(S, i) < Rank(S, k)
      /\ \A k \in 1..m : \E i \in S : Rank(S, i) = k
  BY <1>1, Ranked
<1>4. \A k \in 1..m : at[k] \in S /\ Rank(S, at[k]) = k
  BY <1>3
<1>5. at \in [1..m -> S]
  BY <1>4
<1> HIDE DEF m, at
<1>6. ASSUME NEW k \in 1..m, NEW l \in 1..m PROVE k < l <=> at[k] < at[l]
  <2>1. PICK a \in Int, b \in Int : a = at[k] /\ b = at[l]
    BY <1>1, <1>4
  <2>2. a \in S /\ b \in S /\ Rank(S, a) = k /\ Rank(S, b) = l
    BY <1>4, <2>1
  <2>3. (a < b => k < l) /\ (b < a => l < k) /\ (a = b => k = l)
    BY <1>3, <2>2
  <2>4. k < l <=> a < b
    BY <2>3
  <2> QED
    BY <2>1, <2>4
<1>7. ASSUME NEW i \in S PROVE \E k \in 1..m : at[k] = i
  <2>1. PICK k \in 1..m : k = Rank(S, i)
    BY <1>3
  <2>2. at[k] \in S /\ Rank(S, at[k]) = Rank(S, i)
    BY <1>4, <2>1
  <2>3. PICK a \in Int, b \in Int : a = at[k] /\ b = i
    BY <1>1, <2>2
  <2>4. a \in S /\ b \in S /\ Rank(S, a) = k /\ Rank(S, b) = k
    BY <2>1, <2>2, <2>3
  <2>5. ~(a < b) /\ ~(b < a)
    BY <1>3, <2>4
  <2> QED
    BY <2>3, <2>5
<1>8. Picks(as, marked, m, at)
  BY <1>3, <1>5, <1>6, <1>7 DEF Picks, S
<1> QED
  BY <1>2, <1>8

-----------------------------------------------------------------------------
(* Where replay is. *)

Navs(as, before) == {i \in DOMAIN as : as[i].type = "navigate" /\ as[i].sequence < before}

\* The page is that of the last navigation.
LEMMA PageFacts ==
    ASSUME NEW as, NEW n \in Nat, DOMAIN as = 1..n, NEW before
    PROVE  /\ Navs(as, before) = {} => Page(as, before) = ""
           /\ Navs(as, before) # {} =>
                 \E i \in Navs(as, before) : /\ \A j \in Navs(as, before) : j <= i
                                             /\ Page(as, before) = as[i].text.word
<1> DEFINE N == Navs(as, before)
<1>1. N \in SUBSET (1..n)
  BY DEF Navs
<1>2. Page(as, before) = IF N = {} THEN ""
                         ELSE as[CHOOSE i \in N : \A j \in N : j <= i].text.word
  BY DEF Page, Navs
<1> HIDE DEF N
<1>3. ASSUME N # {}
      PROVE  \E i \in N : (\A j \in N : j <= i) /\ Page(as, before) = as[i].text.word
  <2>1. \E i \in N : \A j \in N : j <= i
    BY <1>1, <1>3, LastOfPlaces
  <2>2. PICK i \in N : i = CHOOSE k \in N : \A j \in N : j <= k
    BY <2>1
  <2>3. \A j \in N : j <= i
    BY <2>1, <2>2
  <2> QED
    BY <1>2, <1>3, <2>2, <2>3
<1> QED
  BY <1>2, <1>3 DEF N

\* The filters leave navigations alone, except those that repeat the one before.
NavsStay(as, marked) ==
    \A j \in DOMAIN as : as[j].type = "navigate" => as[j].enabled /\ as[j].sequence \notin marked

\* Actions have numbers, in their order.
Ordered(as) ==
    /\ \A j \in DOMAIN as : as[j].sequence \in Int
    /\ \A j, k \in DOMAIN as : j < k <=> as[j].sequence < as[k].sequence

NavsTo(as, word) == {j \in DOMAIN as : as[j].type = "navigate" /\ as[j].text.word = word}

\* A navigation that a pass drops repeats the ones before it, back to one that stays.
LEMMA NavigationStays ==
    ASSUME NEW as, NEW n \in Nat, DOMAIN as = 1..n, NEW marked, NavsStay(as, marked),
           NEW i \in 1..n, as[i].type = "navigate"
    PROVE  \E c \in Kept(as, marked) : c <= i /\ (c..i) \subseteq NavsTo(as, as[i].text.word)
<1>1. PICK P \in SUBSET (1..n) : P = NavsTo(as, as[i].text.word)
  BY DEF NavsTo
<1>2. i \in P
  BY <1>1 DEF NavsTo
<1>3. PICK c \in P : c <= i /\ (c..i) \subseteq P /\ (c > 1 => c - 1 \notin P)
  BY <1>2, RunBack
<1>4. c \in 1..n /\ as[c].type = "navigate" /\ as[c].text.word = as[i].text.word
  BY <1>1, <1>3 DEF NavsTo
<1>5. ~DropDuplicateNavigate(as, c)
  <2> SUFFICES ASSUME DropDuplicateNavigate(as, c) PROVE FALSE
    OBVIOUS
  <2>1. c > 1 /\ as[c - 1].type = "navigate" /\ as[c - 1].text = as[c].text
    BY DEF DropDuplicateNavigate
  <2>2. c - 1 \in 1..n
    BY <1>4, <2>1
  <2>3. c - 1 \in P
    BY <1>1, <1>4, <2>1, <2>2 DEF NavsTo
  <2> QED
    BY <1>3, <2>1, <2>3
<1>6. as[c].enabled /\ as[c].sequence \notin marked
  BY <1>4 DEF NavsStay
<1>7. ~DropFocusBlurOnly(as, c) /\ ~DropDisabledTarget(as, c) /\ ~DropCoalescedFollowers(as, c, marked)
  BY <1>4, <1>6 DEF DropFocusBlurOnly, DropDisabledTarget, DropCoalescedFollowers, IsInput
<1>8. c \in Kept(as, marked)
  BY <1>4, <1>5, <1>7 DEF Kept, default_filters
<1> QED
  BY <1>1, <1>3, <1>8

\* So a pass leaves replay on the pages where the user was.
LEMMA PageFiltered ==
    ASSUME NEW as, NEW n \in Nat, DOMAIN as = 1..n, NEW marked,
           NavsStay(as, marked), Ordered(as),
           NEW m, NEW at, Picks(as, marked, m, at),
           NEW before \in Int
    PROVE  Page(Selected(as, m, at), before) = Page(as, before)
<1> DEFINE out == Selected(as, m, at)
<1>1. PICK N \in SUBSET (1..n) : N = Navs(as, before)
  BY DEF Navs
<1>2. DOMAIN out = 1..m /\ \A k \in 1..m : out[k] = as[at[k]]
  BY DEF Selected
<1>3. /\ m \in Nat
      /\ \A k \in 1..m : at[k] \in Kept(as, marked) /\ at[k] \in 1..n
  BY DEF Picks, Kept
<1>4. \A k, l \in 1..m : k < l => at[k] < at[l]
  BY DEF Picks
<1> HIDE DEF out
<1>5. PICK M \in SUBSET (1..m) : M = Navs(out, before)
  BY <1>2 DEF Navs
<1>6. \A k \in 1..m : k \in M <=> at[k] \in N
  BY <1>1, <1>2, <1>3, <1>5 DEF Navs
<1>7. CASE N = {}
  <2>1. M = {}
    BY <1>6, <1>7
  <2>2. Page(out, before) = ""
    BY <1>2, <1>3, <1>5, <2>1, PageFacts
  <2>3. Page(as, before) = ""
    BY <1>1, <1>7, PageFacts
  <2> QED
    BY <2>2, <2>3 DEF out
<1>8. CASE N # {}
  <2>1. PICK i \in N : (\A j \in N : j <= i) /\ Page(as, before) = as[i].text.word
    BY <1>1, <1>8, PageFacts
  <2>2. i \in 1..n /\ as[i].type = "navigate" /\ as[i].sequence < before
    BY <1>1, <2>1 DEF Navs
  <2>3. PICK c \in Kept(as, marked) : c <= i /\ (c..i) \subseteq NavsTo(as, as[i].text.word)
    BY <2>2, NavigationStays
  <2>4. PICK q \in 1..m : at[q] = c
    BY DEF Picks
  <2>5. c \in 1..n
    BY DEF Kept
  <2>6. c \in N
    <3>1. c \in NavsTo(as, as[i].text.word)
      <4>1. c \in c..i
        BY <2>2, <2>3, <2>5
      <4> QED
        BY <2>3, <4>1
    <3>2. as[c].sequence < before
      <4>1. c = i \/ c < i
        BY <2>2, <2>3, <2>5
      <4>2. as[c].sequence \in Int /\ as[i].sequence \in Int
        BY <2>2, <2>5 DEF Ordered
      <4>3. c < i => as[c].sequence < as[i].sequence
        BY <2>2, <2>5 DEF Ordered
      <4>4. PICK x \in Int : x = as[c].sequence
        BY <4>2
      <4>5. PICK y \in Int : y = as[i].sequence
        BY <4>2
      <4>6. x = y \/ x < y
        BY <4>1, <4>3, <4>4, <4>5
      <4>7. y < before
        BY <2>2, <4>5
      <4>8. x < before
        BY <4>6, <4>7
      <4> QED
        BY <4>4, <4>8
    <3> QED
      BY <1>1, <2>5, <3>1, <3>2 DEF Navs, NavsTo
  <2>7. q \in M
    BY <1>6, <2>4, <2>6
  <2>8. PICK k \in M : (\A j \in M : j <= k) /\ Page(out, before) = out[k].text.word
    BY <1>2, <1>3, <1>5, <2>7, PageFacts
  <2>9. PICK b \in N : b = at[k]
    BY <1>6, <2>8
  <2>10. b \in c..i
    <3>1. b <= i
      BY <2>1, <2>9
    <3>2. q = k \/ q < k
      BY <2>4, <2>7, <2>8
    <3>3. q < k => c < b
      BY <1>4, <2>4, <2>8, <2>9
    <3>4. q = k => c = b
      BY <2>4, <2>9
    <3> QED
      BY <2>2, <2>5, <2>9, <3>1, <3>2, <3>3, <3>4
  <2>11. b \in NavsTo(as, as[i].text.word)
    BY <2>3, <2>10
  <2>12. as[b].text.word = as[i].text.word
    BY <2>11 DEF NavsTo
  <2>13. out[k] = as[b]
    BY <1>2, <2>8, <2>9
  <2> QED
    BY <2>1, <2>8, <2>12, <2>13 DEF out
<1> QED
  BY <1>7, <1>8

-----------------------------------------------------------------------------
(* What the normalizers do. *)

\* b is a, but for its text.
Retold(a, b) ==
    /\ IsAction(b)
    /\ b.sequence = a.sequence /\ b.type = a.type /\ b.selector = a.selector
    /\ b.time = a.time /\ b.enabled = a.enabled

LEMMA RecordReplaced ==
    ASSUME NEW a, NEW x, NEW q, NEW w, NEW e, NEW r, NEW t, NEW s, NEW u, NEW v,
           a = [sequence |-> q, type |-> w, selector |-> e, time |-> r,
                text |-> t, sensitive |-> s, enabled |-> u, look |-> v]
    PROVE  [a EXCEPT !.text = x] =
               [sequence |-> q, type |-> w, selector |-> e, time |-> r,
                text |-> x, sensitive |-> s, enabled |-> u, look |-> v]
OBVIOUS

LEMMA TextReplaced ==
    ASSUME NEW a, NEW x, IsAction(a), x = [word |-> x.word, padded |-> x.padded]
    PROVE  Retold(a, [a EXCEPT !.text = x]) /\ [a EXCEPT !.text = x].text = x
<1> DEFINE b == [a EXCEPT !.text = x]
<1>1. PICK q, w, e, r, t, s, u, v :
            a = [sequence |-> q, type |-> w, selector |-> e, time |-> r,
                 text |-> t, sensitive |-> s, enabled |-> u, look |-> v]
  BY DEF IsAction
<1>2. b = [sequence |-> q, type |-> w, selector |-> e, time |-> r,
           text |-> x, sensitive |-> s, enabled |-> u, look |-> v]
  BY <1>1, RecordReplaced
<1> HIDE DEF b
<1>3. /\ b.text = x /\ b.sequence = a.sequence /\ b.type = a.type
      /\ b.selector = a.selector /\ b.time = a.time /\ b.enabled = a.enabled
  BY <1>1, <1>2
<1>4. b = [sequence |-> b.sequence, type |-> b.type, selector |-> b.selector,
           time |-> b.time, text |-> b.text, sensitive |-> b.sensitive,
           enabled |-> b.enabled, look |-> b.look]
  BY <1>2
<1>5. IsAction(b)
  BY <1>3, <1>4 DEF IsAction
<1> QED
  BY <1>3, <1>5 DEF b, Retold

LEMMA BaredRecord ==
    ASSUME NEW x, NEW w, NEW p, NEW y, x = [word |-> w, padded |-> p]
    PROVE  [x EXCEPT !.padded = y] = [word |-> w, padded |-> y]
OBVIOUS

LEMMA Bared ==
    ASSUME NEW x, x = [word |-> x.word, padded |-> x.padded]
    PROVE  Bare(x) = [word |-> x.word, padded |-> FALSE]
<1>1. PICK w, p : x = [word |-> w, padded |-> p]
  OBVIOUS
<1>2. \A y : [x EXCEPT !.padded = y] = [word |-> w, padded |-> y]
  BY <1>1, BaredRecord
<1>3. [x EXCEPT !.padded = FALSE] = [word |-> w, padded |-> FALSE]
  BY <1>2
<1> QED
  BY <1>1, <1>3 DEF Bare

LEMMA TextBared ==
    ASSUME NEW a, IsAction(a)
    PROVE  /\ Retold(a, [a EXCEPT !.text = Bare(@)])
           /\ [a EXCEPT !.text = Bare(@)].text.word = a.text.word
<1>1. a.text = [word |-> a.text.word, padded |-> a.text.padded]
  BY DEF IsAction
<1>2. PICK w : w = a.text.word
  OBVIOUS
<1>3. PICK x : x = [word |-> w, padded |-> FALSE] /\ x = Bare(a.text)
  BY <1>1, <1>2, Bared
<1>4. x = [word |-> x.word, padded |-> x.padded] /\ x.word = w
  BY <1>3
<1>5. Retold(a, [a EXCEPT !.text = x]) /\ [a EXCEPT !.text = x].text = x
  BY <1>4, TextReplaced
<1> QED
  BY <1>2, <1>3, <1>4, <1>5

LEMMA Unchanged ==
    ASSUME NEW a, IsAction(a) PROVE Retold(a, a)
BY DEF Retold

LEMMA Trimmed ==
    ASSUME NEW a, IsAction(a)
    PROVE  Retold(a, TrimInputValue(a)) /\ TrimInputValue(a).text.word = a.text.word
<1>1. TrimInputValue(a) = a \/ TrimInputValue(a) = [a EXCEPT !.text = Bare(@)]
  BY DEF TrimInputValue
<1> QED
  BY <1>1, TextBared, Unchanged

LEMMA Canonical ==
    ASSUME NEW a, IsAction(a)
    PROVE  /\ Retold(a, CanonicalizeUrl(a)) /\ CanonicalizeUrl(a).text.word = a.text.word
           /\ IsInput(a) => CanonicalizeUrl(a) = a
<1>1. CanonicalizeUrl(a) = a \/ CanonicalizeUrl(a) = [a EXCEPT !.text = Bare(@)]
  BY DEF CanonicalizeUrl
<1>2. IsInput(a) => CanonicalizeUrl(a) = a
  BY DEF IsInput, CanonicalizeUrl
<1> QED
  BY <1>1, <1>2, TextBared, Unchanged

\* The actions that go on with the burst of action i; action i leads them.
Burst(as, i) == {j \in (i + 1)..Len(as) : \A k \in (i + 1)..j : InBurst(as, k)}
Leads(as, i) == IsInput(as[i]) /\ ~InBurst(as, i) /\ Burst(as, i) # {}

\* The leader takes the text of the last one.
LEMMA Coalesced ==
    ASSUME NEW as, NEW n \in Nat, Len(as) = n, \A j \in 1..n : IsAction(as[j]),
           NEW i \in 1..n, NEW a, Retold(as[i], a)
    PROVE  /\ ~Leads(as, i) => CoalesceInputBursts(as, i, a) = a
           /\ Leads(as, i) =>
                \E last \in Burst(as, i) :
                    /\ \A k \in Burst(as, i) : k <= last
                    /\ Retold(as[i], CoalesceInputBursts(as, i, a))
                    /\ CoalesceInputBursts(as, i, a).text = as[last].text
<1>1. IsInput(a) <=> IsInput(as[i])
  BY DEF Retold, IsInput
<1>2. PICK B : B = Burst(as, i)
  OBVIOUS
<1>3. B \in SUBSET (1..n)
  <2>1. B \subseteq (i + 1)..n
    BY <1>2 DEF Burst
  <2>2. (i + 1)..n \subseteq 1..n
    OBVIOUS
  <2> QED
    BY <2>1, <2>2
<1>4. CoalesceInputBursts(as, i, a) =
         IF IsInput(a) /\ ~InBurst(as, i) /\ B # {}
         THEN [a EXCEPT !.text = as[CHOOSE j \in B : \A k \in B : k <= j].text]
         ELSE a
  BY <1>2 DEF CoalesceInputBursts, Burst
<1>5. ASSUME Leads(as, i)
      PROVE  \E last \in B :
                /\ \A k \in B : k <= last
                /\ Retold(as[i], CoalesceInputBursts(as, i, a))
                /\ CoalesceInputBursts(as, i, a).text = as[last].text
  <2>1. IsInput(a) /\ ~InBurst(as, i) /\ B # {}
    BY <1>1, <1>2, <1>5 DEF Leads
  <2>2. \E last \in B : \A k \in B : k <= last
    BY <1>3, <2>1, LastOfPlaces
  <2>3. PICK last \in B : last = CHOOSE j \in B : \A k \in B : k <= j
    BY <2>2
  <2>4. \A k \in B : k <= last
    BY <2>2, <2>3
  <2>5. PICK x : x = as[last].text
    OBVIOUS
  <2>6. last \in 1..n
    BY <1>3, <2>3
  <2>7. x = [word |-> x.word, padded |-> x.padded]
    BY <2>5, <2>6 DEF IsAction
  <2>8. CoalesceInputBursts(as, i, a) = [a EXCEPT !.text = x]
    BY <1>4, <2>1, <2>3, <2>5
  <2>9. Retold(a, [a EXCEPT !.text = x]) /\ [a EXCEPT !.text = x].text = x
    <3>1. IsAction(a)
      BY DEF Retold
    <3> QED
      BY <2>7, <3>1, TextReplaced
  <2>10. Retold(as[i], [a EXCEPT !.text = x])
    BY <2>9 DEF Retold
  <2> QED
    BY <2>4, <2>5, <2>8, <2>9, <2>10
<1>6. ASSUME ~Leads(as, i) PROVE CoalesceInputBursts(as, i, a) = a
  BY <1>1, <1>2, <1>4, <1>6 DEF Leads
<1> QED
  BY <1>2, <1>5, <1>6

\* A normalized action differs in its text alone, and in its word only if a
\* burst follows it: then it has the text of the last of the burst.
LEMMA Normalized ==
    ASSUME NEW as, NEW n \in Nat, Len(as) = n, \A j \in 1..n : IsAction(as[j]),
           NEW i \in 1..n
    PROVE  /\ Retold(as[i], default_normalizers(as, i))
           /\ ~Leads(as, i) => default_normalizers(as, i).text.word = as[i].text.word
           /\ Leads(as, i) =>
                \E last \in Burst(as, i) : /\ \A k \in Burst(as, i) : k <= last
                                           /\ default_normalizers(as, i).text = as[last].text
<1>1. PICK a : a = TrimInputValue(as[i])
  OBVIOUS
<1>2. PICK b : b = CoalesceInputBursts(as, i, a)
  OBVIOUS
<1>3. default_normalizers(as, i) = CanonicalizeUrl(b)
  BY <1>1, <1>2 DEF default_normalizers
<1>4. Retold(as[i], a) /\ a.text.word = as[i].text.word
  BY <1>1, Trimmed
<1>5. CASE Leads(as, i)
  <2>1. PICK last \in Burst(as, i) : /\ \A k \in Burst(as, i) : k <= last
                                     /\ Retold(as[i], b)
                                     /\ b.text = as[last].text
    BY <1>2, <1>4, <1>5, Coalesced
  <2>2. IsInput(b) /\ IsAction(b)
    BY <1>5, <2>1 DEF Leads, Retold, IsInput
  <2>3. CanonicalizeUrl(b) = b
    BY <2>2, Canonical
  <2> QED
    BY <1>3, <1>5, <2>1, <2>3
<1>6. CASE ~Leads(as, i)
  <2>1. b = a
    BY <1>2, <1>4, <1>6, Coalesced
  <2>2. Retold(b, CanonicalizeUrl(b)) /\ CanonicalizeUrl(b).text.word = b.text.word
    BY <1>4, <2>1, Canonical DEF Retold
  <2>3. Retold(as[i], CanonicalizeUrl(b))
    BY <1>4, <2>1, <2>2 DEF Retold
  <2> QED
    BY <1>3, <1>4, <1>6, <2>1, <2>2, <2>3
<1> QED
  BY <1>5, <1>6

-----------------------------------------------------------------------------
(* The engine: F is what the first pass of the filters keeps of in, and out   *)
(* what the second keeps of F, normalized.                                    *)

Engine(in, m, f, F, n, g, out) ==
    /\ Recorded(in)
    /\ Picks(in, {}, m, f) /\ F = Selected(in, m, f)
    /\ Picks(NormalizePass(F), CoalescedIndexes(F), n, g)
    /\ out = Selected(NormalizePass(F), n, g)

LEMMA EngineRuns ==
    ASSUME NEW in, Recorded(in)
    PROVE  \E m, f, F, n, g, out :
              /\ Engine(in, m, f, F, n, g, out)
              /\ Process(in) = [i \in DOMAIN out |-> [action |-> out[i], verdict |-> Classify(out[i])]]
<1>1. PICK x \in Nat : x = Len(in) /\ DOMAIN in = 1..x
  BY DEF Recorded
<1>2. PICK m, f : Picks(in, {}, m, f) /\ FilterPass(in, {}) = Selected(in, m, f)
  BY <1>1, FilterPicks
<1>3. PICK F : F = Selected(in, m, f)
  OBVIOUS
<1>4. m \in Nat /\ DOMAIN F = 1..m
  BY <1>2, <1>3 DEF Picks, Selected
<1>5. PICK N : N = NormalizePass(F)
  OBVIOUS
<1>6. DOMAIN N = 1..m
  BY <1>4, <1>5 DEF NormalizePass
<1>7. PICK M : M = CoalescedIndexes(F)
  OBVIOUS
<1>8. PICK n, g : Picks(N, M, n, g) /\ FilterPass(N, M) = Selected(N, n, g)
  BY <1>4, <1>6, FilterPicks
<1>9. PICK out : out = Selected(N, n, g)
  OBVIOUS
<1>10. Engine(in, m, f, F, n, g, out)
  BY <1>2, <1>3, <1>5, <1>7, <1>8, <1>9 DEF Engine
<1>11. FilterPass(NormalizePass(FilterPass(in, {})), CoalescedIndexes(FilterPass(in, {}))) = out
  BY <1>2, <1>3, <1>5, <1>7, <1>8, <1>9
<1>12. Process(in) = [i \in DOMAIN out |-> [action |-> out[i], verdict |-> Classify(out[i])]]
  BY <1>11 DEF Process
<1> QED
  BY <1>10, <1>12

\* What the first pass keeps.
LEMMA FirstPass ==
    ASSUME NEW in, NEW m, NEW f, NEW F, NEW n, NEW g, NEW out,
           Engine(in, m, f, F, n, g, out)
    PROVE  /\ m \in Nat /\ Len(F) = m /\ DOMAIN F = 1..m
           /\ \A i \in 1..m : f[i] \in 1..Len(in) /\ F[i] = in[f[i]]
           /\ \A i, j \in 1..m : i < j <=> f[i] < f[j]
           /\ \A i \in 1..m : /\ IsAction(F[i]) /\ F[i].enabled
                              /\ F[i].sequence = f[i] - 1 /\ F[i].time \in Int
           /\ \A i, j \in 1..m : i <= j => F[i].time <= F[j].time
           /\ Ordered(F)
           /\ \A i \in 1..Len(in) :
                 ~default_filters(in, i, {}) => \E k \in 1..m : f[k] = i
<1>1. PICK x \in Nat : x = Len(in) /\ DOMAIN in = 1..x
  BY DEF Engine, Recorded
<1>2. /\ m \in Nat /\ f \in [1..m -> Kept(in, {})]
      /\ \A i, j \in 1..m : i < j <=> f[i] < f[j]
      /\ \A i \in Kept(in, {}) : \E k \in 1..m : f[k] = i
  BY DEF Engine, Picks
<1>3. F = [i \in 1..m |-> in[f[i]]]
  BY DEF Engine, Selected
<1>4. DOMAIN F = 1..m /\ Len(F) = m /\ \A i \in 1..m : F[i] = in[f[i]]
  <2>1. DOMAIN F = 1..m /\ \A i \in 1..m : F[i] = in[f[i]]
    BY <1>3
  <2>2. F = [i \in 1..m |-> F[i]]
    BY <1>3
  <2> QED
    BY <1>2, <2>1, <2>2, ListLength
<1>5. \A i \in 1..m : f[i] \in 1..x /\ ~default_filters(in, f[i], {})
  BY <1>1, <1>2 DEF Kept
<1>6. \A i \in 1..x : ~default_filters(in, i, {}) => \E k \in 1..m : f[k] = i
  BY <1>1, <1>2 DEF Kept
<1>7. /\ \A i \in 1..x : IsAction(in[i]) /\ in[i].sequence = i - 1 /\ in[i].time \in Int
      /\ \A i, j \in 1..x : i <= j => in[i].time <= in[j].time
  <2>1. Recorded(in)
    BY DEF Engine
  <2>2. ASSUME NEW i \in 1..Len(in)
        PROVE  IsAction(in[i]) /\ in[i].sequence = i - 1 /\ in[i].time \in Int
    <3>1. IsAction(in[i])
      BY <2>1 DEF Recorded
    <3>2. in[i].sequence = i - 1 /\ in[i].time \in Int
      BY <2>1 DEF Recorded
    <3> QED
      BY <3>1, <3>2
  <2>3. \A i, j \in 1..Len(in) : i <= j => in[i].time <= in[j].time
    BY <2>1, Zenon DEF Recorded
  <2> QED
    BY <1>1, <2>2, <2>3, Zenon
<1>9. ASSUME NEW i \in 1..m
      PROVE  IsAction(F[i]) /\ F[i].enabled /\ F[i].sequence = f[i] - 1 /\ F[i].time \in Int
  <2>1. PICK a \in 1..x : a = f[i]
    BY <1>5
  <2>2. F[i] = in[a] /\ ~default_filters(in, a, {})
    BY <1>4, <1>5, <2>1
  <2>3. in[a].enabled
    BY <2>2 DEF default_filters, DropDisabledTarget
  <2> QED
    BY <1>7, <2>1, <2>2, <2>3
<1>10. ASSUME NEW i \in 1..m, NEW j \in 1..m, i <= j PROVE F[i].time <= F[j].time
  <2>1. PICK a \in 1..x, b \in 1..x : a = f[i] /\ b = f[j]
    BY <1>5
  <2>2. i = j \/ i < j
    BY <1>2, <1>10
  <2>3. i < j => a < b
    BY <1>2, <2>1
  <2>4. a <= b
    BY <2>1, <2>2, <2>3
  <2> QED
    BY <1>4, <1>7, <2>1, <2>4
<1>11. Ordered(F)
  <2>1. \A j \in 1..m : F[j].sequence \in Int
    BY <1>5, <1>9
  <2>2. ASSUME NEW i \in 1..m, NEW j \in 1..m
        PROVE  i < j <=> F[i].sequence < F[j].sequence
    <3>1. PICK a \in 1..x, b \in 1..x : a = f[i] /\ b = f[j]
      BY <1>5
    <3>2. i < j <=> a < b
      BY <1>2, <3>1
    <3>3. F[i].sequence = a - 1 /\ F[j].sequence = b - 1
      BY <1>9, <3>1
    <3>4. a < b <=> a - 1 < b - 1
      OBVIOUS
    <3> QED
      BY <3>2, <3>3, <3>4
  <2> QED
    BY <1>4, <2>1, <2>2 DEF Ordered
<1> QED
  BY <1>1, <1>2, <1>4, <1>5, <1>6, <1>9, <1>10, <1>11

LEMMA OrderedRetold ==
    ASSUME NEW as, NEW m, DOMAIN as = 1..m, Ordered(as), NEW bs, DOMAIN bs = 1..m,
           \A i \in 1..m : bs[i].sequence = as[i].sequence
    PROVE  Ordered(bs)
<1>1. \A i \in 1..m : bs[i].sequence \in Int
  BY DEF Ordered
<1>2. \A i, j \in 1..m : i < j <=> as[i].sequence < as[j].sequence
  BY DEF Ordered
<1>3. \A i, j \in 1..m : i < j <=> bs[i].sequence < bs[j].sequence
  BY <1>2
<1> QED
  BY <1>1, <1>3, Zenon DEF Ordered

LEMMA OrderedSelected ==
    ASSUME NEW as, Ordered(as), NEW n, NEW g,
           \A i \in 1..n : g[i] \in DOMAIN as,
           \A i, j \in 1..n : i < j <=> g[i] < g[j]
    PROVE  Ordered(Selected(as, n, g))
<1> DEFINE out == Selected(as, n, g)
<1>1. DOMAIN out = 1..n /\ \A i \in 1..n : out[i] = as[g[i]]
  BY DEF Selected
<1> HIDE DEF out
<1>2. \A i \in 1..n : out[i].sequence \in Int
  BY <1>1 DEF Ordered
<1>3. ASSUME NEW i \in 1..n, NEW j \in 1..n
      PROVE  i < j <=> out[i].sequence < out[j].sequence
  <2>1. g[i] < g[j] <=> as[g[i]].sequence < as[g[j]].sequence
    BY DEF Ordered
  <2> QED
    BY <1>1, <2>1
<1> QED
  BY <1>1, <1>2, <1>3 DEF Ordered, out

\* What the normalizers and the second pass make of that.
LEMMA SecondPass ==
    ASSUME NEW in, NEW m, NEW f, NEW F, NEW n, NEW g, NEW out,
           Engine(in, m, f, F, n, g, out)
    PROVE  /\ DOMAIN NormalizePass(F) = 1..m
           /\ \A i \in 1..m : /\ NormalizePass(F)[i] = default_normalizers(F, i)
                              /\ Retold(F[i], default_normalizers(F, i))
           /\ Ordered(NormalizePass(F))
           /\ n \in Nat /\ DOMAIN out = 1..n
           /\ \A i \in 1..n : /\ g[i] \in 1..m /\ out[i] = default_normalizers(F, g[i])
                              /\ ~default_filters(NormalizePass(F), g[i], CoalescedIndexes(F))
           /\ \A i, j \in 1..n : i < j <=> g[i] < g[j]
           /\ Ordered(out)
           /\ \A i \in 1..m : ~default_filters(NormalizePass(F), i, CoalescedIndexes(F))
                                 => \E k \in 1..n : g[k] = i
<1>1. /\ m \in Nat /\ Len(F) = m /\ DOMAIN F = 1..m /\ Ordered(F)
      /\ \A i \in 1..m : IsAction(F[i])
  BY FirstPass
<1>2. PICK N : N = NormalizePass(F)
  OBVIOUS
<1>3. DOMAIN N = 1..m /\ \A i \in 1..m : N[i] = default_normalizers(F, i)
  BY <1>1, <1>2 DEF NormalizePass
<1>4. \A i \in 1..m : Retold(F[i], default_normalizers(F, i))
  BY <1>1, Normalized
<1>5. \A i \in 1..m : N[i].sequence = F[i].sequence
  BY <1>3, <1>4 DEF Retold
<1>6. Ordered(N)
  BY <1>1, <1>3, <1>5, OrderedRetold
<1>7. PICK M : M = CoalescedIndexes(F)
  OBVIOUS
<1>8. Picks(N, M, n, g) /\ out = Selected(N, n, g)
  BY <1>2, <1>7 DEF Engine
<1>9. /\ n \in Nat
      /\ \A i \in 1..n : g[i] \in Kept(N, M)
      /\ \A i, j \in 1..n : i < j <=> g[i] < g[j]
      /\ \A i \in Kept(N, M) : \E k \in 1..n : g[k] = i
  BY <1>8 DEF Picks
<1>10. \A i : i \in Kept(N, M) <=> i \in 1..m /\ ~default_filters(N, i, M)
  BY <1>3 DEF Kept
<1>11. DOMAIN out = 1..n /\ \A i \in 1..n : out[i] = N[g[i]]
  BY <1>8 DEF Selected
<1>12. \A i \in 1..n : /\ g[i] \in 1..m /\ out[i] = default_normalizers(F, g[i])
                       /\ ~default_filters(N, g[i], M)
  BY <1>3, <1>9, <1>10, <1>11
<1>13. Ordered(out)
  BY <1>3, <1>6, <1>8, <1>9, <1>12, OrderedSelected
<1> QED
  BY <1>2, <1>3, <1>4, <1>6, <1>7, <1>9, <1>10, <1>11, <1>12, <1>13

\* The filter of followers knows them by their numbers.
LEMMA MarkedFacts ==
    ASSUME NEW F, NEW m \in Nat, DOMAIN F = 1..m, Ordered(F), NEW i \in 1..m
    PROVE  F[i].sequence \in CoalescedIndexes(F) <=> InBurst(F, i)
<1>1. InBurst(F, i) => F[i].sequence \in CoalescedIndexes(F)
  BY DEF CoalescedIndexes
<1>2. ASSUME F[i].sequence \in CoalescedIndexes(F) PROVE InBurst(F, i)
  <2>1. PICK j \in 1..m : InBurst(F, j) /\ F[i].sequence = F[j].sequence
    BY <1>2 DEF CoalescedIndexes
  <2>2. ~(F[i].sequence < F[j].sequence) /\ ~(F[j].sequence < F[i].sequence)
    <3>1. PICK x \in Int : x = F[i].sequence /\ x = F[j].sequence
      BY <2>1 DEF Ordered
    <3>2. ~(x < x)
      OBVIOUS
    <3> QED
      BY <3>1, <3>2
  <2>3. ~(i < j) /\ ~(j < i)
    BY <2>2 DEF Ordered
  <2>4. i = j
    BY <2>3
  <2> QED
    BY <2>1, <2>4
<1> QED
  BY <1>1, <1>2

\* Lists with the same navigations have the same pages.
LEMMA SameNavs ==
    ASSUME NEW as, NEW bs, NEW m, DOMAIN as = 1..m, DOMAIN bs = 1..m,
           \A i \in 1..m : bs[i].type = as[i].type /\ bs[i].sequence = as[i].sequence,
           \A i \in 1..m : as[i].type = "navigate" => bs[i].text.word = as[i].text.word,
           m \in Nat, NEW before
    PROVE  Page(bs, before) = Page(as, before)
<1>1. Navs(bs, before) = Navs(as, before)
  BY DEF Navs
<1>2. PICK N \in SUBSET (1..m) : N = Navs(as, before)
  BY DEF Navs
<1>3. CASE N = {}
  BY <1>1, <1>2, <1>3, PageFacts
<1>4. CASE N # {}
  <2>0. N = Navs(bs, before)
    BY <1>1, <1>2
  <2>1. PICK i \in N : (\A j \in N : j <= i) /\ Page(as, before) = as[i].text.word
    BY <1>2, <1>4, PageFacts
  <2>2. PICK k \in N : (\A j \in N : j <= k) /\ Page(bs, before) = bs[k].text.word
    BY <1>4, <2>0, PageFacts
  <2>3. i \in 1..m /\ k \in 1..m
    BY <1>2, <2>1, <2>2
  <2>4. i <= k /\ k <= i
    BY <2>1, <2>2
  <2>5. i = k
    BY <2>3, <2>4
  <2>6. as[i].type = "navigate"
    BY <1>2, <2>1 DEF Navs
  <2> QED
    BY <2>1, <2>2, <2>3, <2>5, <2>6
<1> QED
  BY <1>3, <1>4

LEMMA RecordedFacts ==
    ASSUME NEW in, Recorded(in)
    PROVE  /\ Len(in) \in Nat /\ DOMAIN in = 1..Len(in)
           /\ Ordered(in) /\ NavsStay(in, {})
<1>1. PICK x \in Nat : x = Len(in)
  BY DEF Recorded
<1>2. DOMAIN in = 1..x
  BY <1>1 DEF Recorded
<1>3. \A i \in 1..x : in[i].sequence = i - 1
  BY <1>1 DEF Recorded
<1>4. \A i \in 1..x : in[i].type = "navigate" => in[i].enabled
  BY <1>1 DEF Recorded
<1>5. Ordered(in)
  <2>1. \A i \in 1..x : in[i].sequence \in Int
    BY <1>3
  <2>2. \A i, j \in 1..x : i < j <=> in[i].sequence < in[j].sequence
    BY <1>3
  <2> QED
    BY <1>2, <2>1, <2>2, Zenon DEF Ordered
<1>6. NavsStay(in, {})
  BY <1>2, <1>4 DEF NavsStay
<1> QED
  BY <1>1, <1>2, <1>5, <1>6

\* Replay is always on the page where the user was.
LEMMA PagesStay ==
    ASSUME NEW in, NEW m, NEW f, NEW F, NEW n, NEW g, NEW out,
           Engine(in, m, f, F, n, g, out), NEW before \in Int
    PROVE  Page(out, before) = Page(in, before)
<1> DEFINE N == NormalizePass(F)
           M == CoalescedIndexes(F)
<1>1. PICK x \in Nat : DOMAIN in = 1..x /\ Ordered(in) /\ NavsStay(in, {})
  BY RecordedFacts DEF Engine
<1>2. Page(F, before) = Page(in, before)
  <2>1. Picks(in, {}, m, f) /\ F = Selected(in, m, f)
    BY DEF Engine
  <2> QED
    BY <1>1, <2>1, PageFiltered
<1>3. /\ m \in Nat /\ Len(F) = m /\ DOMAIN F = 1..m /\ Ordered(F)
      /\ \A i \in 1..m : IsAction(F[i]) /\ F[i].enabled
  BY FirstPass
<1>4. /\ DOMAIN N = 1..m /\ Ordered(N)
      /\ \A i \in 1..m : N[i] = default_normalizers(F, i) /\ Retold(F[i], N[i])
  BY SecondPass
<1> HIDE DEF N, M
<1>5. Page(N, before) = Page(F, before)
  <2>1. \A i \in 1..m : N[i].type = F[i].type /\ N[i].sequence = F[i].sequence
    BY <1>4 DEF Retold
  <2>2. ASSUME NEW i \in 1..m, F[i].type = "navigate"
        PROVE  N[i].text.word = F[i].text.word
    <3>1. ~Leads(F, i)
      BY <2>2 DEF Leads, IsInput
    <3>2. m \in Nat /\ Len(F) = m /\ \A j \in 1..m : IsAction(F[j])
      BY <1>3
    <3>3. default_normalizers(F, i).text.word = F[i].text.word
      BY <3>1, <3>2, Normalized
    <3> QED
      BY <1>4, <3>3
  <2>3. m \in Nat /\ DOMAIN F = 1..m /\ DOMAIN N = 1..m
    BY <1>3, <1>4
  <2> QED
    BY <2>1, <2>2, <2>3, SameNavs
<1>6. NavsStay(N, M)
  <2>1. ASSUME NEW i \in 1..m, N[i].type = "navigate"
        PROVE  N[i].enabled /\ N[i].sequence \notin M
    <3>1. F[i].type = "navigate" /\ N[i].enabled /\ N[i].sequence = F[i].sequence
      BY <1>3, <1>4, <2>1 DEF Retold
    <3>2. ~InBurst(F, i)
      BY <3>1 DEF InBurst, SameField, IsInput
    <3> QED
      BY <1>3, <3>1, <3>2, MarkedFacts DEF M
  <2> QED
    BY <1>4, <2>1 DEF NavsStay
<1>7. Page(out, before) = Page(N, before)
  <2>1. Picks(N, M, n, g) /\ out = Selected(N, n, g)
    BY DEF Engine, N, M
  <2> QED
    BY <1>3, <1>4, <1>6, <2>1, PageFiltered
<1> QED
  BY <1>2, <1>5, <1>7

\* What no filter of the second pass rejects is saved.
LEMMA KeptIsSaved ==
    ASSUME NEW in, NEW m, NEW f, NEW F, NEW n, NEW g, NEW out,
           Engine(in, m, f, F, n, g, out), NEW i \in 1..m,
           ~default_filters(NormalizePass(F), i, CoalescedIndexes(F))
    PROVE  F[i].sequence \in {out[p].sequence : p \in DOMAIN out}
<1>1. PICK p \in 1..n : g[p] = i
  BY SecondPass
<1>2. out[p] = default_normalizers(F, i) /\ DOMAIN out = 1..n
  BY <1>1, SecondPass
<1>3. Retold(F[i], default_normalizers(F, i))
  BY SecondPass
<1> QED
  BY <1>2, <1>3 DEF Retold

\* So is what is neither input nor navigation, if its target was enabled.
LEMMA OthersAreSaved ==
    ASSUME NEW in, NEW m, NEW f, NEW F, NEW n, NEW g, NEW out,
           Engine(in, m, f, F, n, g, out),
           NEW i \in 1..Len(in), in[i].enabled, ~IsInput(in[i]), in[i].type # "navigate"
    PROVE  /\ in[i].sequence \in {out[p].sequence : p \in DOMAIN out}
           /\ \E k \in 1..m : f[k] = i
<1>1. ~default_filters(in, i, {})
  BY DEF default_filters, DropFocusBlurOnly, DropDuplicateNavigate, DropDisabledTarget,
         DropCoalescedFollowers
<1>2. PICK k \in 1..m : f[k] = i
  BY <1>1, FirstPass
<1>3. m \in Nat /\ DOMAIN F = 1..m /\ Ordered(F) /\ F[k] = in[i] /\ F[k].enabled
  BY <1>2, FirstPass
<1>4. PICK N : N = NormalizePass(F)
  OBVIOUS
<1>5. N[k] = default_normalizers(F, k) /\ Retold(F[k], N[k])
  BY <1>4, SecondPass
<1>6. N[k].sequence = F[k].sequence /\ N[k].type = in[i].type /\ N[k].enabled
  BY <1>3, <1>5 DEF Retold
<1>7. ~InBurst(F, k)
  BY <1>3 DEF InBurst, SameField
<1>8. N[k].sequence \notin CoalescedIndexes(F)
  BY <1>3, <1>6, <1>7, MarkedFacts
<1>9. ~default_filters(N, k, CoalescedIndexes(F))
  BY <1>6, <1>8
     DEF default_filters, DropFocusBlurOnly, DropDuplicateNavigate, DropDisabledTarget,
         DropCoalescedFollowers, IsInput
<1>10. F[k].sequence \in {out[p].sequence : p \in DOMAIN out}
  BY <1>4, <1>9, KeptIsSaved
<1> QED
  BY <1>2, <1>3, <1>10

-----------------------------------------------------------------------------
(* What goes. *)

HasText(a) == a.text.word # ""

LEMMA EmptyHasNone == ASSUME NEW a, HasText(a) PROVE a.text # EmptyText
<1>1. EmptyText.word = ""
  BY DEF EmptyText
<1> QED
  BY <1>1 DEF HasText

\* An input with text stays in the first pass, and in the second unless a burst
\* goes on before it or after it.
LEMMA InputsWithText ==
    ASSUME NEW in, NEW m, NEW f, NEW F, NEW n, NEW g, NEW out,
           Engine(in, m, f, F, n, g, out),
           NEW i \in 1..Len(in), in[i].enabled, IsInput(in[i]), HasText(in[i])
    PROVE  \E k \in 1..m : f[k] = i
<1>1. in[i].text # EmptyText
  BY EmptyHasNone
<1>2. ~default_filters(in, i, {})
  BY <1>1
     DEF default_filters, DropFocusBlurOnly, DropDuplicateNavigate, DropDisabledTarget,
         DropCoalescedFollowers, IsInput
<1> QED
  BY <1>2, FirstPass

\* An input that has text after the normalizers stays in the second pass unless it
\* goes on with a burst.
LEMMA InputStays ==
    ASSUME NEW in, NEW m, NEW f, NEW F, NEW n, NEW g, NEW out,
           Engine(in, m, f, F, n, g, out),
           NEW k \in 1..m, IsInput(F[k]), ~InBurst(F, k),
           HasText(default_normalizers(F, k))
    PROVE  ~default_filters(NormalizePass(F), k, CoalescedIndexes(F))
<1>1. m \in Nat /\ DOMAIN F = 1..m /\ Ordered(F) /\ F[k].enabled
  BY FirstPass
<1>2. PICK N : N = NormalizePass(F)
  OBVIOUS
<1>3. N[k] = default_normalizers(F, k) /\ Retold(F[k], N[k])
  BY <1>2, SecondPass
<1>4. N[k].sequence = F[k].sequence /\ N[k].type = "input" /\ N[k].enabled
  BY <1>1, <1>3 DEF Retold, IsInput
<1>5. N[k].text # EmptyText
  BY <1>3, EmptyHasNone
<1>6. N[k].sequence \notin CoalescedIndexes(F)
  BY <1>1, <1>4, MarkedFacts
<1>7. ~default_filters(N, k, CoalescedIndexes(F))
  BY <1>4, <1>5, <1>6
     DEF default_filters, DropFocusBlurOnly, DropDuplicateNavigate, DropDisabledTarget,
         DropCoalescedFollowers
<1> QED
  BY <1>2, <1>7

\* A burst that goes on from one action to the next in F is seen in what was recorded.
LEMMA BurstSeen ==
    ASSUME NEW in, NEW m, NEW f, NEW F, NEW n, NEW g, NEW out,
           Engine(in, m, f, F, n, g, out),
           NEW k \in 1..m, k > 1, InBurst(F, k)
    PROVE  /\ k - 1 \in 1..m
           /\ f[k - 1] \in 1..Len(in) /\ f[k] \in 1..Len(in) /\ f[k - 1] # f[k]
           /\ SameField(in[f[k - 1]], in[f[k]])
           /\ in[f[k - 1]].enabled /\ in[f[k]].enabled
           /\ in[f[k]].time - in[f[k - 1]].time \in -BurstGap..BurstGap
           /\ in[f[k - 1]].time - in[f[k]].time \in -BurstGap..BurstGap
<1>1. m \in Nat
  BY FirstPass
<1>2. PICK h \in 1..m : h = k - 1 /\ h < k /\ h <= k
  BY <1>1
<1>3. /\ f[h] \in 1..Len(in) /\ f[k] \in 1..Len(in)
      /\ F[h] = in[f[h]] /\ F[k] = in[f[k]]
      /\ F[h].enabled /\ F[k].enabled
      /\ F[h].time \in Int /\ F[k].time \in Int
  BY <1>2, FirstPass
<1>4. F[h].time <= F[k].time
  BY <1>2, FirstPass
<1>5. SameField(F[h], F[k]) /\ F[k].time - F[h].time <= BurstGap
  BY <1>2 DEF InBurst
<1>6. PICK a \in Int, b \in Int : a = F[h].time /\ b = F[k].time
  BY <1>3
<1>7. a <= b /\ b - a <= BurstGap
  BY <1>4, <1>5, <1>6
<1>8. b - a \in -BurstGap..BurstGap /\ a - b \in -BurstGap..BurstGap
  BY <1>7, HeuristicAssumption
<1>9. f[h] # f[k]
  <2>1. f[h] < f[k]
    BY <1>2, FirstPass
  <2>2. PICK x \in Int : x = f[k]
    BY <1>3
  <2>3. ~(x < x)
    OBVIOUS
  <2> QED
    BY <2>1, <2>2, <2>3
<1> QED
  BY <1>2, <1>3, <1>5, <1>6, <1>8, <1>9

\* An input with text goes only when a burst goes on around it.
LEMMA InputsGoInBursts ==
    ASSUME NEW in, NEW m, NEW f, NEW F, NEW n, NEW g, NEW out,
           Engine(in, m, f, F, n, g, out),
           NEW i \in 1..Len(in), in[i].enabled, IsInput(in[i]), HasText(in[i])
    PROVE  \/ in[i].sequence \in {out[p].sequence : p \in DOMAIN out}
           \/ \E j \in (1..Len(in)) \ {i} :
                 /\ SameField(in[i], in[j]) /\ in[j].enabled
                 /\ in[j].time - in[i].time \in -BurstGap..BurstGap
<1>1. PICK k \in 1..m : f[k] = i
  BY InputsWithText
<1>2. /\ m \in Nat /\ Len(F) = m /\ F[k] = in[i]
      /\ \A j \in 1..m : IsAction(F[j])
  BY <1>1, FirstPass
<1>3. CASE InBurst(F, k)
  <2>1. k > 1
    BY <1>3 DEF InBurst
  <2>2. PICK j : j = f[k - 1]
    OBVIOUS
  <2>3. /\ j \in 1..Len(in) /\ j # i /\ SameField(in[j], in[i]) /\ in[j].enabled
        /\ in[j].time - in[i].time \in -BurstGap..BurstGap
    BY <1>1, <1>3, <2>1, <2>2, BurstSeen
  <2>4. SameField(in[i], in[j])
    BY <2>3 DEF SameField
  <2> QED
    BY <2>3, <2>4
<1>4. CASE ~InBurst(F, k) /\ Burst(F, k) # {}
  <2>1. PICK j \in Burst(F, k) : TRUE
    BY <1>4
  <2>2. j \in (k + 1)..m /\ \A h \in (k + 1)..j : InBurst(F, h)
    BY <1>2, <2>1 DEF Burst
  <2>3. PICK h \in 1..m : h = k + 1 /\ h > 1 /\ h - 1 = k /\ h \in (k + 1)..j
    BY <1>2, <2>2
  <2>4. InBurst(F, h)
    BY <2>2, <2>3
  <2>5. PICK l : l = f[h]
    OBVIOUS
  <2>6. /\ l \in 1..Len(in) /\ i # l /\ SameField(in[i], in[l]) /\ in[l].enabled
        /\ in[l].time - in[i].time \in -BurstGap..BurstGap
    BY <1>1, <2>3, <2>4, <2>5, BurstSeen
  <2> QED
    BY <2>6
<1>5. CASE ~InBurst(F, k) /\ Burst(F, k) = {}
  <2>1. ~Leads(F, k)
    BY <1>5 DEF Leads
  <2>2. default_normalizers(F, k).text.word = F[k].text.word
    BY <1>2, <2>1, Normalized
  <2>3. HasText(default_normalizers(F, k))
    BY <1>2, <2>2 DEF HasText
  <2>4. ~default_filters(NormalizePass(F), k, CoalescedIndexes(F))
    BY <1>2, <1>5, <2>3, InputStays
  <2> QED
    BY <1>2, <2>4, KeptIsSaved
<1> QED
  BY <1>3, <1>4, <1>5

\* OnlyNoiseGoes of what was recorded and what is saved.
NoiseGone(in, out) ==
    LET seqs == {out[i].sequence : i \in DOMAIN out}
    IN  /\ \A i, j \in DOMAIN out : i < j => out[i].sequence < out[j].sequence
        /\ \A i \in DOMAIN in :
            /\ Page(in, in[i].sequence + 1) = Page(out, in[i].sequence + 1)
            /\ in[i].enabled /\ in[i].type \in {"click", "select", "key_press"}
                 => in[i].sequence \in seqs
            /\ in[i].enabled /\ IsInput(in[i]) /\ in[i].text.word # ""
                 => \/ in[i].sequence \in seqs
                    \/ \E j \in DOMAIN in \ {i} :
                          /\ SameField(in[i], in[j]) /\ in[j].enabled
                          /\ in[j].time - in[i].time \in -BurstGap..BurstGap

\* What the engine leaves out is noise.
LEMMA EngineDropsNoise ==
    ASSUME NEW in, NEW m, NEW f, NEW F, NEW n, NEW g, NEW out,
           Engine(in, m, f, F, n, g, out)
    PROVE  NoiseGone(in, out)
<1>1. Len(in) \in Nat /\ DOMAIN in = 1..Len(in) /\ Ordered(in)
  BY RecordedFacts DEF Engine
<1>2. Ordered(out)
  BY SecondPass
<1>3. \A i, j \in DOMAIN out : i < j => out[i].sequence < out[j].sequence
  BY <1>2 DEF Ordered
<1>4. ASSUME NEW i \in DOMAIN in
      PROVE  Page(in, in[i].sequence + 1) = Page(out, in[i].sequence + 1)
  <2>1. in[i].sequence \in Int
    BY <1>1 DEF Ordered
  <2>2. PICK b \in Int : b = in[i].sequence + 1
    BY <2>1
  <2> QED
    BY <2>2, PagesStay
<1>5. ASSUME NEW i \in DOMAIN in, in[i].enabled, in[i].type \in {"click", "select", "key_press"}
      PROVE  in[i].sequence \in {out[p].sequence : p \in DOMAIN out}
  <2>1. ~IsInput(in[i]) /\ in[i].type # "navigate"
    BY <1>5 DEF IsInput
  <2> QED
    BY <1>1, <1>5, <2>1, OthersAreSaved
<1>6. ASSUME NEW i \in DOMAIN in, in[i].enabled, IsInput(in[i]), HasText(in[i])
      PROVE  \/ in[i].sequence \in {out[p].sequence : p \in DOMAIN out}
             \/ \E j \in DOMAIN in \ {i} :
                   /\ SameField(in[i], in[j]) /\ in[j].enabled
                   /\ in[j].time - in[i].time \in -BurstGap..BurstGap
  BY <1>1, <1>6, InputsGoInBursts
<1> QED
  BY <1>3, <1>4, <1>5, <1>6 DEF NoiseGone, HasText

-----------------------------------------------------------------------------
(* What a field holds at a moment. *)

\* The inputs into a field before a moment.
Inputs(as, field, before) ==
    {i \in DOMAIN as : /\ IsInput(as[i]) /\ as[i].enabled
                       /\ as[i].selector = field
                       /\ as[i].sequence < before}

\* LastInput is the last of them.
LEMMA LastInputFacts ==
    ASSUME NEW as, NEW n \in Nat, DOMAIN as = 1..n, NEW field, NEW before
    PROVE  /\ LastInput(as, field, before) # 0 =>
                 /\ LastInput(as, field, before) \in Inputs(as, field, before)
                 /\ \A j \in Inputs(as, field, before) : j <= LastInput(as, field, before)
           /\ \A p \in Inputs(as, field, before) :
                 (\A j \in Inputs(as, field, before) : j <= p)
                    => LastInput(as, field, before) = p
<1>1. PICK I \in SUBSET (1..n) : I = Inputs(as, field, before)
  BY DEF Inputs
<1>2. LastInput(as, field, before) =
         IF I = {} THEN 0 ELSE CHOOSE i \in I : \A j \in I : j <= i
  BY <1>1 DEF LastInput, Inputs
<1>3. ASSUME LastInput(as, field, before) # 0
      PROVE  /\ LastInput(as, field, before) \in I
             /\ \A j \in I : j <= LastInput(as, field, before)
  <2>1. I # {}
    BY <1>2, <1>3
  <2>2. \E i \in I : \A j \in I : j <= i
    BY <1>1, <2>1, LastOfPlaces
  <2>3. PICK i \in I : i = CHOOSE k \in I : \A j \in I : j <= k
    BY <2>2
  <2>4. \A j \in I : j <= i
    BY <2>2, <2>3
  <2>5. LastInput(as, field, before) = i
    BY <1>2, <2>1, <2>3
  <2> QED
    BY <2>3, <2>4, <2>5
<1>4. ASSUME NEW p \in I, \A j \in I : j <= p
      PROVE  LastInput(as, field, before) = p
  <2>1. PICK i \in I : i = CHOOSE k \in I : \A j \in I : j <= k
    BY <1>4
  <2>2. \A j \in I : j <= i
    BY <1>4, <2>1
  <2>3. i <= p /\ p <= i
    BY <1>4, <2>2
  <2>4. i = p
    BY <1>1, <2>3
  <2> QED
    BY <1>2, <2>1, <2>4
<1> QED
  BY <1>1, <1>3, <1>4

\* The actions of the burst that action k is the last of.
BurstTo(F, k) ==
    {j \in 1..k : /\ IsInput(F[j]) /\ F[j].selector = F[k].selector
                  /\ \A h \in (j + 1)..k : InBurst(F, h)}

\* An input is in a burst, perhaps alone, that a leader begins.
LEMMA BurstHasLeader ==
    ASSUME NEW F, NEW m \in Nat, NEW k \in 1..m, IsInput(F[k])
    PROVE  \E l \in 1..k : /\ ~InBurst(F, l) /\ IsInput(F[l])
                           /\ F[l].selector = F[k].selector
                           /\ \A h \in (l + 1)..k : InBurst(F, h)
<1>1. PICK P \in SUBSET (1..k) : P = BurstTo(F, k)
  BY DEF BurstTo
<1>2. k \in P
  <2>1. k \in 1..k /\ \A h \in (k + 1)..k : InBurst(F, h)
    OBVIOUS
  <2> QED
    BY <1>1, <2>1 DEF BurstTo
<1>3. k \in Nat
  OBVIOUS
<1>4. PICK l \in P : l <= k /\ (l > 1 => l - 1 \notin P)
  BY <1>2, <1>3, RunBack
<1>5. /\ l \in 1..k /\ IsInput(F[l]) /\ F[l].selector = F[k].selector
      /\ \A h \in (l + 1)..k : InBurst(F, h)
  BY <1>1, <1>4 DEF BurstTo
<1>6. ASSUME InBurst(F, l) PROVE FALSE
  <2>1. l > 1 /\ IsInput(F[l - 1]) /\ F[l - 1].selector = F[l].selector
    BY <1>6 DEF InBurst, SameField
  <2>2. PICK d \in 1..k : d = l - 1 /\ d + 1 = l
    BY <1>5, <2>1
  <2>3. \A h \in (d + 1)..k : h = l \/ h \in (l + 1)..k
    BY <1>5, <2>2
  <2>4. \A h \in (d + 1)..k : InBurst(F, h)
    BY <1>5, <1>6, <2>3
  <2>5. IsInput(F[d]) /\ F[d].selector = F[k].selector
    BY <1>5, <2>1, <2>2
  <2>6. d \in P
    BY <1>1, <2>4, <2>5 DEF BurstTo
  <2> QED
    BY <1>4, <2>1, <2>2, <2>6
<1> QED
  BY <1>5, <1>6

\* The leader of the burst that action k ends takes the word of action k.
LEMMA LeaderHasWord ==
    ASSUME NEW F, NEW m \in Nat, Len(F) = m, \A j \in 1..m : IsAction(F[j]),
           NEW k \in 1..m, k < m => ~InBurst(F, k + 1),
           NEW l \in 1..k, ~InBurst(F, l), IsInput(F[l]),
           \A h \in (l + 1)..k : InBurst(F, h)
    PROVE  default_normalizers(F, l).text.word = F[k].text.word
<1>1. l \in 1..m
  OBVIOUS
<1>2. ASSUME NEW j \in Burst(F, l) PROVE j <= k
  <2>1. j \in (l + 1)..m /\ \A h \in (l + 1)..j : InBurst(F, h)
    BY DEF Burst
  <2> SUFFICES ASSUME ~(j <= k) PROVE FALSE
    OBVIOUS
  <2>2. k < m /\ k + 1 \in (l + 1)..j
    BY <2>1
  <2> QED
    BY <2>1, <2>2
<1>3. CASE l = k
  <2>1. Burst(F, l) = {}
    <3> SUFFICES ASSUME NEW j \in Burst(F, l) PROVE FALSE
      OBVIOUS
    <3>1. j \in (l + 1)..m /\ j <= k
      BY <1>2 DEF Burst
    <3> QED
      BY <1>3, <3>1
  <2>2. ~Leads(F, l)
    BY <2>1 DEF Leads
  <2> QED
    BY <1>1, <1>3, <2>2, Normalized
<1>4. CASE l # k
  <2>1. k \in (l + 1)..m
    BY <1>4
  <2>2. k \in Burst(F, l)
    BY <2>1 DEF Burst
  <2>3. Leads(F, l)
    BY <2>2 DEF Leads
  <2>4. PICK last \in Burst(F, l) :
            /\ \A j \in Burst(F, l) : j <= last
            /\ default_normalizers(F, l).text = F[last].text
    BY <1>1, <2>3, Normalized
  <2>5. k <= last /\ last <= k
    BY <1>2, <2>2, <2>4
  <2>6. last \in (l + 1)..m
    BY <2>4 DEF Burst
  <2>7. last = k
    BY <2>5, <2>6
  <2> QED
    BY <2>4, <2>7
<1> QED
  BY <1>3, <1>4

\* A moment: a click on an enabled target, or the end.
Moment(in, before) ==
    \/ before = Len(in)
    \/ \E c \in 1..Len(in) : /\ in[c].type = "click" /\ in[c].enabled
                             /\ before = in[c].sequence

\* No burst goes on from before a moment to after it.
LEMMA MomentEndsBurst ==
    ASSUME NEW in, NEW m, NEW f, NEW F, NEW n, NEW g, NEW out,
           Engine(in, m, f, F, n, g, out),
           NEW field, NEW before, Moment(in, before),
           NEW k \in 1..m, f[k] \in Inputs(in, field, before),
           \A j \in Inputs(in, field, before) : j <= f[k],
           k < m
    PROVE  ~InBurst(F, k + 1)
<1>1. PICK x \in Nat : /\ x = Len(in) /\ DOMAIN in = 1..x
                       /\ \A i \in 1..x : in[i].sequence = i - 1
  <2>1. Recorded(in)
    BY DEF Engine
  <2> QED
    BY <2>1, RecordedFacts DEF Recorded
<1>2. m \in Nat
  BY FirstPass
<1>3. PICK q \in 1..m : q = k + 1 /\ k < q
  BY <1>2
<1>4. PICK a \in 1..x, b \in 1..x : a = f[k] /\ b = f[q]
  BY <1>1, FirstPass
<1>5. a < b /\ F[k] = in[a] /\ F[q] = in[b] /\ F[q].enabled
  BY <1>3, <1>4, FirstPass
<1>6. in[a].selector = field /\ in[a].sequence < before
  BY <1>4 DEF Inputs
<1> SUFFICES ASSUME InBurst(F, q) PROVE FALSE
  BY <1>3
<1>7. SameField(in[a], in[b])
  <2>1. q - 1 = k
    BY <1>3
  <2> QED
    BY <1>5, <2>1 DEF InBurst
<1>8. IsInput(in[b]) /\ in[b].selector = field
  BY <1>6, <1>7 DEF SameField
<1>9. ~(in[b].sequence < before)
  <2> SUFFICES ASSUME in[b].sequence < before PROVE FALSE
    OBVIOUS
  <2>1. b \in Inputs(in, field, before)
    BY <1>1, <1>5, <1>8 DEF Inputs
  <2>2. b <= a
    BY <1>4, <2>1
  <2> QED
    BY <1>5, <2>2
<1>10. in[a].sequence = a - 1 /\ in[b].sequence = b - 1
  BY <1>1
<1>11. CASE before = x
  <2>1. ~(b - 1 < x)
    BY <1>9, <1>10, <1>11
  <2> QED
    BY <2>1
<1>12. CASE \E c \in 1..x : in[c].type = "click" /\ in[c].enabled /\ before = in[c].sequence
  <2>1. PICK c \in 1..x : in[c].type = "click" /\ in[c].enabled /\ before = c - 1
    BY <1>1, <1>12
  <2>2. a - 1 < c - 1 /\ ~(b - 1 < c - 1)
    BY <1>6, <1>9, <1>10, <2>1
  <2>3. ~IsInput(in[c]) /\ in[c].type # "navigate"
    BY <2>1 DEF IsInput
  <2>4. c # b
    BY <1>8, <2>3
  <2>5. a < c /\ c < b
    BY <2>2, <2>4
  <2>6. PICK r \in 1..m : f[r] = c
    <3>1. c \in 1..Len(in) /\ in[c].enabled
      BY <1>1, <2>1
    <3> QED
      BY <2>3, <3>1, OthersAreSaved
  <2>7. k < r /\ r < q
    <3>1. f[k] < f[r] /\ f[r] < f[q]
      BY <1>4, <2>5, <2>6
    <3> QED
      BY <3>1, FirstPass
  <2> QED
    BY <1>3, <2>7
<1> QED
  BY <1>1, <1>11, <1>12 DEF Moment

\* What the user had typed into a field is what replay has in it.
LEMMA FieldReplaysAlike ==
    ASSUME NEW in, NEW m, NEW f, NEW F, NEW n, NEW g, NEW out,
           Engine(in, m, f, F, n, g, out),
           NEW field, NEW before, Moment(in, before),
           LastInput(in, field, before) # 0,
           HasText(in[LastInput(in, field, before)])
    PROVE  /\ LastInput(out, field, before) # 0
           /\ out[LastInput(out, field, before)].text.word
                 = in[LastInput(in, field, before)].text.word
<1>1. PICK x \in Nat : x = Len(in) /\ DOMAIN in = 1..x
  BY RecordedFacts DEF Engine
<1>2. PICK t : t = LastInput(in, field, before)
  OBVIOUS
<1>3. t \in Inputs(in, field, before) /\ \A j \in Inputs(in, field, before) : j <= t
  BY <1>1, <1>2, LastInputFacts
<1>4. /\ t \in 1..x /\ IsInput(in[t]) /\ in[t].enabled
      /\ in[t].selector = field /\ in[t].sequence < before
  BY <1>1, <1>3 DEF Inputs
<1>5. PICK k \in 1..m : f[k] = t
  BY <1>1, <1>2, <1>4, InputsWithText
<1>6. /\ m \in Nat /\ Len(F) = m /\ DOMAIN F = 1..m /\ Ordered(F)
      /\ F[k] = in[t]
      /\ \A j \in 1..m : IsAction(F[j])
  BY <1>5, FirstPass
<1>7. k < m => ~InBurst(F, k + 1)
  BY <1>3, <1>5, MomentEndsBurst
<1>8. PICK l \in 1..k : /\ ~InBurst(F, l) /\ IsInput(F[l])
                        /\ F[l].selector = F[k].selector
                        /\ \A h \in (l + 1)..k : InBurst(F, h)
  <2>1. m \in Nat /\ IsInput(F[k])
    BY <1>4, <1>6
  <2> QED
    BY <2>1, BurstHasLeader
<1>9. l \in 1..m
  BY <1>6
<1>10. default_normalizers(F, l).text.word = in[t].text.word
  <2>1. m \in Nat /\ Len(F) = m /\ \A j \in 1..m : IsAction(F[j])
    BY <1>6
  <2>2. default_normalizers(F, l).text.word = F[k].text.word
    BY <1>7, <1>8, <2>1, LeaderHasWord
  <2> QED
    BY <1>6, <2>2
<1>11. HasText(default_normalizers(F, l))
  BY <1>2, <1>10 DEF HasText
<1>12. ~default_filters(NormalizePass(F), l, CoalescedIndexes(F))
  BY <1>8, <1>9, <1>11, InputStays
<1>13. PICK p \in 1..n : g[p] = l
  BY <1>9, <1>12, SecondPass
<1>14. DOMAIN out = 1..n /\ n \in Nat /\ out[p] = default_normalizers(F, l)
  BY <1>13, SecondPass
<1>15. p \in Inputs(out, field, before)
  <2>1. Retold(F[l], out[p]) /\ F[l].enabled
    BY <1>9, <1>14, SecondPass, FirstPass
  <2>2. IsInput(out[p]) /\ out[p].enabled /\ out[p].selector = field
    BY <1>4, <1>6, <1>8, <2>1 DEF Retold, IsInput
  <2>3. out[p].sequence < before
    <3>1. out[p].sequence = F[l].sequence
      BY <2>1 DEF Retold
    <3>2. PICK u \in Int, v \in Int : u = F[l].sequence /\ v = F[k].sequence
      BY <1>6, <1>9 DEF Ordered
    <3>3. l = k \/ l < k
      BY <1>8
    <3>4. l < k => u < v
      BY <1>6, <1>9, <3>2 DEF Ordered
    <3>5. l = k => u = v
      BY <3>2
    <3>6. v < before
      BY <1>4, <1>6, <3>2
    <3>7. PICK w \in Int : w = before
      BY <1>1, RecordedFacts DEF Moment, Ordered, Engine
    <3>8. u < w
      BY <3>3, <3>4, <3>5, <3>6, <3>7
    <3> QED
      BY <3>1, <3>2, <3>7, <3>8
  <2> QED
    BY <1>14, <2>2, <2>3 DEF Inputs
<1>16. ASSUME NEW j \in Inputs(out, field, before) PROVE j <= p
  <2>1. j \in 1..n /\ IsInput(out[j]) /\ out[j].selector = field /\ out[j].sequence < before
    BY <1>14 DEF Inputs
  <2>2. PICK i \in 1..m : i = g[j]
    BY <2>1, SecondPass
  <2>3. /\ Retold(F[i], out[j])
        /\ ~default_filters(NormalizePass(F), i, CoalescedIndexes(F))
    BY <2>1, <2>2, SecondPass
  <2>4. ~InBurst(F, i)
    <3>1. NormalizePass(F)[i].sequence = F[i].sequence
      BY SecondPass DEF Retold
    <3>2. F[i].sequence \notin CoalescedIndexes(F)
      BY <2>3, <3>1 DEF default_filters, DropCoalescedFollowers
    <3> QED
      BY <1>6, <3>2, MarkedFacts
  <2>5. i <= k
    <3>1. F[i] = in[f[i]] /\ f[i] \in 1..x /\ F[i].enabled
      BY <1>1, FirstPass
    <3>2. f[i] \in Inputs(in, field, before)
      BY <1>1, <2>1, <2>3, <3>1 DEF Inputs, Retold, IsInput
    <3>3. f[i] <= f[k]
      BY <1>3, <1>5, <3>2
    <3>4. PICK a \in Int, b \in Int : a = f[i] /\ b = f[k]
      BY <1>4, <1>5, <3>1
    <3>5. ~(b < a)
      BY <3>3, <3>4
    <3>6. ~(k < i)
      BY <3>4, <3>5, FirstPass
    <3> QED
      BY <3>6
  <2>6. i <= l
    BY <1>8, <2>4, <2>5
  <2>7. ~(g[p] < g[j])
    BY <1>13, <2>2, <2>6
  <2>8. ~(p < j)
    BY <2>1, <2>7, SecondPass
  <2> QED
    BY <2>1, <2>8
<1>17. LastInput(out, field, before) = p
  BY <1>14, <1>15, <1>16, LastInputFacts
<1>18. p # 0
  OBVIOUS
<1> QED
  BY <1>2, <1>10, <1>14, <1>17, <1>18

-----------------------------------------------------------------------------
(* What a session has recorded. *)

\* time is when the first n of the events happened.
Timed(start, events, n, time) ==
    /\ time = [i \in 0..n |-> time[i]]
    /\ time[0] = start
    /\ \A i \in 1..n : time[i] = time[i - 1] + events[i].gap

LEMMA TimedOn ==
    ASSUME NEW start, NEW events, NEW n \in Nat, n > 0, NEW time, Timed(start, events, n - 1, time)
    PROVE  \E later : Timed(start, events, n, later)
<1> DEFINE later == [i \in 0..n |-> IF i = n THEN time[n - 1] + events[n].gap ELSE time[i]]
<1>1. PICK h \in Nat : h = n - 1 /\ h < n
  OBVIOUS
<1>2. time[0] = start /\ \A i \in 1..h : time[i] = time[i - 1] + events[i].gap
  BY <1>1 DEF Timed
<1>3. later[n] = time[h] + events[n].gap /\ \A i \in 0..h : later[i] = time[i]
  BY <1>1
<1>4. later = [i \in 0..n |-> later[i]]
  OBVIOUS
<1> HIDE DEF later
<1>5. later[0] = start
  BY <1>1, <1>2, <1>3
<1>6. ASSUME NEW i \in 1..n PROVE later[i] = later[i - 1] + events[i].gap
  <2>1. CASE i = n
    <3>1. i - 1 = h /\ h \in 0..h
      BY <1>1, <2>1
    <3> QED
      BY <1>3, <2>1, <3>1
  <2>2. CASE i # n
    <3>1. i \in 1..h /\ i \in 0..h /\ i - 1 \in 0..h
      BY <1>1, <2>2
    <3> QED
      BY <1>2, <1>3, <3>1
  <2> QED
    BY <2>1, <2>2
<1>7. Timed(start, events, n, later)
  BY <1>4, <1>5, <1>6 DEF Timed
<1> QED
  BY <1>7

\* Times is defined by a recursion that has a solution.
LEMMA TimesExist ==
    ASSUME NEW start, NEW events, NEW n \in Nat
    PROVE  \E time : Timed(start, events, n, time)
<1>1. PICK P : P = {k \in Nat : \E time : Timed(start, events, k, time)}
  OBVIOUS
<1>2. 0 \in P
  <2>1. PICK time : time = [i \in 0..0 |-> start]
    OBVIOUS
  <2>2. time = [i \in 0..0 |-> time[i]] /\ time[0] = start
    BY <2>1
  <2>3. Timed(start, events, 0, time)
    BY <2>2 DEF Timed
  <2> QED
    BY <1>1, <2>3
<1>3. ASSUME NEW k \in (0 + 1)..n, k - 1 \in P PROVE k \in P
  <2>1. k \in Nat /\ k > 0
    OBVIOUS
  <2>2. PICK time : Timed(start, events, k - 1, time)
    BY <1>1, <1>3
  <2>3. \E later : Timed(start, events, k, later)
    BY <2>1, <2>2, TimedOn
  <2> QED
    BY <1>1, <2>1, <2>3
<1>4. \A k \in 0..n : k \in P
  BY <1>2, <1>3, UpTo
<1>5. n \in P
  BY <1>4
<1> QED
  BY <1>1, <1>5

\* The times of a batch go on from the last one there was.
LEMMA TimesGoOn ==
    ASSUME NEW start \in Int, NEW n \in Nat, NEW events, Len(events) = n,
           \A i \in 1..n : events[i].gap \in Nat
    PROVE  /\ \A i \in 1..n : Times(start, events)[i] \in Int /\ start <= Times(start, events)[i]
           /\ \A i, j \in 1..n : i <= j => Times(start, events)[i] <= Times(start, events)[j]
<1>1. PICK old : Timed(start, events, n, old)
  BY TimesExist
<1>2. old = [i \in 0..n |-> IF i = 0 THEN start ELSE old[i - 1] + events[i].gap]
  <2>1. \A i \in 0..n : old[i] = IF i = 0 THEN start ELSE old[i - 1] + events[i].gap
    <3> SUFFICES ASSUME NEW i \in 0..n
                 PROVE  old[i] = IF i = 0 THEN start ELSE old[i - 1] + events[i].gap
      OBVIOUS
    <3>1. i # 0 => i \in 1..n
      OBVIOUS
    <3> QED
      BY <1>1, <3>1 DEF Timed
  <2>2. old = [i \in 0..n |-> old[i]]
    BY <1>1 DEF Timed
  <2> QED
    BY <2>1, <2>2
<1>3. PICK time : time = Times(start, events)
  OBVIOUS
<1>4. time = [i \in 0..n |-> IF i = 0 THEN start ELSE time[i - 1] + events[i].gap]
  <2>1. time = CHOOSE f : f = [i \in 0..n |-> IF i = 0 THEN start ELSE f[i - 1] + events[i].gap]
    BY <1>3 DEF Times
  <2> QED
    BY <1>2, <2>1
<1>5. time[0] = start /\ \A i \in 1..n : time[i] = time[i - 1] + events[i].gap
  BY <1>4
<1>6. \A i \in 0..n : time[i] \in Int
  <2>1. PICK P : P = {i \in 0..n : time[i] \in Int}
    OBVIOUS
  <2>2. 0 \in P
    BY <1>5, <2>1
  <2>3. ASSUME NEW i \in (0 + 1)..n, i - 1 \in P PROVE i \in P
    <3>1. i \in 1..n /\ i \in 0..n
      OBVIOUS
    <3>2. PICK x \in Int : x = time[i - 1]
      BY <2>1, <2>3
    <3>3. time[i] = x + events[i].gap /\ events[i].gap \in Nat
      BY <1>5, <3>1, <3>2
    <3>4. time[i] \in Int
      BY <3>3
    <3> QED
      BY <2>1, <3>1, <3>4
  <2>4. \A i \in 0..n : i \in P
    BY <2>2, <2>3, UpTo
  <2> QED
    BY <2>1, <2>4
<1>7. ASSUME NEW i \in 0..n PROVE \A j \in i..n : time[i] <= time[j]
  <2>1. PICK P : P = {j \in i..n : time[i] <= time[j]}
    OBVIOUS
  <2>2. i \in P
    <3>1. i \in i..n /\ time[i] \in Int
      BY <1>6
    <3> QED
      BY <2>1, <3>1
  <2>3. ASSUME NEW j \in (i + 1)..n, j - 1 \in P PROVE j \in P
    <3>1. j \in 1..n /\ j \in i..n /\ j - 1 \in 0..n
      OBVIOUS
    <3>2. PICK x \in Int, y \in Int : x = time[j - 1] /\ y = time[i]
      BY <1>6, <3>1
    <3>3. y <= x
      BY <2>1, <2>3, <3>2
    <3>4. time[j] = x + events[j].gap /\ events[j].gap \in Nat
      BY <1>5, <3>1, <3>2
    <3>5. y <= time[j]
      BY <3>3, <3>4
    <3> QED
      BY <2>1, <3>1, <3>2, <3>5
  <2>4. i \in Nat
    OBVIOUS
  <2>5. \A j \in i..n : j \in P
    BY <2>2, <2>3, <2>4, UpTo
  <2> QED
    BY <2>1, <2>5
<1>8. ASSUME NEW i \in 1..n PROVE time[i] \in Int /\ start <= time[i]
  <2>1. 0 \in 0..n /\ i \in 0..n
    OBVIOUS
  <2> QED
    BY <1>5, <1>6, <1>7, <2>1
<1>9. ASSUME NEW i \in 1..n, NEW j \in 1..n, i <= j PROVE time[i] <= time[j]
  <2>1. i \in 0..n /\ j \in i..n
    BY <1>9
  <2> QED
    BY <1>7, <2>1
<1> QED
  BY <1>3, <1>8, <1>9

LEMMA RecordIsAction ==
    ASSUME NEW a, NEW q, NEW w, NEW e, NEW r, NEW t, NEW s, NEW u, NEW v,
           t = [word |-> t.word, padded |-> t.padded],
           a = [sequence |-> q, type |-> w, selector |-> e, time |-> r,
                text |-> t, sensitive |-> s, enabled |-> u, look |-> v]
    PROVE  /\ IsAction(a) /\ a.sequence = q /\ a.time = r
           /\ a.type = w /\ a.enabled = u
<1>1. a = [sequence |-> a.sequence, type |-> a.type, selector |-> a.selector, time |-> a.time,
           text |-> a.text, sensitive |-> a.sensitive, enabled |-> a.enabled, look |-> a.look]
  OBVIOUS
<1>2. a.text = t /\ a.sequence = q /\ a.time = r /\ a.type = w /\ a.enabled = u
  OBVIOUS
<1>3. a.text = [word |-> a.text.word, padded |-> a.text.padded]
  BY <1>2
<1> QED
  BY <1>1, <1>2, <1>3 DEF IsAction

LEMMA EmptyIsText == EmptyText = [word |-> EmptyText.word, padded |-> EmptyText.padded]
BY DEF EmptyText

LEMMA TranslateFacts ==
    ASSUME NEW s \in Sessions, NEW e \in Events[s], NEW number, NEW time
    PROVE  /\ IsAction(translate(e, number, time))
           /\ translate(e, number, time).sequence = number
           /\ translate(e, number, time).time = time
           /\ translate(e, number, time).type = "navigate"
                 => translate(e, number, time).enabled
<1>1. PICK type : type = resolve_action_type(e)
  OBVIOUS
<1>2. PICK payload : payload = build_payload(type, e)
  OBVIOUS
<1>3. PICK context : context = build_context(e)
  OBVIOUS
<1>4. PICK text : text = payload.text
  OBVIOUS
<1>5. text = e.text \/ text = EmptyText
  BY <1>2, <1>4 DEF build_payload, input_payload, navigate_payload
<1>6. text = [word |-> text.word, padded |-> text.padded]
  <2>1. e.text = [word |-> e.text.word, padded |-> e.text.padded]
    BY HostAssumption
  <2> QED
    BY <1>5, <2>1, EmptyIsText
<1>7. PICK a : a = translate(e, number, time)
  OBVIOUS
<1>8. a = [sequence |-> number, type |-> type, selector |-> build_selector(e), time |-> time,
           text |-> text, sensitive |-> payload.sensitive,
           enabled |-> context.enabled, look |-> context.look]
  BY <1>1, <1>2, <1>3, <1>4, <1>7 DEF translate
<1>9. /\ IsAction(a) /\ a.sequence = number /\ a.time = time
      /\ a.type = type /\ a.enabled = context.enabled
  BY <1>6, <1>8, RecordIsAction
<1>10. type = "navigate" => e.event_type = "navigate"
  BY <1>1 DEF resolve_action_type, resolve_change_action_type
<1>11. context.enabled = e.is_enabled
  BY <1>3 DEF build_context
<1>12. e.event_type = "navigate" => e.is_enabled
  BY HostAssumption
<1> QED
  BY <1>7, <1>9, <1>10, <1>11, <1>12

\* What a batch adds to the record is recorded as what was there.
LEMMA BatchRecorded ==
    ASSUME NEW s \in Sessions, Recorded(held[s]), NEW n \in Nat, NEW events \in [1..n -> Events[s]]
    PROVE  Recorded(held[s] \o translated(s, events))
<1>1. PICK old : old = held[s]
  OBVIOUS
<1>2. PICK k \in Nat : k = Len(old)
  BY <1>1 DEF Recorded
<1>3. PICK start : start = IF k = 0 THEN 0 ELSE old[k].time
  OBVIOUS
<1>4. /\ old = [i \in 1..k |-> old[i]]
      /\ \A i \in 1..k : IsAction(old[i])
      /\ \A i \in 1..k : old[i].sequence = i - 1 /\ old[i].time \in Int
      /\ \A i \in 1..k : old[i].type = "navigate" => old[i].enabled
      /\ \A i, j \in 1..k : i <= j => old[i].time <= old[j].time
  BY <1>1, <1>2 DEF Recorded
<1>5. start \in Int /\ \A i \in 1..k : old[i].time <= start
  <2>1. CASE k = 0
    BY <1>3, <2>1
  <2>2. CASE k # 0
    <3>1. k \in 1..k /\ \A i \in 1..k : i <= k
      BY <2>2
    <3>2. start = old[k].time
      BY <1>3, <2>2
    <3> QED
      BY <1>4, <3>1, <3>2
  <2> QED
    BY <2>1, <2>2
<1>6. Len(events) = n /\ DOMAIN events = 1..n
  <2>1. events = [i \in 1..n |-> events[i]]
    OBVIOUS
  <2> QED
    BY <2>1, ListLength
<1>7. PICK time : time = Times(start, events)
  OBVIOUS
<1>8. /\ \A i \in 1..n : time[i] \in Int /\ start <= time[i]
      /\ \A i, j \in 1..n : i <= j => time[i] <= time[j]
  <2>1. \A i \in 1..n : events[i].gap \in Nat
    BY HostAssumption
  <2> QED
    BY <1>5, <1>6, <1>7, <2>1, TimesGoOn
<1>9. PICK new : new = translated(s, events)
  OBVIOUS
<1>10. new = [i \in 1..n |-> translate(events[i], k + i - 1, time[i])]
  BY <1>1, <1>2, <1>3, <1>6, <1>7, <1>9 DEF translated
<1>11. \A i \in 1..n : /\ IsAction(new[i]) /\ new[i].sequence = k + i - 1
                       /\ new[i].time = time[i]
                       /\ new[i].type = "navigate" => new[i].enabled
  <2> SUFFICES ASSUME NEW i \in 1..n
               PROVE  /\ IsAction(new[i]) /\ new[i].sequence = k + i - 1
                      /\ new[i].time = time[i]
                      /\ new[i].type = "navigate" => new[i].enabled
    OBVIOUS
  <2>1. new[i] = translate(events[i], k + i - 1, time[i])
    BY <1>10
  <2>2. events[i] \in Events[s]
    OBVIOUS
  <2> QED
    BY <2>1, <2>2, TranslateFacts
<1>12. PICK T : T = {old[i] : i \in 1..k} \cup {new[i] : i \in 1..n}
  OBVIOUS
<1>13. old \in Seq(T) /\ new \in Seq(T) /\ Len(new) = n
  <2>1. old \in [1..k -> T]
    BY <1>4, <1>12
  <2>2. new \in [1..n -> T]
    BY <1>10, <1>12
  <2>3. new = [i \in 1..n |-> new[i]]
    BY <1>10
  <2>4. Len(new) = n
    BY <2>3, ListLength
  <2>5. old \in Seq(T)
    BY <2>1, SeqDef
  <2>6. new \in Seq(T)
    BY <2>2, SeqDef
  <2> QED
    BY <2>4, <2>5, <2>6
<1>14. PICK w : w = old \o new
  OBVIOUS
<1>15. /\ w \in Seq(T) /\ Len(w) = k + n
       /\ \A i \in 1..k : w[i] = old[i]
       /\ \A i \in 1..Len(w) : \/ (i \in 1..k /\ w[i] = old[i])
                               \/ (i - k \in 1..n /\ w[i] = new[i - k])
  <2>1. old \in Seq(T) /\ new \in Seq(T)
    BY <1>13
  <2>2. old \o new \in Seq(T) /\ Len(old \o new) = Len(old) + Len(new)
    BY <2>1, Joined
  <2>3. \A i \in 1..Len(old) : (old \o new)[i] = old[i]
    BY <2>1, Joined
  <2>4. \A i \in 1..Len(old \o new) : \/ /\ i \in 1..Len(old)
                                          /\ (old \o new)[i] = old[i]
                                       \/ /\ i - Len(old) \in 1..Len(new)
                                          /\ (old \o new)[i] = new[i - Len(old)]
    BY <2>1, Joined
  <2> QED
    BY <1>2, <1>13, <1>14, <2>2, <2>3, <2>4
<1>16. w = [i \in 1..Len(w) |-> w[i]] /\ Len(w) \in Nat
  <2>1. w \in [1..Len(w) -> T] /\ Len(w) \in Nat
    BY <1>15, LenProperties
  <2> QED
    BY <2>1
<1>17. ASSUME NEW i \in 1..Len(w)
       PROVE  /\ IsAction(w[i]) /\ w[i].sequence = i - 1 /\ w[i].time \in Int
              /\ w[i].type = "navigate" => w[i].enabled
              /\ i \in 1..k => w[i].time <= start
              /\ i \notin 1..k => start <= w[i].time
  <2>1. CASE i \in 1..k
    BY <1>4, <1>5, <1>15, <2>1
  <2>2. CASE i \notin 1..k
    <3>1. PICK j \in 1..n : j = i - k /\ w[i] = new[j]
      BY <1>15, <2>2
    <3>2. k + j - 1 = i - 1
      BY <3>1
    <3>3. new[j].sequence = i - 1
      BY <1>11, <3>2
    <3>4. new[j].time \in Int /\ start <= new[j].time
      BY <1>8, <1>11
    <3>5. IsAction(new[j]) /\ (new[j].type = "navigate" => new[j].enabled)
      BY <1>11
    <3> QED
      BY <2>2, <3>1, <3>3, <3>4, <3>5
  <2> QED
    BY <2>1, <2>2
<1>18. ASSUME NEW i \in 1..Len(w), NEW j \in 1..Len(w), i <= j
       PROVE  w[i].time <= w[j].time
  <2>1. CASE i \in 1..k /\ j \in 1..k
    BY <1>4, <1>15, <1>18, <2>1
  <2>2. CASE i \in 1..k /\ j \notin 1..k
    <3>1. w[i].time \in Int /\ w[j].time \in Int
      BY <1>17
    <3>2. w[i].time <= start /\ start <= w[j].time
      BY <1>17, <2>2
    <3>3. PICK x \in Int, y \in Int : x = w[i].time /\ y = w[j].time
      BY <3>1
    <3>4. x <= y
      BY <1>5, <3>2, <3>3
    <3> QED
      BY <3>3, <3>4
  <2>3. CASE i \notin 1..k
    <3>1. j \notin 1..k
      BY <1>2, <1>18, <2>3
    <3>2. PICK x \in 1..n : x = i - k /\ w[i] = new[x]
      BY <1>15, <2>3
    <3>3. PICK y \in 1..n : y = j - k /\ w[j] = new[y]
      BY <1>15, <3>1
    <3>4. x <= y
      BY <1>2, <1>16, <1>18, <3>2, <3>3
    <3>5. new[x].time <= new[y].time
      BY <1>8, <1>11, <3>4
    <3> QED
      BY <3>2, <3>3, <3>5
  <2> QED
    BY <2>1, <2>2, <2>3
<1>19. Recorded(w)
  BY <1>16, <1>17, <1>18 DEF Recorded
<1> QED
  BY <1>1, <1>9, <1>14, <1>19

LEMMA NothingRecorded == Recorded(<<>>)
<1>1. Len(<<>>) = 0 /\ <<>> = [i \in 1..0 |-> <<>>[i]]
  OBVIOUS
<1> QED
  BY <1>1 DEF Recorded

\* ContentOK of a session that a step leaves as it is.
LEMMA ContentStays ==
    ASSUME NEW t \in Sessions, ContentOK(t),
           held'[t] = held[t], upto'[t] = upto[t], db'[t] = db[t],
           tx'[t].recording = tx[t].recording \/ ~tx'[t].recording.there
    PROVE  ContentOK(t)'
BY DEF ContentOK, Saved

LEMMA OthersContent ==
    ASSUME ShapeOK, DOMAIN held = Sessions,
           NEW s \in Sessions, SessionStep(s), NEW t \in Sessions, t # s, ContentOK(t)
    PROVE  ContentOK(t)'
<1> USE DEF ShapeOK, dbvars
<1> DEFINE Stays == /\ held'[t] = held[t] /\ upto'[t] = upto[t]
                    /\ db'[t] = db[t] /\ tx'[t] = tx[t]
<1>1. ASSUME \E n \in 1..MaxBatch : \E events \in [1..n -> Events[s]] : ingest_events(s, events) PROVE Stays
  BY <1>1 DEF ingest_events
<1>2. ASSUME AppendLines(s) \/ AppendFails(s) PROVE Stays
  BY <1>2 DEF AppendLines, AppendFails
<1>3. ASSUME Register(s) \/ RegisterFails(s) PROVE Stays
  BY <1>3 DEF Register, RegisterFails
<1>4. ASSUME \E last \in BOOLEAN : finalize(s, last) PROVE Stays
  BY <1>4 DEF finalize
<1>5. ASSUME Save(s) \/ SaveFails(s) PROVE Stays
  BY <1>5 DEF Save, SaveFails
<1>6. ASSUME \E ok \in BOOLEAN : Refresh(s, ok) PROVE Stays
  BY <1>6 DEF Refresh
<1>7. ASSUME Commit(s) PROVE Stays
  BY <1>7 DEF Commit
<1>8. ASSUME Close(s) \/ Crash(s) PROVE Stays
  BY <1>8 DEF Close, Crash, End
<1>9. ASSUME Leave(s) PROVE Stays
  BY <1>9 DEF Leave
<1>10. Stays
  BY <1>1, <1>2, <1>3, <1>4, <1>5, <1>6, <1>7, <1>8, <1>9 DEF SessionStep
<1> QED
  BY <1>10, ContentStays

LEMMA HeldDomain ==
    ASSUME DOMAIN held = Sessions, [IngestNext]_ingestVars
    PROVE  DOMAIN held' = Sessions
<1>1. ASSUME NEW s \in Sessions, SessionStep(s) PROVE DOMAIN held' = Sessions
  <2>1. ASSUME NEW n \in 1..MaxBatch, NEW events \in [1..n -> Events[s]], ingest_events(s, events)
        PROVE  DOMAIN held' = Sessions
    BY <2>1 DEF ingest_events
  <2>2. ASSUME Close(s) \/ Crash(s) PROVE DOMAIN held' = Sessions
    BY <2>2 DEF Close, Crash, End
  <2>3. ASSUME \/ AppendLines(s) \/ AppendFails(s) \/ Register(s) \/ RegisterFails(s)
               \/ \E last \in BOOLEAN : finalize(s, last)
               \/ Save(s) \/ SaveFails(s)
               \/ \E ok \in BOOLEAN : Refresh(s, ok)
               \/ Commit(s) \/ Leave(s)
        PROVE  held' = held
    BY <2>3 DEF AppendLines, AppendFails, Register, RegisterFails, finalize, Save, SaveFails,
                Refresh, Commit, Leave
  <2> QED
    BY <1>1, <2>1, <2>2, <2>3 DEF SessionStep
<1>2. CASE OtherWrites \/ UNCHANGED ingestVars
  BY <1>2 DEF OtherWrites, ingestVars
<1> QED
  BY <1>1, <1>2 DEF IngestNext

LEMMA OwnContent ==
    ASSUME IngestInv, DOMAIN held = Sessions,
           NEW s \in Sessions, SessionStep(s), ContentOK(s)
    PROVE  ContentOK(s)'
<1> USE DEF dbvars
<1>0. /\ ShapeOK /\ DOMAIN tx = Sessions /\ DOMAIN db = Sessions /\ DOMAIN upto = Sessions
      /\ CommitsOnce(s)
  BY DEF IngestInv, ShapeOK
<1>1. ASSUME NEW n \in 1..MaxBatch, NEW events \in [1..n -> Events[s]], ingest_events(s, events)
      PROVE  ContentOK(s)'
  <2>1. held'[s] = held[s] \o translated(s, events) /\ UNCHANGED <<upto, db, tx>>
    BY <1>1 DEF ingest_events
  <2>2. n \in Nat
    BY IngestAssumption
  <2>3. Recorded(held[s])
    BY DEF ContentOK
  <2>4. PICK h : h = held[s] \o translated(s, events) /\ Recorded(h)
    BY <2>2, <2>3, BatchRecorded
  <2>5. held'[s] = h
    BY <2>1, <2>4
  <2> QED
    BY <2>1, <2>4, <2>5 DEF ContentOK, Saved
<1>2. ASSUME AppendLines(s) \/ AppendFails(s) PROVE ContentOK(s)'
  BY <1>2, ContentStays DEF AppendLines, AppendFails
<1>3. CASE Register(s)
  <2>1. tx'[s].recording = tx[s].recording
    <3>1. PICK entry : entry = [pointer |-> [there |-> TRUE, size |-> 0],
                              recording |-> tx[s].recording]
      OBVIOUS
    <3>2. tx' = [tx EXCEPT ![s] = entry]
      BY <1>0, <1>3, <3>1, TxWritten
    <3>3. tx'[s] = entry
      BY <1>0, <3>2
    <3> QED
      BY <3>1, <3>3
  <2> QED
    BY <1>3, <2>1, ContentStays DEF Register
<1>4. CASE RegisterFails(s) \/ SaveFails(s)
  BY <1>4, ContentStays DEF RegisterFails, SaveFails
<1>5. ASSUME NEW last \in BOOLEAN, finalize(s, last) PROVE ContentOK(s)'
  BY <1>5, ContentStays DEF finalize
<1>6. CASE Save(s)
  <2>1. PICK entry : entry = [pointer |-> tx[s].pointer,
                            recording |-> [there |-> TRUE, actions |-> ApplyClassifier(held[s])]]
    OBVIOUS
  <2>2. tx'[s] = entry
    BY <1>0, <1>6, <2>1, TxWritten
  <2>3. entry.recording.actions = ApplyClassifier(held[s])
    BY <2>1
  <2>4. PICK saved : saved = [actions |-> held[s], lines |-> Len(log[s])]
    OBVIOUS
  <2>5. upto'[s] = saved
    BY <1>0, <1>6, <2>4 DEF Save
  <2>6. upto'[s].actions = held[s]
    BY <2>4, <2>5
  <2>7. held' = held /\ db' = db /\ pc[s] = "save"
    BY <1>6 DEF Save
  <2>8. ~db[s].recording.there
    BY <1>0, <2>7 DEF CommitsOnce, Saved
  <2>9. tx'[s].recording.actions = ApplyClassifier(upto'[s].actions)
    BY <2>2, <2>3, <2>6
  <2> QED
    BY <2>6, <2>7, <2>8, <2>9 DEF ContentOK, Saved
<1>7. ASSUME NEW ok \in BOOLEAN, Refresh(s, ok) PROVE ContentOK(s)'
  <2>1. tx'[s].recording = tx[s].recording
    <3>1. CASE ok = TRUE
      <4>1. PICK count : count = IF tx[s].pointer.there THEN Len(log[s]) ELSE tx[s].pointer.size
        OBVIOUS
      <4>2. PICK entry : entry = [pointer |-> [there |-> tx[s].pointer.there, size |-> count],
                                recording |-> tx[s].recording]
        OBVIOUS
      <4>3. tx' = [tx EXCEPT ![s] = entry]
        BY <1>0, <1>7, <3>1, <4>1, <4>2, TxWritten
      <4>4. tx'[s] = entry
        BY <1>0, <4>3
      <4> QED
        BY <4>2, <4>4
    <3>2. CASE ok = FALSE
      BY <1>7, <3>2 DEF Refresh
    <3> QED
      BY <3>1, <3>2
  <2> QED
    BY <1>7, <2>1, ContentStays DEF Refresh
<1>8. CASE Commit(s)
  <2>1. db'[s] = tx[s] /\ tx'[s] = NoRows /\ UNCHANGED <<held, upto>>
    BY <1>0, <1>8 DEF Commit
  <2>2. ~NoRows.recording.there
    BY DEF NoRows, NoRecording
  <2> QED
    BY <2>1, <2>2 DEF ContentOK, Saved
<1>9. CASE Close(s) \/ Crash(s)
  <2>1. held'[s] = <<>> /\ tx'[s] = NoRows /\ UNCHANGED <<db, upto>>
    BY <1>0, <1>9 DEF Close, Crash, End
  <2>2. ~NoRows.recording.there
    BY DEF NoRows, NoRecording
  <2> QED
    BY <2>1, <2>2, NothingRecorded DEF ContentOK, Saved
<1>10. CASE Leave(s)
  BY <1>10, ContentStays DEF Leave
<1> QED
  BY <1>1, <1>2, <1>3, <1>4, <1>5, <1>6, <1>7, <1>8, <1>9, <1>10 DEF SessionStep

\* A session records what happened in its order, and what it saves is what the
\* engine makes of that.
THEOREM ContentInvariant == IngestSpec => []ContentInv
<1>1. IngestInit => ContentInv
  <2> SUFFICES ASSUME IngestInit PROVE ContentInv
    OBVIOUS
  <2>1. ~NoRows.recording.there
    BY DEF NoRows, NoRecording
  <2>2. \A s \in Sessions : /\ held[s] = <<>> /\ tx[s] = NoRows /\ db[s] = NoRows
                            /\ upto[s].actions = <<>>
    BY DEF IngestInit
  <2>3. \A s \in Sessions : ContentOK(s)
    BY <2>1, <2>2, NothingRecorded DEF ContentOK, Saved
  <2>4. DOMAIN held = Sessions
    BY DEF IngestInit
  <2> QED
    BY <2>3, <2>4 DEF ContentInv
<1>2. ASSUME IngestInv, ContentInv, [IngestNext]_ingestVars PROVE ContentInv'
  <2>1. ShapeOK /\ DOMAIN held = Sessions /\ \A s \in Sessions : ContentOK(s)
    BY <1>2 DEF IngestInv, ContentInv
  <2>2. DOMAIN held' = Sessions
    BY <1>2, <2>1, HeldDomain
  <2>3. ASSUME NEW t \in Sessions PROVE ContentOK(t)'
    <3>1. ASSUME NEW s \in Sessions, SessionStep(s) PROVE ContentOK(t)'
      <4>1. CASE t = s
        BY <1>2, <2>1, <3>1, <4>1, OwnContent
      <4>2. CASE t # s
        BY <2>1, <3>1, <4>2, OthersContent
      <4> QED
        BY <4>1, <4>2
    <3>2. CASE OtherWrites
      BY <2>1, <3>2, ContentStays DEF OtherWrites
    <3>3. CASE UNCHANGED ingestVars
      BY <2>1, <3>3, ContentStays DEF ingestVars, dbvars
    <3> QED
      BY <1>2, <3>1, <3>2, <3>3 DEF IngestNext
  <2> QED
    BY <2>2, <2>3 DEF ContentInv
<1> QED
  BY <1>1, <1>2, IngestInvariant, PTL DEF IngestSpec

\* What is saved of a recording, its verdicts apart, is what the engine lets out.
LEMMA SavedByEngine ==
    ASSUME ContentInv, NEW s \in Sessions, Saved(s)
    PROVE  \E m, f, F, n, g, out :
              /\ Engine(upto[s].actions, m, f, F, n, g, out)
              /\ SavedActions(s) = out
<1>1. PICK in : in = upto[s].actions
  OBVIOUS
<1>2. Recorded(in) /\ db[s].recording.actions = Process(in)
  BY <1>1 DEF ContentInv, ContentOK, ApplyClassifier
<1>3. PICK m, f, F, n, g, out :
          /\ Engine(in, m, f, F, n, g, out)
          /\ Process(in) = [i \in DOMAIN out |-> [action |-> out[i], verdict |-> Classify(out[i])]]
  BY <1>2, EngineRuns
<1>4. PICK saved : saved = db[s].recording.actions
  OBVIOUS
<1>5. DOMAIN saved = DOMAIN out /\ \A i \in DOMAIN out : saved[i].action = out[i]
  BY <1>2, <1>3, <1>4
<1>6. out = [i \in DOMAIN out |-> out[i]]
  BY <1>3 DEF Engine, Selected
<1>7. SavedActions(s) = [i \in DOMAIN saved |-> saved[i].action]
  BY <1>4 DEF SavedActions
<1>8. SavedActions(s) = out
  BY <1>5, <1>6, <1>7
<1> QED
  BY <1>1, <1>3, <1>8

\* FormsReplayAlike of what was recorded and what is saved.
FormsAlike(in, out) ==
    LET clicks == {i \in DOMAIN in : in[i].type = "click" /\ in[i].enabled}
        moments == {in[i].sequence : i \in clicks} \cup {Len(in)}
    IN  \A m \in moments, field \in {in[i].selector : i \in DOMAIN in} :
            LET typed == LastInput(in, field, m)
                kept == LastInput(out, field, m)
            IN  typed # 0 /\ in[typed].text.word # ""
                    => kept # 0 /\ out[kept].text.word = in[typed].text.word

LEMMA EngineKeepsForms ==
    ASSUME NEW in, NEW m, NEW f, NEW F, NEW n, NEW g, NEW out,
           Engine(in, m, f, F, n, g, out)
    PROVE  FormsAlike(in, out)
<1>1. DOMAIN in = 1..Len(in)
  BY RecordedFacts DEF Engine
<1>2. ASSUME NEW before \in {in[i].sequence : i \in {j \in DOMAIN in : in[j].type = "click"
                                                                   /\ in[j].enabled}}
                               \cup {Len(in)},
             NEW field, LastInput(in, field, before) # 0,
             HasText(in[LastInput(in, field, before)])
      PROVE  /\ LastInput(out, field, before) # 0
             /\ out[LastInput(out, field, before)].text.word
                   = in[LastInput(in, field, before)].text.word
  <2>1. Moment(in, before)
    BY <1>1 DEF Moment
  <2> QED
    BY <1>2, <2>1, FieldReplaysAlike
<1> QED
  BY <1>2 DEF FormsAlike, HasText

\* What a saved recording leaves out is noise (heuristic/engine.py:141).
THEOREM NoiseAloneGoes == IngestSpec => []OnlyNoiseGoes
<1>1. ASSUME ContentInv PROVE OnlyNoiseGoes
  <2>1. ASSUME NEW s \in Sessions, Saved(s)
        PROVE  NoiseGone(upto[s].actions, SavedActions(s))
    BY <1>1, <2>1, SavedByEngine, EngineDropsNoise
  <2> QED
    BY <2>1 DEF OnlyNoiseGoes, NoiseGone
<1> QED
  BY <1>1, ContentInvariant, PTL

\* At every click, and at the end, the forms hold on replay what the user had typed.
THEOREM FormsAreReplayed == IngestSpec => []FormsReplayAlike
<1>1. ASSUME ContentInv PROVE FormsReplayAlike
  <2>1. ASSUME NEW s \in Sessions, Saved(s)
        PROVE  FormsAlike(upto[s].actions, SavedActions(s))
    BY <1>1, <2>1, SavedByEngine, EngineKeepsForms
  <2> QED
    BY <2>1 DEF FormsReplayAlike, FormsAlike
<1> QED
  BY <1>1, ContentInvariant, PTL

=============================================================================
