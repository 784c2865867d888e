------------------------------ MODULE RunStream ------------------------------
(***************************************************************************)
(* How the events of one run reach one WebSocket subscriber:                *)
(* publish_progress and backfill_events (queues/events.py) on one side,     *)
(* the reader, the backfill, the dedup window, the bounded queue and the    *)
(* sender of WebSocketManager (api/streaming/manager.py) on the other, with *)
(* Redis between them.                                                      *)
(*                                                                          *)
(* Events of a run are published one after the other; the n-th one is the   *)
(* number n (its event_id).  Fan-out treats the subscribers of a channel    *)
(* independently, so one of them is modelled; WsManager models how they     *)
(* share the channel.  Redis executes each command atomically, but a        *)
(* non-transactional pipeline is three commands, and commands on different  *)
(* connections take effect in any order.                                    *)
(***************************************************************************)
EXTENDS Naturals, Sequences, FiniteSets

CONSTANTS
    MaxEvents,  \* bound: events of the run
    ListCap,    \* LTRIM bound of events:{id}
    QueueCap,   \* ws_event_buffer_size, size of the subscriber's queue
    Window,     \* api_event_dedup_window
    MaxFaults   \* bound: publishes that fail half-way

ASSUME RunStreamAssumption ==
    /\ MaxEvents \in Nat
    /\ ListCap \in Nat \ {0}
    /\ QueueCap \in Nat \ {0}
    /\ Window \in Nat \ {0}
    /\ MaxFaults \in Nat

VARIABLES
    published,  \* number of events stamped so far
    pipe,       \* how far the pipeline of the last event is
    faults,     \* pipelines that failed
    list,       \* events:{id}, newest first
    link,       \* the channel's SUBSCRIBE: "off", "sent", "on" (in effect)
    wire,       \* pub/sub messages not read yet
    reader,     \* "listening" or "dead"
    backfill,   \* "none", "asked", "looping", "done", "failed"
    reply,      \* rest of the LRANGE reply, oldest first
    queue,      \* _Subscriber.queue
    dedup,      \* _Subscriber.dedup, oldest first
    sent,       \* events written to the socket
    dropped,    \* events pushed out of the full queue
    accepted,   \* history: what has_seen let through, and on which way it came
    orderly,    \* history: SUBSCRIBE was in effect when LRANGE ran
    oldest      \* history: oldest event of the LRANGE reply, 0 if it was empty

redisVars == <<published, pipe, faults, list>>
subVars == <<queue, dedup, dropped, accepted>>
history == <<orderly, oldest>>
vars == <<published, pipe, faults, list, link, wire, reader, backfill, reply,
          queue, dedup, sent, dropped, accepted, orderly, oldest>>

-----------------------------------------------------------------------------
Event == 1..MaxEvents

\* An event comes with the LRANGE reply or off the channel.
Entry == [event : Event, via : {"backfill", "live"}]

Elems(s) == {s[i] : i \in 1..Len(s)}

Reversed(s) == [i \in 1..Len(s) |-> s[Len(s) + 1 - i]]

\* The newest n entries of a list, and the last n of a deque.
Newest(s, n) == IF Len(s) <= n THEN s ELSE SubSeq(s, 1, n)
LastOf(s, n) == IF Len(s) <= n THEN s ELSE SubSeq(s, Len(s) - n + 1, Len(s))

TypeOK ==
    /\ published \in 0..MaxEvents
    /\ pipe \in {"idle", "published", "pushed"}
    /\ faults \in 0..MaxFaults
    /\ list \in Seq(Event)
    /\ Len(list) <= ListCap + faults + (IF pipe = "pushed" THEN 1 ELSE 0)
    /\ link \in {"off", "sent", "on"}
    /\ wire \in Seq(Event)
    /\ reader \in {"listening", "dead"}
    /\ backfill \in {"none", "asked", "looping", "done", "failed"}
    /\ reply \in Seq(Event)
    /\ queue \in Seq(Event) /\ Len(queue) <= QueueCap
    /\ dedup \in Seq(Event) /\ Len(dedup) <= Window
    /\ sent \in Seq(Event)
    /\ dropped \in SUBSET Event
    /\ accepted \in Seq(Entry)
    /\ orderly \in BOOLEAN
    /\ oldest \in 0..MaxEvents

Init ==
    /\ published = 0
    /\ pipe = "idle"
    /\ faults = 0
    /\ list = <<>>
    /\ link = "off"
    /\ wire = <<>>
    /\ reader = "listening"
    /\ backfill = "none"
    /\ reply = <<>>
    /\ queue = <<>>
    /\ dedup = <<>>
    /\ sent = <<>>
    /\ dropped = {}
    /\ accepted = <<>>
    /\ orderly = FALSE
    /\ oldest = 0

-----------------------------------------------------------------------------
(* publish_progress *)

\* PUBLISH run:{id}
Publish ==
    /\ pipe = "idle"
    /\ published < MaxEvents
    /\ published' = published + 1
    /\ pipe' = "published"
    /\ wire' = IF link = "on" THEN Append(wire, published + 1) ELSE wire
    /\ UNCHANGED <<faults, list, link, reader, backfill, reply, subVars, sent, history>>

\* LPUSH events:{id}
Push ==
    /\ pipe = "published"
    /\ list' = <<published>> \o list
    /\ pipe' = "pushed"
    /\ UNCHANGED <<published, faults, link, wire, reader, backfill, reply, subVars,
                   sent, history>>

\* LTRIM events:{id} 0 buffer_size-1
Trim ==
    /\ pipe = "pushed"
    /\ list' = Newest(list, ListCap)
    /\ pipe' = "idle"
    /\ UNCHANGED <<published, faults, link, wire, reader, backfill, reply, subVars,
                   sent, history>>

\* Redis cannot be reached: the event is stamped, logged and forgotten ...
PublishLost ==
    /\ pipe = "idle"
    /\ published < MaxEvents
    /\ faults < MaxFaults
    /\ published' = published + 1
    /\ faults' = faults + 1
    /\ UNCHANGED <<pipe, list, link, wire, reader, backfill, reply, subVars, sent, history>>

\* ... or the connection breaks before LPUSH or before LTRIM.
PipelineBreaks ==
    /\ pipe # "idle"
    /\ faults < MaxFaults
    /\ pipe' = "idle"
    /\ faults' = faults + 1
    /\ UNCHANGED <<published, list, link, wire, reader, backfill, reply, subVars,
                   sent, history>>

-----------------------------------------------------------------------------
(* The channel *)

\* pubsub.subscribe() by this subscriber or an earlier one of the same run: the
\* command is sent, its confirmation is not awaited.
SubscribeSent ==
    /\ link = "off"
    /\ link' = "sent"
    /\ UNCHANGED <<redisVars, wire, reader, backfill, reply, subVars, sent, history>>

SubscribeTakesEffect ==
    /\ link = "sent"
    /\ link' = "on"
    /\ UNCHANGED <<redisVars, wire, reader, backfill, reply, subVars, sent, history>>

\* The subscriber is on the channel's list and sends LRANGE.
Attach ==
    /\ link # "off"
    /\ backfill = "none"
    /\ backfill' = "asked"
    /\ UNCHANGED <<redisVars, link, wire, reader, reply, subVars, sent, history>>

\* LRANGE is executed; the reply will be turned round.
Lrange ==
    /\ backfill = "asked"
    /\ backfill' = "looping"
    /\ reply' = Reversed(list)
    /\ orderly' = (link = "on")
    /\ oldest' = IF list = <<>> THEN 0 ELSE list[Len(list)]
    /\ UNCHANGED <<redisVars, link, wire, reader, subVars, sent>>

\* LRANGE raises: logged, the subscriber goes on without history.
LrangeFails ==
    /\ backfill = "asked"
    /\ backfill' = "failed"
    /\ UNCHANGED <<redisVars, link, wire, reader, reply, subVars, sent, history>>

-----------------------------------------------------------------------------
(* has_seen and the bounded queue, the same for backfill and fan-out. *)

LetThrough(e, via) == accepted' = Append(accepted, [event |-> e, via |-> via])

\* Mutant: an event is not remembered once it is queued.
AcceptForgetful(e, via) ==
    /\ e \notin Elems(dedup)
    /\ Len(queue) < QueueCap
    /\ queue' = Append(queue, e)
    /\ LetThrough(e, via)
    /\ UNCHANGED <<dedup, dropped>>

Skip(e) ==
    /\ e \in Elems(dedup)
    /\ UNCHANGED subVars

Accept(e, via) ==
    /\ e \notin Elems(dedup)
    /\ dedup' = LastOf(Append(dedup, e), Window)
    /\ Len(queue) < QueueCap
    /\ queue' = Append(queue, e)
    /\ LetThrough(e, via)
    /\ UNCHANGED dropped

\* Mutant: the newcomer, not the head of the queue, is lost.
AcceptFullDroppingNew(e, via) ==
    /\ e \notin Elems(dedup)
    /\ dedup' = LastOf(Append(dedup, e), Window)
    /\ Len(queue) = QueueCap
    /\ LetThrough(e, via)
    /\ UNCHANGED <<queue, dropped>>

\* The queue is full: its head goes.
AcceptFull(e, via) ==
    /\ e \notin Elems(dedup)
    /\ dedup' = LastOf(Append(dedup, e), Window)
    /\ Len(queue) = QueueCap
    /\ queue' = Append(Tail(queue), e)
    /\ LetThrough(e, via)
    /\ dropped' = dropped \union {Head(queue)}

Offer(e, via) == Skip(e) \/ Accept(e, via) \/ AcceptFull(e, via)

\* The loop of _backfill has no await in it: nothing else in this process runs
\* before it is through.
Busy == backfill = "looping" /\ reply # <<>>

BackfillOne ==
    /\ Busy
    /\ Offer(Head(reply), "backfill")
    /\ reply' = Tail(reply)
    /\ UNCHANGED <<redisVars, link, wire, reader, backfill, sent, history>>

BackfillDone ==
    /\ backfill = "looping"
    /\ reply = <<>>
    /\ backfill' = "done"
    /\ UNCHANGED <<redisVars, link, wire, reader, reply, subVars, sent, history>>

\* Mutant: messages that come in before the backfill is over are discarded.
FanoutLate ==
    /\ ~Busy
    /\ reader = "listening"
    /\ wire # <<>>
    /\ IF backfill \in {"done", "failed"} THEN Offer(Head(wire), "live") ELSE UNCHANGED subVars
    /\ wire' = Tail(wire)
    /\ UNCHANGED <<redisVars, link, reader, backfill, reply, sent, history>>

\* One message through _reader and _fanout; nobody gets it before Attach.
Fanout ==
    /\ ~Busy
    /\ reader = "listening"
    /\ wire # <<>>
    /\ IF backfill # "none" THEN Offer(Head(wire), "live") ELSE UNCHANGED subVars
    /\ wire' = Tail(wire)
    /\ UNCHANGED <<redisVars, link, reader, backfill, reply, sent, history>>

\* listen() raises: the reader logs and ends, the channel stays registered.
ReaderFails ==
    /\ ~Busy
    /\ link # "off"
    /\ reader = "listening"
    /\ reader' = "dead"
    /\ UNCHANGED <<redisVars, link, wire, backfill, reply, subVars, sent, history>>

\* One turn of _sender.
Send ==
    /\ ~Busy
    /\ queue # <<>>
    /\ sent' = Append(sent, Head(queue))
    /\ queue' = Tail(queue)
    /\ UNCHANGED <<redisVars, link, wire, reader, backfill, reply, dedup, dropped, accepted,
                   history>>

-----------------------------------------------------------------------------
Publisher == Publish \/ Push \/ Trim \/ PublishLost \/ PipelineBreaks

Subscriber ==
    \/ SubscribeTakesEffect \/ Lrange \/ LrangeFails
    \/ BackfillOne \/ BackfillDone \/ Fanout

Next ==
    \/ Publisher \/ SubscribeSent \/ Attach
    \/ Subscriber \/ ReaderFails \/ Send

Spec == Init /\ [][Next]_vars

\* Redis answers, the event loop runs the reader, the backfill and the sender.
\* Nothing makes the run publish or a client connect.
FairSpec ==
    /\ Spec
    /\ WF_vars(Push \/ Trim \/ PipelineBreaks)
    /\ WF_vars(Subscriber)
    /\ WF_vars(Send)

-----------------------------------------------------------------------------
(* Properties. *)

\* What the client has received or is about to.
Stream == sent \o queue

\* The dedup window is shorter than the history, so an event that comes on both
\* ways can be forgotten in between.  Whichever of PUBLISH, LPUSH, SUBSCRIBE and
\* LRANGE come first, and however long the run is, it gets through a second time
\* only on the other way and only when a whole window of others has gone between:
\* never a third time, and never twice if the window takes the run.
RepeatsApart ==
    \A i, k \in 1..Len(accepted) :
        i < k /\ accepted[i].event = accepted[k].event =>
            /\ accepted[i].via # accepted[k].via
            /\ k - i > Window

AtRest ==
    /\ pipe = "idle"
    /\ link = "on" /\ reader = "listening" /\ wire = <<>>
    /\ backfill = "done"

Missing == {e \in 1..published : e \notin Elems(Stream) \union dropped}

\* If SUBSCRIBE took effect before LRANGE ran, then of the events newer than the
\* trimmed ones at most one is missing, the one whose PUBLISH and LPUSH lay on
\* either side of the two, plus one for each publish that failed.
GapBounded ==
    AtRest /\ orderly =>
        Cardinality({e \in Missing : e > oldest}) <= 1 + faults

\* As long as its reader lives, every event on the wire of an attached
\* subscriber is forwarded or dropped.
WireDrains ==
    \A e \in Event :
        (e \in Elems(wire) /\ backfill # "none") ~>
            (e \in Elems(sent) \union dropped \/ reader = "dead")

-----------------------------------------------------------------------------
(* The inductive invariants behind the theorems of RunStreamProofs. *)

\* The oldest event of the list, 0 if there is none.
Last == IF list = <<>> THEN 0 ELSE list[Len(list)]

\* Redis lists the events newest first; the event whose LPUSH is outstanding is
\* not among them.
ListOK ==
    /\ \A i, k \in 1..Len(list) : i < k => list[i] > list[k]
    /\ \A i \in 1..Len(list) : list[i] <= published
    /\ pipe = "published" => \A i \in 1..Len(list) : list[i] < published
    /\ pipe = "published" => published > 0
    /\ pipe = "pushed" => list # <<>>

\* Events that were not trimmed and yet are not in the list, each for a publish
\* that failed, save for one whose LPUSH is outstanding.
Unlisted == {e \in 1..published : e > Last /\ e \notin Elems(list)}

\* What has reached the subscriber or is on its way to it.
Underway == Elems(reply) \cup Elems(wire) \cup Elems(sent) \cup Elems(queue) \cup dropped

Lacking == {e \in 1..published : e > oldest /\ e \notin Underway}

\* Redis: what failed or is outstanding makes up for what is not listed.
UnlistedOK == Cardinality(Unlisted) <= faults + (IF pipe = "published" THEN 1 ELSE 0)

\* The subscriber: once LRANGE has run in order, no more is lacking than failed
\* publishes and one that lay on either side.
SubscriberOK ==
    /\ reply # <<>> => backfill = "looping"
    /\ Elems(dedup) \subseteq Elems(sent) \cup Elems(queue) \cup dropped
    /\ orderly => /\ link = "on" /\ backfill \in {"looping", "done"}
                  /\ Cardinality(Lacking) <= 1 + faults

GapInv ==
    /\ TypeOK
    /\ ListOK
    /\ UnlistedOK
    /\ SubscriberOK

Ascending(s) == \A i, k \in 1..Len(s) : i < k => s[i] < s[k]

\* The deque holds the last entries that were let through, as many as fit.
Remembered ==
    LET n == Len(accepted) - Len(dedup) IN
    /\ n >= 0
    /\ n > 0 => Len(dedup) = Window
    /\ \A i \in 1..Len(dedup) : dedup[i] = accepted[n + i].event

\* Either way brings the events in order, each once.
Apart ==
    \A i, k \in 1..Len(accepted) : i < k =>
        /\ accepted[i].via = accepted[k].via => accepted[i].event < accepted[k].event
        /\ accepted[i].event = accepted[k].event => k - i > Window

\* All that came via a way is older than e.
Past(via, e) ==
    \A i \in 1..Len(accepted) : accepted[i].via = via => accepted[i].event < e

\* What is still to come on either way is newer than what came on it.
WaysOK ==
    /\ Ascending(wire) /\ Ascending(reply)
    /\ \A e \in Elems(wire) : e <= published /\ Past("live", e)
    /\ \A e \in Elems(reply) : Past("backfill", e)
    /\ Past("live", published + 1)
    /\ backfill \in {"none", "asked"} => Past("backfill", 0)

ApartInv == Remembered /\ Apart /\ WaysOK
=============================================================================
