# rpa-recorder in TLA+

rpa-recorder records what a user does in a browser, stores it in a bronze /
silver / gold "medallion", replays recordings through a job queue with
self-healing recovery, streams the progress of a replay to WebSocket clients, and
classifies and reviews what was recorded. This directory holds TLA+ modules of
its stateful parts, TLC configurations that check them on small instances, and
TLAPS proofs of theorems that hold for instances of any size. Paths below are
relative to `src/rpa_recorder/` of the repository unless they begin with `docs/`.

## 1. The system

| Part | Code | State it keeps | Operations |
|---|---|---|---|
| Job pool | `queues/in_process.py`, `queues/replay_handler.py`, `api/middleware/backpressure.py` | `_jobs`, tasks, an `asyncio.Semaphore` per queue, cancel flags | enqueue, run, cancel, queue size, close |
| Event transport | `queues/events.py` | Redis list `events:{id}`, channel `run:{id}` | publish (PUBLISH, LPUSH, LTRIM), backfill (LRANGE) |
| WebSocket manager | `api/streaming/manager.py`, `api/routers/streaming.py` | `_channels`, reference counts, subscribers, reader tasks, one lock | subscribe, unsubscribe, fan out, close |
| Replay executor | `browser/executor.py` | per-action attempts and statuses | run, resolve, dispatch, record failure |
| Recovery | `recovery/engine.py`, `recovery/strategies/` | attempts of one failure | pick, try, verify, report |
| Recorder | `browser/recorder.py` | actions, sequence number, bronze queue, drain task | capture, navigate, drain, stop |
| Bronze store and writer | `medallion/bronze.py`, `medallion/bronze_store.py` | files, `bronze_artifacts` rows | append, put, finalize, stat |
| Compaction and retention | `medallion/compact.py`, `medallion/retention.py`, their jobs | Parquet files, rows, one transaction per pass | compact, prune |
| Silver | `medallion/silver.py`, `storage/repositories.py`, their callers `cli/commands/record.py` and `integration/` | `recorded_actions` rows | save a recording, promote its log |
| Gold promotion | `workers/jobs/medallion.py`, `medallion/gold_hot.py`, `medallion/gold_cold.py` | Redis lock, hot tables, cold Parquet tables | lock, recompute, release |
| Heuristic engine | `classifier/heuristic` | none (a pure pipeline) | filter, normalize, filter again, classify |
| LLM classifier | `classifier/llm` | response cache, daily cost, semaphore | classify, retry, store, merge |
| Confirmation, `rpa classify` | `confirmation/`, `cli/commands/confirm.py`, `cli/commands/classify.py` | labels of actions, review log | decide, persist, audit, classify again |
| Ingest | `integration/` | translated actions, event log, one transaction | create, ingest, finalize, close |
| ARQ pool, workers | `queues/arq.py`, `workers/settings.py` | ARQ's own | schedule |
| API, CLI, page scripts, data models | `api/`, `cli/`, `page_scripts/`, `models/` | none of their own | wiring, I/O |

How they interact: the API enqueues a replay behind the backpressure check. The
pool runs it as an asyncio task under a semaphore; the handler calls the
executor, which publishes events through Redis and calls the recovery engine when
an action fails. Clients subscribe to a run; connections to the same run share one
Redis subscription. The recorder writes envelopes to bronze from a task of its
own. Cron jobs compact and prune bronze, promote silver to gold under a Redis
lock. Silver has two writers: whoever recorded saves the recording when it ends, and
promotions, on demand, make rows of its log, mostly to recover it. Recordings of other
programs come in through ingest sessions, which run the heuristic engine when they are
finalized.
`rpa classify` asks the hybrid classifier about a stored recording and saves it
again, `rpa confirm` lets a user accept or change the labels. All of them write
through database sessions, of which SQLite lets one write at a time, and to files
that no transaction covers.

What is hard: asyncio cancellation at every await; checks whose result is used
after an await (queue depth, row counts, the log that a compaction read, LRANGE
against SUBSCRIBE); work in threads that outlives the task that awaits it; locks
with a TTL shorter than the job; files and rows changed by different mechanisms;
shutdown while everything else goes on; a page that changes between two steps; a
write lock that a session keeps from its first flush to its commit, and a session
that is dead after a failed flush; rows saved again as they were read long before;
rules that drop what other rules rewrite.
`PROJECT.json` lists these hazards line by line.

## 2. Modules

One module per component. `MC*` modules instantiate them for TLC, `*Proofs`
modules hold the theorems.

**JobPool** - `InProcessQueuePool` with `asyncio.Semaphore` written out (value,
deque of waiters, the hand-over of a wake-up), the replay handler up to its saves
and events, cancel requests, and the clients in front of the backpressure check.
`phase` is where a task is, `status` what `_jobs` says, `events` what was
published, `saved` the stored runs. Cancellation is an action for each place a
task can be suspended in: not started, waiting, woken and not yet resumed, in the
handler, reporting. `Close`, `GraceExpires` and `CloseReturns` are `close()`.

**JobLife** - what the pool promises its users, without semaphore, tasks or
events: a job is queued, in progress, then complete, failed or cancelled; at most
`Limit` are in progress; once closed, nothing moves. `JobPool` implements it under
the mapping `life <- status`, `gate <- Gate`, where a pool that cancels is still
draining (`ImplementsJobLife`).

**WsManager** - subscribe and unsubscribe of several connections to several runs:
the lock with its queue, the suspension in `SUBSCRIBE` while the lock is held, the
registration, release and tear-down of channels outside the lock, and `close()`,
which takes the lock, clears the map and then closes one channel after the other.

**RunStream** - one run and one subscriber: the three commands of a publish (any
prefix of which may be all that happens), the Redis list with LTRIM, the reader,
the backfill, the dedup window, the bounded queue that drops its head, and the
sender. `accepted` is a history of what `has_seen` let through, and on which of the
two ways it came. Fan-out treats subscribers independently, so WsManager and RunStream
meet only where a subscriber is attached.

**Replay** - the action loop of `Executor` and `RecoveryEngine` with its five
strategies. The page is the set of selectors that resolve to exactly one element;
it may change before every step. What an action was meant to do is done not at
all, half (an input cleared and not filled) or in full, which lets the model tell
what is reported from what happened.

**Recorder** - capture, navigation, the bounded bronze queue, the drain task
(batches, timeout, sentinel, cancellation in every await), `stop()` with its 5 s
limit, `append_events` with the row that registers the log, `finalize_recording`,
and the `close()` of a file that goes on in its thread after the await was
cancelled.

**BronzeUpkeep** - compaction and retention of one recording, each pass in one
transaction: rows in `writes` become visible at the commit or never, files change at
once. Rows expire, deletions fail, jobs die in between. A failed flush rolls the
transaction back while the retention pass goes on deleting files, as SQLAlchemy
does (`FailToDeleteRow`, `UnlinkDoomed`).

**Silver** - the two writers of the rows of one recording. The one that records
(`source`: the recorder of `rpa record`, or an ingestion session) captures, writes
lines, registers the log, saves the recording or loses it; its rows have the
navigations, which no line has, lack what the classifier's filters drop, and keep gaps
in `sequence` for it. A promotion counts the rows, reads the log, inserts what follows
and commits, at any time of the recording's life, over a log in which some lines make no
row, and some actions have no line. Registering the log takes the write lock until the
recording ends, an insertion until its commit. `recording` says whether the save found
an untouched table (`saved`), or rows or a promotion at work (`mixed`).

**GoldPromotion** - the `SET NX EX` lock with an unconditional DELETE, the hot
recompute, the TaskGroup of cold writers and their threads, abort, crash, expiry.

**Heuristic** - the engine as operators: four filters, three normalizers, seven
rules, each named after its class, and `Process`, which filters, normalizes,
filters again and classifies. A text is a word and whether it has blanks around
it; what a rule looks for in labels and attributes is a set of looks.

**Ingest** - extends Heuristic. A session translates what its host reports
(`translate` and its helpers), appends to the event log, registers the log,
finalizes, commits. `tx` is its transaction, `lock` the writer of the database,
`dead` a SQLAlchemy session that waits for a rollback. Hosts leave, close, crash;
others write.

**Review** - passes of `rpa confirm` and re-classifications of one recording. A
decision is read, written and committed in a transaction of its own, then appended
to the audit log; the first line is registered in a session that stays open until
the pass ends. The histories `decided`, `done` and `blind` record which decisions
took effect and which writes went by a row that had changed since.

**Classifier** - a batch through the hybrid classifier: rules, cache, budget check,
semaphore, calls with retries, the task group that stores the answer, the merge.
Days change at any moment. The rules are a constant here (`Rule`), because the LLM
only depends on how sure they are.

`PROJECT.json` maps every definition to its lines.

Abstractions used throughout: payloads, names and messages are numbers or model
values; logging, formatting and metrics are left out; reads that change nothing
are not actions. Redis commands and event-loop steps between two awaits are
atomic. SQLite admits one writing transaction at a time.

## 3. Runs

| Run | Instance | States | Checks |
|---|---|---|---|
| `pool` | 3 jobs, 2 clients, 1 permit, depth 1, 1 action, 1 cancel | 0.3 M | `PermitsConserved`, `NoLostWakeup`, `DepthBound`, `OutcomeConsistent`, `ImplementsJobLife`, `QuietAfterClose`, `EveryJobEnds`, `CloseCompletes` |
| `ws` | 3 connections, 2 runs | 0.2 M | `RefCountExact`, `OneChannelPerRun`, `CloseReachesAll`, `NothingLeaks`, `CloseDrains` |
| `stream` | 4 events, list of 3, queue and window of 2, 1 broken publish | 0.1 M | `RepeatsApart`, `GapBounded`, `WireDrains` |
| `replay` | 2 actions of any kind, with and without an LLM | 0.6 M | `RecoveryIsVerified`, `ToldAsItHappened`, `RunEnds` |
| `recorder` | 4 captures, 1 navigation, queue and batch of 2 | 0.2 M | `LogInOrder`, `LossBounded`, `LogRegistered`, `FrozenAfterStop`, `StopCompletes` |
| `upkeep` | 2 compactions, 1 retention pass, 2 lines, 1 expiry, 1 fault | 1.3 M | `OnlyExpiredGo`, `EventuallyCompacted`, `ParquetExpires` |
| `silver` | 3 captures of any kind by either source, 2 promotions, 1 failure | 1.4 M | `SilverCovers`, `SavedRowsStay` |
| `gold` | 3 jobs, 2 tables, 1 expiry, 1 abort | 0.3 M | `OverlapBounded`, `GoldForward`, `LockComesFree` |
| `ingest` | 1 session, every sequence of up to 4 of 11 events, 1 file failure, other writers | 5.4 M | `FormsReplayAlike`, `OnlyNoiseGoes`, `SavedTogether` |
| `review` | 2 audited passes, 1 re-classification, 2 actions, 2 intents, 1 file failure, symmetry | 6.5 M | `NoDecisionLost`, `AuditCovers` |
| `llm` | 4 tasks, 2 questions, 2 permits, 2 attempts, 2 days, cache of 1, 1 failing store | 0.8 M | `BudgetBound`, `VerdictSound`, `BatchCompletes` |
| `review_alone` | 1 audited pass, 2 actions, nobody else | - | refutes `PassSucceedsAlone` |

Every component's module states its types (`TypeOK`, `SilverTypeOK`, ...). They are
part of the invariants proved in section 4, save those of Ingest, where the proof
needs less (`ShapeOK`). `Silver`, `BronzeUpkeep` and `Ingest` prefix the usual names
(`SilverNext`, `IngestSpec`), so that a proof module can extend them next to another
component.

What they show:

* **Pool.** Over every interleaving of start, wait, wake-up, return, failure,
  cancellation and shutdown no permit is lost or forged, no wake-up is missed, and
  status, last event and stored run agree when a task ends. Backpressure is a
  check-then-act: two requests pass the same check, and it overshoots, by no more than
  the other requests in flight. Every accepted job ends, and nothing happens after
  `close()` has returned. Seen from outside, the pool is the one that JobLife describes.
* **Subscriptions.** Reference counts are exact at every suspension point, nobody
  pops a channel of somebody else, `close()` misses no connection, and when all
  have gone no Redis subscription and no reader is left.
* **Stream.** The history is longer than the dedup window, here as in the code, so an
  event can be let through twice; but not a third time, and the second time on the
  other way and after a whole window of others. As long as the window takes the whole
  run, that excludes a second time. When SUBSCRIBE comes first, at most one event, plus
  one per broken publish, falls between the history and the live stream.
* **Replay.** A run is told failed if and only if an action of it failed for good, the
  event stream has the outcome of every action, and what counts as successful took
  place, however the page behaves (`ToldAsItHappened`, made of `EventsTellOutcome` and
  `StatusTellsOutcomes`); but nothing is said of runs that needed a
  recovery, which the code does not tell apart, nor does an action that counts as
  recovered have to have happened (section 5). The run ends.
* **Recorder.** The log is a subsequence of what was captured; an orderly stop
  loses nothing that the queue took, an overrun at most one batch; `stop()`
  returns even when its sentinel found no room.
* **Upkeep.** Whatever compactions that overtake each other, pruning under a row
  that stays, and crashes have left behind, the following passes put right. Rows go
  only when they have outlived their window; those of Parquet files do go in the end,
  although later compactions register new ones. Of logs nothing is said, because they
  never go (section 5).
* **Silver.** In recovery, and while the recording is not saved yet, resuming at the
  number of rows passes over no event as long as promotions do not overlap, although it
  may insert one twice (section 5). A saved recording is left as it was saved, by
  any number of overlapping promotions, if it has at least as many rows as lines
  (navigations make up for what the filters dropped) or comes from an ingestion session,
  of whose lines no rows are made; otherwise a promotion adds the last events again
  (section 5).
* **Gold.** One expiry lets a chain of jobs delete each other's locks, but every
  job beyond the first is paid for by an expiry.
* **Ingest.** Whatever filters, trimming and merging of bursts do to each other, a
  replay has the text the user left in a field (unless blank) at every click, no
  click on an enabled element is lost and the page is the one the user was on. A
  recording and the pointer to its log are committed together or not at all, through locked
  databases, dead sessions and crashes.
* **Review.** A decision survives re-classifications, failures, interruptions and
  later decisions, unless a writer went by a row that had changed since it read
  it; nothing in the code detects that. The audit log has the decisions that took
  effect, in order, save one that was being appended when the pass stopped.
* **LLM.** All tasks can pass the budget check before one is charged, so a day may
  cost more than its cap, by less than one call for each task in flight. That bounds
  the counter, not the money: a call that is billed and whose `record_spend` fails, or
  that times out and is billed all the same, is not in it. Verdicts are never made up
  and, error verdicts apart, never less sure than the rules, and a batch always ends.

Each property of a passing run has a mutant in `PROJECT.json`: a plausible bug in
one definition under which the same run finds the property violated.

**Bounds.** They are constants named in the modules. Queues, lists and batches of two
are the smallest that can be partly full; three jobs on one permit give two waiters, so
that the hand-over of a wake-up to a second waiter happens (the proofs cover any number
of permits, jobs and clients); three connections on two runs give sharing, a newcomer
during a tear-down and a bystander; three gold jobs are needed for a job to delete the
lock of its successor while a third one takes it; three captures give a line that makes
no row before one that does, with a promotion before and after, and an event the filters
drop among others with and without a navigation; a list one longer than the window is
enough to forget an event on the way, as 1000 against 64 is in the code. The interesting
cases need one fault, expiry or cancellation at a time; where two matter (an expiry and
an abort) both are allowed. Two clients let two requests pass the same depth check
before either has enqueued its job, with one job waiting or running already, which is
what `DepthBound` is about; ids are handed out in a fixed order (`FreshJob`), because
they carry no meaning. One action is enough in `pool`, because actions only repeat the
same suspension point. Four events are what it takes for a burst, something in the
middle of it and what ends it; the eleven of `ingest` have every type, filter and
normalizer apply, with gaps on both sides of the burst limit. Two passes and a
re-classification give every pair of writers to a row; two actions are needed for a
second decision after the audit session was opened; both passes are audited, so that
each can find the other's lock (one without the audit takes fewer steps of the same
kind). Four tasks on two questions and two permits give a cache hit, an eviction, the
same question in flight twice and a waiter. `Replay` uses the code's own
`recovery_max_depth` of 1. Runs with `CHECK_DEADLOCK FALSE` model systems that really
come to rest: all jobs done, the run over, `stop()` returned.

**Fairness.** Weak fairness only, for what the program itself drives: the event loop
runs every ready task (`TaskStep`, `ConnStep`, `Subscriber`, `DrainStep`; in
`Classifier` only some ready task, which is enough for a batch that shrinks), awaited
calls return or time out (Playwright's actions and strategies have timeouts; that
`locator.count`, `page.content` and the engine's `_verify`, which have none, return is
an assumption about the browser; LLM calls `request_timeout_s` and a last attempt,
`stop()` its 5 s), Redis answers, fails or expires keys, cron starts jobs again. Nothing
makes a client connect, a user capture, a run publish, a page change, a job crash or
somebody call `close()`.

## 4. Proofs

Every component with state has its theorems in a `*Proofs` module. They hold for
every value of the constants that the `...Assumption` of the component allows: any
finite sets of jobs, connections, tasks or passes, queues and limits of any size, any
number of failures. The bounds that keep TLC's state spaces finite are such constants, so
they bound nothing in the proofs. No theorem has a hypothesis of its own.
`HostAssumption` of Ingest is about the program that records: it
reports events in the order of their times, and a navigation has no target that could
be disabled.

No property below is inductive alone. Each component's module therefore ends with
the invariant that is (`PoolInv`, `WsInv`, ...), a conjunction of named parts that
TLC has checked on the instances of section 3 before it was proved. A proof module
has lemmas about sequences and finite sets, one lemma per part of the invariant
and under it a step per action, and last the theorems. What `Init` allows and what
steps do to types comes first.

**JobPoolProofs**: `PoolInvariant`, and from it `TypeCorrect`, `PermitsAreConserved`,
`ReplaysAreBounded`, `WakeupsAreNotLost`, `DepthIsBounded`, the action properties
`StatusMovesForward` and `ClosedIsQuiet`; `OutcomesAreConsistent`;
`PoolImplementsJobLife` (`Spec => Life!Spec`).
That permits are conserved depends on the deque holding exactly the waiting jobs,
each once (`WaitersOK`): otherwise a release could wake a job that does not wait.
That at most `Limit` replays run needs the tie between phase and status
(`StatusOK`). `NoLostWakeup` needs both, because a woken task that is cancelled must
wake the next waiter, and `ClosedIsQuiet` needs that `close()` returns only when no
task is left (`ClosedOK`). `OutcomeInv` says at each place where a handler can be
suspended what has been published and saved by then. For the refinement every action
of the pool is a step of JobLife or changes neither `status` nor the gate; a task
that resumes with a permit finds fewer than `Limit` jobs in progress
(`RoomToStart`), and a job in progress means that the pool has not closed
(`RunningNeedsOpen`).

**WsManagerProofs**: `WsInvariant`; `RefCountsAreExact`, `ChannelsAreShared`,
`CloseReachesEveryone`, `NothingIsLeaked`. A reference count is wrong the moment two
coroutines are between lookup and registration, so `LockOK` has to say that the
lock's queue holds exactly those who want it, each once, and that whoever awaits
Redis with the lock in hand is its head. `CloserOK` says that from the snapshot on no
channel is registered or on its way, and that behind `close()` in the queue there are
only leavers; `ChannelOK`, that a subscription and a reader exist only while somebody
refers to the channel or tears it down.

**RunStreamProofs**: `StreamInvariant`; `GapIsBounded`, `RepeatsAreApart`. `ListOK`: the
Redis list goes from new to old. `UnlistedOK`: what is newer than its oldest event
and not in it is paid for by a failed publish or is the one whose LPUSH is
outstanding. LRANGE hands that debt on to the subscriber as `Lacking`, which only a
failed publish increases: from then on SUBSCRIBE is in effect and every PUBLISH is on
the wire. `RepeatsAreApart` holds for a window of any size. `Remembered` says that
the deque holds the last entries that were let through, as many as fit, so what is not
in it was let through a window ago (`ForgottenIsOld`); `WaysOK`, that each way brings the
events in order: what is on the wire or left of the reply is newer than all that came
the same way, hence nothing comes twice on one way.

**MedallionProofs**, gold: `LockInvariant`, `OverlapIsBounded`; `GoldInvariant`,
`TablesGoForward`. The bound does not say who has the key; `LockInv` does: if the key
names a job at work, that job needs no expiry to pay for it. A DELETE by any job takes
one job from the work and at most one key, an expiry takes a key and pays for its job,
and SET NX finds no key. `ForwardInv` adds that until something expires or fails each
thread is awaited by its task, in the one job at work, and holds data no older than
the table.

Silver: `SilverInvariant`; `NothingIsPassedOver`, `SavedRecordingsStay`. The invariant
has a part for each life of a recording. While it is not saved (`RecoveryOK`), and
without an overlap, the promotion under way is alone (`AloneOK`), so the rows it has
counted are all there are. What it inserts is an increasing enumeration of the lines
that make rows after them; a counting argument (`Enumerated`, `Counted`) says that it
has every one, that it is no longer than the lines it covers, and that if all lines make
rows the k-th row is for the k-th line. Once it is saved (`SavedOK`), every promotion at
work has counted all rows, and `LinesBounded` says that there cannot be more lines than
actions with a line, so none of them finds anything to insert. A save that finds rows or
a promotion at work leaves both parts.

Bronze: `UpkeepInvariant`; `RowsGoWhenExpired`. A retention pass works from a list made
earlier, so the theorem is about ids on the list still standing for rows that may go
when the pass commits. `PruneOK` says so of every row that has such an id, and that what
a transaction adds is on no list: `FreshId` is fresh (`FreshFacts`), because only
finitely many rows are known (`FiniteOK`).

**RecordingProofs**, recorder: `RecorderInvariant`; `LogKeepsOrder`, `LossIsBounded`,
`LogIsRegistered`, and the action property `StoppedIsFrozen`. An envelope goes from the
queue through a batch to the log, and `OrderOK` says that all that is in one of them is
older than all that is in the next, but for the one batch that an abandoned `close()`
still writes (`stray`). `QueueOK`: the sentinel is the last thing put, so that an
orderly stop leaves nothing behind. `LossOK`: what is missing is on its way, and after
a cancellation all but one batch of it is. `RowsOK`: the row comes after the lines.

Ingest: `IngestInvariant`; `RowsAreSavedTogether`. Whether the pointer row is there
depends on failures that the writer has swallowed. `RegisteredOK` says that the database
session has kept track of them: if it can still be used, a log with lines is registered.
`FlushedOK` takes that from the flush of `finalize()` to its commit, and `CommitsOnce`
says that nothing was saved before.

What the engine makes of a record: `ContentInvariant`; `NoiseAloneGoes`,
`FormsAreReplayed`, for records of any length and any mix of events. `ContentInv` says
that the actions in memory are numbered and timed as they came (`Recorded`), and that
what is saved is `Process` of what was in memory when it was saved; it needs
`CommitsOnce`. The rest is about `Process` alone. `FilterPicks` says that a pass of the
filters is a selection of places that keeps the order, by numbering the places of a
finite set (`Ranked`); `Normalized`, that the normalizers change no more than a text,
and its word only in the leader of a burst. `FirstPass` and `SecondPass` compose them
(`Engine`), so that every saved action can be followed back to the recorded one.
`PagesStay`: a navigation that is dropped repeats the ones before it, back to one that
is kept. `FieldReplaysAlike`: the last input into a field is the last of its burst, for
a click on an enabled target ends every burst (`MomentEndsBurst`); so the leader of the
burst gets its word, stays, and is the last saved input into the field. The two places
where something is shown for each length (the recursion in `Times`, runs of places)
go by the smallest counterexample (`SmallestOf`), a set, because the induction theorems
of the library cannot be used.

**ReplayProofs**: `ReplayInvariant`; `RecoveriesAreVerified`, `StatusIsTrue`,
`CheapOnesComeFirst`, `EventsAreTrue`, `RunsAreToldTruly`. `ProgressOK` and `EffectOK`
say what the loop has settled. `RosterOK` cuts the strategies that apply in those tried
and those left, at the position of the engine. `Tells` is the grammar of the events of
one action (started once, then succeeded or failed, then pairs of recovery events), from
which the outcome can be read back.

**ClassifierProofs**: `ClassifierInvariant`; `OverspendingIsBounded`,
`VerdictsAreSound`. `BillOK`: today's bill plus the most that the calls in flight can
add stays below the cap plus one call for each task that was ever in flight at once,
and the days to come have been charged nothing. `AnswersOK`: what is cached, or about
to be, was given for that question, which is cached once. `PermitsOK` carries both
past the semaphore.

**ReviewProofs**: `ReviewInvariant`; `DecisionsStay`, `AuditTells`. `NoDecisionLost` is
inductive with the types; for the log `AuditOK` says, while a line is being appended,
that its decision is the last one that took effect and the ones before it are
accounted for.

The order of the strategies (`CheapestFirst`) and the parts of `ToldAsItHappened` have
their theorems and no run of their own.

Only model-checked:

* everything under fairness, because liveness and ENABLED are beyond the prover;
* `PassSucceedsAlone`, which is refuted.

## 5. Where code and documentation disagree

With a run and a finding in `PROJECT.json`, because it makes the program fail:

* The audit session of `rpa confirm --audit-bronze` keeps the write lock from the
  first decision on, so that the second decision of the same pass fails, although
  "Confirmation flow must never fail because bronze is unhappy"
  (`medallion/bronze.py:139`) (`review_alone`).

Met while modelling, visible in the modules, without a run of their own:

* The dedup window is 64 and the history up to 1000 events long: an event that came
  live while LRANGE was awaited is forgotten by the time the history reaches it, and the
  client gets it twice, although the window "suppresses duplicates that fall in the
  LRANGE→SUBSCRIBE race window" (`api/streaming/manager.py:10`).
* A run in which an action was recovered ends as `success`
  (`browser/executor.py:211`); `docs/m10-recovery-engine.md:347` has
  "`RunResult.status=RECOVERED`", and `runs_recovered` of the hot gold table, which
  counts such runs, stays 0.
* A recovered action is not executed again and yet counts as done
  (`browser/executor.py:350`); the same line of the docs has "replay's retry succeeds".
* Retention knows logs as `raw_events_jsonl`, the writer registers them as
  `event_jsonl`: no log is ever pruned, although "`prune_old_artifacts` removes it"
  (`docs/medallion-and-workers.md:166`) and `bronze_retention_jsonl_days` is 30.
* A promotion after the recorder has saved is called a no-op
  (`medallion/silver.py:4`); when the filters dropped more events than there were
  navigations it inserts the last ones again.
* Promotion is called idempotent (`medallion/silver.py:10`); once a line made no row it
  inserts events again.
* Nothing reads the cancel flag that `cancel()` sets, so a running replay goes on
  (`queues/in_process.py:145`).
* A job cancelled before it started stays `queued` and is counted by
  `queue_size()` for ever.
* The backfill is queued after live events that came while it was awaited, so
  history does not come first (`api/streaming/manager.py:9`).
* The gold lock lives 600 s and a job up to 1800 s, so two jobs can write the cold
  tables at a time (`workers/jobs/medallion.py:8` says one).
* A cancelled drain task gives up the batch it was collecting
  (`docs/m6.5-page-scripts-and-bronze.md:290` says it flushes it).
* The windows of attempts are keyed by `attempt_*`, while the writer registers
  `screenshot`, `dom`, `a11y`, which are never pruned; a pruned Parquet
  file is rebuilt from the log by the next compaction.
* Two overlapping promotions of a recording double its rows, and then skip as many
  later lines.
* The LLM strategy is never given a backend by the replay handler;
  the CLI's `record` passes no recording id to the recorder, so
  `finalize_recording` is not called.
* The value that a coalesced burst keeps is not the trimmed one, although
  `classifier/heuristic/normalizers/__init__.py:16` has trimming come first for it;
  an input that clears a field is dropped, so a replay leaves the old text there.
* An ingest session takes events after `finalize()`, which reach the log only.
* Re-running a confirmation skips confirmed rows only with `unconfirmed_only`; the
  default filter goes by confidence (`confirmation/README.md:36`).
* `LLMClassifier.classify` says that it returns None when the budget is exceeded
  (`classifier/llm/classifier.py:115`); it raises, and the batch turns that into an
  error verdict in which what the rules said is lost.
* The cache key leaves out the page title and the surrounding URLs that the prompt
  contains. Without Redis every process has a budget of its own.
* `workers/jobs/classify.py:4` says that rows are updated in place; the job counts.

## 6. Not modelled

The ARQ pool (its behaviour is ARQ's); the Redis variants of the response cache and
of the budget counter, the voting and weighted merges and the JSON and free-form
parsers, none of which the program reaches through `default_classifier`; what
`llm_reselect` persists, because no caller gives it a backend; the remaining
middleware, read-only routes, renderers and prompts, page scripts and data
declarations. Of the modelled parts: the contents of gold tables and artifacts, the
recorder's network log, HTTP details, logging.

## 7. Plan

Done, in this order: JobPool with its proofs, WsManager, RunStream,
GoldPromotion with its proofs, Recorder, Replay, BronzeUpkeep, Silver, JobLife and
the refinement with its proof, Heuristic, Ingest, Review, Classifier; then the proofs
of WsManager, Classifier, Replay, Recorder, Review, `GoldForward`, RunStream, Silver,
BronzeUpkeep and Ingest; those about the operators of Heuristic; last, the save of a
recording in Silver, retention as liveness, and repeats in RunStream. Every safety
property of a passing run has its theorem. To come: a composition of JobPool's events with
RunStream, so that what a subscriber sees of a run agrees with the status that JobLife
gives it.
