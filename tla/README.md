# VerdictLens: TLA+ models and proofs

VerdictLens records what AI agents do. A Python SDK inside the application
turns traced calls into traces, a FastAPI backend stores and analyses them, a
web frontend shows them. This directory holds TLA+ modules translated from the
source, TLC configurations that check them on small instances, and TLAPS proofs
of what matters most for every value of the constants.

## 1. Inventory

Paths are relative to `src/`.

| Part | State | Operations | Interacts with | Hard behaviour | Correct when |
|---|---|---|---|---|---|
| Disk queue, `sdk/verdictlens/queue.py` | one file per payload in a directory; a lock per `DiskQueue` object | `enqueue` (prune, create, write), `clear_file`, `segment_paths` | called by application threads, worker and flusher; the directory is shared by all processes of the user | the lock covers one object, not the directory; create and write are two steps; pruning happens before the write | within its budget; what was written stays until answered |
| Transport, `sdk/verdictlens/client.py` | in-memory queue, stop flag, two daemon threads, the process-wide `_CLIENT` | `send_trace`, `flush`, `close`, `get_client`, `set_client`, `reset_client`, the worker and flusher loops | disk queue, backend, `configure`, `atexit` | queue full, outage, retries, close while threads work, crash, several processes | nothing is lost track of; nothing lost while the client lives; one copy; threads end |
| Configuration, `sdk/verdictlens/config.py` | `_CONFIG` | `configure` (may reset the client) | read anew by every thread | `disabled` changes between two reads | see transport |
| Trace contexts, `sdk/verdictlens/trace.py` | span stack and output registry in context variables | `trace` wrappers, `record_child_span`, `_finalize_span`, `_emit_root_trace` | patched clients; emits to the transport | children that finish after their parent, strands that share a context or have none, lineage by object identity | a trace is a tree that lacks late spans only; lineage names spans that had the very object |
| Ingest, `backend/app/routes.py`, `clickhouse.py` | tables `traces` and `spans`, no uniqueness | `ingest_trace`, `insert_trace`, `_insert_spans` | SDK posts; live feed; online evaluation | two inserts, failure between them, retries of what was stored, an answer that waits for the live feed | an acknowledged trace is complete; what a retry may add |
| Live feed, `backend/app/live.py` | WebSocket set, Redis handle, listener task | `start`, `stop`, `connect`, `disconnect`, `broadcast_trace`, `_redis_listener` | ingest, Redis, browsers, other replicas | listener dies once and for all, start-up window, publish fails after publishing, sockets change while sending | each connected browser gets each trace once, in the channel's order |
| Blame engine, `backend/app/blame_engine.py` | none (pure) | `compute_blame` and its passes | spans read from ClickHouse | order of passes, overwritten marks, ranking by scores | roles, chain and causes agree with the tree and the lineage |
| Evaluations, `backend/app/evaluator.py`, `routes.py` | `evaluations`, `evaluation_results`, ClickHouse's queue of mutations | create, replay or live run, status, delete, CI gate, online rules | datasets, ingest, SDK `evaluate` | partial runs, deletion during a run, a gate read during a run, evaluations left pending | completed is full, the answer tells the outcome, orphans come late |
| Datasets, `backend/app/datasets.py` | `datasets`, `dataset_examples` | create, add, bulk add, delete, trace to example | evaluations | check-then-insert against a two-command delete | no orphan examples but late ones |
| Playground and prompts, `backend/app/playground.py` | prompt versions, request counters | save, publish, promote, delete, run | PostgreSQL, LLM providers | `max + 1` numbering and the counter are read, then written | a version with a parent is the latest; a limit is a limit |
| Auth and workspaces, `backend/app/auth.py` | keys, a 60 s cache per worker | verify, create, delete | every route | cached key after deletion | a deleted key stops working in bounded time |
| Alerts, `backend/app/alerts.py` | rules, `last_fired` | evaluate every 60 s, fire, CRUD | ClickHouse, PostgreSQL, webhooks | a round over rules that fail, come and go | every hot rule is posted again and again |
| Replay, `backend/app/replay.py` | stored replay spans | `execute_replay`, list | LLM providers, ClickHouse | none: a request inserts one row | not modelled |
| Others | | queries, annotations, settings, models, patchers, integrations, serialisers, CLI, frontend, examples, deployment | | reading, formatting, glue | not modelled, see PROJECT.json |

PROJECT.json lists every part with its status, and under `hazards` everything
found in this code that a test would hardly reach, each at its line.

## 2. Plan

Each part is a module of its own, composed only where parts interact, and gets
properties aimed at its hazards, then proofs.

1. `DiskQueue`, `Transport` (composes it), `Delivery` (what the SDK promises):
   done, with proofs up to the refinement.
2. `LiveFeed` and `Ingest` (composes it): done, with proofs.
3. `TraceContext` and `BlameEngine`, composed: the engine is given every trace
   that the model of the SDK emits. Done, with proofs of the trees, the lineage
   and the report.
4. `Datasets` and `Evaluation` (composes it): done, with proofs.
5. `Playground`, `KeyCache`, `Alerts`: done, with proofs of the versions, the
   keys and the limit.

| Modules | Model | Properties | Instances | Proofs |
|---|---|---|---|---|
| Transport | `DiskQueue`, `Transport`, `Delivery` | `TransportProps` | `MCTransport` | `TransportProofs`, `DeliveryProofs`, `OnceProofs` |
| Ingest | `LiveFeed`, `Ingest` | `IngestProps` | `MCIngest` | `IngestProofs`, `FeedProofs` |
| Traces | `TraceContext`, `BlameEngine` | `TraceProps`, `BlameProps` | `MCTrace` | `TraceProofs`, `BlameProofs` |
| Evaluations | `Datasets`, `Evaluation` | `EvaluationProps` | `MCBackend` | `BackendProofs` |
| Control plane | `Playground`, `KeyCache`, `Alerts` | `ControlProps` | `MCBackend` | `BackendProofs` |

Every safety property and action property that a run checks and that holds is a
theorem. What no theorem states is liveness (`EventuallySettled`, `ClosedStops`,
`Answered`, `GoneLeaves`, `RunSettles`, `AlertsHeard`: fairness is out of the
prover's reach), and `NoMutualVictims` and `LocalResultsRecorded`, which are
violated. `NoLoss` and `FeedDelivered` are violated in one instance each and are
theorems under hypotheses that exclude it.

Worth doing next: `AlwaysOnePlace` and `NothingLost` for several clients that
follow one another on the directory; the outcomes of a post that `Transport`
assumes shown to be those that `Ingest` produces; the callback handlers of the
integrations.

Operators marked *mutated form* are the slips that the properties were tried
against; no specification uses them.

## 3. The delivery pipeline

### Modules

- `DiskQueue`: the directory (`data`, `older`) and the per-object `lock`.
  `enqueue` is `Create` (lock, prune, `open`) and `Fill` (write, release),
  because between them other processes see an empty file; `CreateError` and
  `FillError` are its early returns. `PruneLeaves(K)` says which files
  `_prune_locked` leaves.
- `Transport` extends it with `client.py`, `configure` and `emit_trace`.
  `thread[c][t]` holds where a thread is, the payload in its hand and its failed
  posts. Actions are named after the code: `SendTrace`, `WorkerLoop`,
  `WorkerGet`, `PostAnswered`/`PostFailed` (one HTTP attempt each),
  `FlusherPick`, `FlusherRead`, `FlusherSweep`, `FlusherClear`
  (`_flush_disk_once`), `Spill...` (any caller of `enqueue`), `Flush...`,
  `Close`, `ResetClient`, `Configure`, `Exit` (crash or end of a process),
  `ServerSwitch`. `set_client` and `reset_client` clear `_CLIENT` and then close
  the client they took out, which are two steps, `ResetClient` and `Close`:
  another thread may build a new client in between. `configure` writes the
  configuration (`Configure`) and then resets. `Events` selects what the environment does in an instance.
- `Delivery`: the promise to the caller of `emit_trace`, one variable.
- `TransportProps`: the properties, and the refinement mapping `Fates`.
- `MCTransport`: instances. `TransportProofs` (every instance), `DeliveryProofs`
  (no losses, the refinement), `OnceProofs` (a directory of one's own): theorems.

### Runs

| Run | Checks | Instance |
|---|---|---|
| `single` | `TypeOK`, `NoLoss`, `NoDuplicate`, `DurableQueue`, refinement `KeepsPromise` | one client, two application threads, queue of 1, outages, a payload the backend may refuse |
| `budget` | `DiskBudget` | two processes, budget 1, I/O errors, a backend that takes nothing |
| `disturbed` | `Conservation`, `LossesAtEnds`, `SegmentsLeaveSettled` | two clients of one process under budget 1 and one file name, disabled, closed and killed at any time |
| `liveness` | `OnePlace`, `EventuallySettled`, `ClosedStops`, `FlushLeavesInFlight` | one thread that emits and flushes, a poison payload, late errors, outages, close and reset at any point |
| `shared_directory` | `NoLoss` is **violated** | two processes on the default directory |

The violation disagrees with the promise of the module, quoted in PROJECT.json
under `findings`: the lock belongs to the object, the directory to the user. A
flusher that reads another process's file between its creation and its write
finds it empty and deletes it; the write goes to an unlinked file.

Two more things that a reader of the code should know are stated as what does
hold:

- `flush` polls the in-memory queue only, while its docstring speaks of the
  worker. What it guarantees is `FlushLeavesInFlight`: at most the payloads in
  the hands of the two daemon threads are neither answered nor on disk.
- `_flush_disk_once` deletes the segment, then enqueues what is left of it; a
  process that ends in between takes payloads with it that were on disk.
  `DurableQueue` therefore holds where no process ends (`single`), and
  `LossesAtEnds` says what holds where one does: a payload is lost at the very
  step at which something ends, and was in the memory of that.

### Bounds

Two clients are one pair of writers, two processes or one client and its
successor; every property is about at most two clients at once. Three payloads
fill a queue of one while one is posted and one is spilled. Two or more
file names let one payload be written while another is pruned or posted; with
one (`disturbed`) a write waits for the file to be free. The two clients of
`disturbed` also follow one another: a client that starts finds the segments of
one that was closed. There no client is closed while another that was closed is
still at work (`OneCloses`). Two attempts
distinguish a retry from the last attempt (four in the code: the constant
`Attempts`); runs about spilling use one. `copies` counts to 2, which is all
`NoDuplicate` distinguishes. A payload is one unit of the byte budget.

### Fairness

Every thread that can take a step takes it: gets, posts and sleeps have
timeouts and the operating system schedules threads (weak fairness of worker,
flusher and callers). A thread waiting for the disk queue's lock gets it in the
end, as a holder keeps it for one file operation (strong fairness of `Spill`).
Nothing is assumed of the application, of the environment or of the backend;
`EventuallySettled` holds when the backend stays up from some point on and the
client is never closed (what is then left in its queue is lost).

### Proofs

All for any number of clients, processes, threads, payloads and file names, any
budget, any `Events`. Assumptions: `DiskConstants` and `TransportConstants`
(finitely many clients, markers differ from payloads), which every run
evaluates.

- `TypeCorrect`: `Spec => []TypeOK`. `TypeOK` is not inductive: it needs
  `HoldsItem` (a thread about to hand over a payload holds one).
- `BudgetKept`: `Spec => []DiskBudget`. The invariant `BudgetInv` counts written
  files *and* clients that are about to write: `Create` prunes to the budget and
  adds a writer, `Fill` turns a writer into a file, everything else shrinks both.
- `NothingVanishes`: `Spec => []Conservation`. Auxiliary invariants: a resting
  thread holds nothing (`IdleEmpty`); the file behind a lock has one writer and
  no payload (`LockBlank`), so no write overwrites a payload; what a flusher has
  read is in its hand, gone, or answered (`SegmentSeen`), so deleting the
  segment loses nothing; an unbuilt client's flusher is at rest (`Fresh`). One
  lemma per action shows that each payload is kept (`Preserves`).
- `LostAtEndsOnly`, `SegmentsAccounted`: the action properties `LossesAtEnds` and
  `SegmentsLeaveSettled`, from the same invariant. The lemma for an action says
  where a payload that is alive (`Live`) may go (`Outlives`), and `SegmentStep`,
  with one case for each step that deletes files, what becomes of a segment.

The following speak of a client that is alone on its directory. `Sheltered` is:
one client, no disk budget, no `configure`, no crash, no disk error.
`Undisturbed` adds that nobody closes or resets it. Backend outages, refusals,
retries, late errors and a full queue are all in.

- `NothingLost`: `Spec => []NoLoss` under `Undisturbed`. `StaysUp` says that the
  client, once built, stays up and its worker at work; `NothingSwept` that
  nothing is ever dropped, because an empty file is always one the client itself
  is about to write, which its flusher cannot pick while the lock is held. With
  them `Conservation` becomes `NoLoss`.
- `PromiseKept`: `Spec => KeepsPromise` under `Undisturbed`, the refinement of
  `Delivery` without losses. A payload's fate is what the backend has said of it
  (`FateIsVerdict`); `Emit` is `Submit`, a post is `Stored`, `Refuse` or a
  stutter, all else stutters.
- `AlwaysOnePlace`: `Spec => []OnePlace` for one client, whatever the backend
  stores and then reports as an error; budget, I/O errors, crashes, `configure`,
  close and reset are allowed. The invariant is `Once`: a payload is in one file,
  has one turn in the queue and is in one hand; it is on disk *and* in a hand
  only while the flusher posts the segment it has read, and answered *and* on
  disk only until the flusher removes it. The last part, and that what is queued
  or held has not been answered, hold of final answers only (`Final`): those of a
  backend that is `Honest`, which has stored nothing when it reports an error.
- `StoredAtMostOnce`: `Spec => []NoDuplicate` for one client under `Honest`, from
  the same invariant.
- `SpooledUntilAnswered`: `Spec => DurableQueue` under `Sheltered`, so also across
  `close` and `reset_client`: needs `NothingSwept` only, which does not rely on the
  client staying up.
- `FlushLeavesTwo`: `Spec => FlushLeavesInFlight` under `Sheltered` and one
  application thread: with two, the other may send while the first returns.

What the hypotheses exclude is what makes the code lose, repeat or discard a
payload, each shown by a run or told by the code: a second client on the
directory (`shared_directory`); the end of a process or client with something in
memory, `disabled`, a prune, an I/O error (the points where `LossesAtEnds` and
`dropped` say that it is lost); an error reported for a row that was stored, after
which a retry stores it again (`client.py:187`, and there is no uniqueness in the
table).

Only model-checked: `EventuallySettled` and `ClosedStops`.

### Left out

A client built while `disabled` has no directory (`_make_disk_queue`); OTel
export; serialisation failures (the error trace sent instead is one more
payload); the unreachable case of two lines in one segment (`enqueue` writes one
line per file); failures of `unlink`; clock steps and equal milliseconds in file
names (`older` is the order of creation).

## 4. Ingest and live feed

### Modules

- `LiveFeed`: `ConnectionManager` on several replicas. `Start` is the ping that
  decides for the lifetime of the process whether Redis is used; the listener
  task goes from `starting` to `subscribed`, or to `crashed` for good.
  `connections` is `_connections`; `cast[b]` is a `_broadcast_local` in progress,
  by a request or by a listener, one `Send` per step over the copy it took, the
  failed ones discarded in `EndLocal`. `Broadcast` is `broadcast_trace`: publish
  and return, or send locally. `Halt` ends a process. Redis is external: it
  delivers to the replicas subscribed, in the order of the publishes.
  `feed`, `joined` and `doubtful` are history variables, used by properties only.
- `Ingest` extends it: `Post` and `ClientTimeout` are the SDK,
  `InsertTrace`, `InsertSpans`, `BroadcastTrace` and `Reply` the steps of
  `ingest_trace`; `Crash` takes a replica with all its requests, `StoreSwitch` is
  ClickHouse. The tables are counts of rows, as they have no uniqueness.
- `IngestProps`: properties. `MCIngest`: instances. `IngestProofs`: theorems.

### Runs

| Run | Checks | Instance |
|---|---|---|
| `ingest` | `TypeOK`, `AckedComplete`, `TornByFailureOnly`, `FeedAfterStore`, `FeedDelivered`, `FeedInOrder`, `ConnectionsServed` | without Redis: one replica, a trace posted up to twice, crash, outage, late errors, timeouts, two browsers that come and go during overlapping broadcasts; with Redis: two replicas that crash and restart |
| `feed` | `FeedOnce`, `Answered`, `GoneLeaves` | two replicas, a browser of one that may leave or stop reading, a trace posted to both, also while the first post runs on, Redis and ClickHouse failing, fairness |
| `feed_outage` | `FeedDelivered` is **violated** | Redis away for a while |

The violation is a fault in the code: the listener ends for good with the first
error (`live.py:154`), while `_redis` stays set. When Redis is back, publishing
succeeds and returns without a local broadcast, and the replica's browsers
receive nothing until it is restarted. While Redis is away everything works.

What the runs say about repeated posts: a trace may have several rows, and the
feed may show it several times, once per request that got that far (`FeedOnce`).
Only a publish that raises after Redis has taken the message shows the trace once
more than that, to the browsers of its own replica: it is broadcast locally and
then relayed (`Both`). Rows of `traces` without their spans are bounded by the requests that failed, died or
are between the inserts.

### Bounds

`ingest` holds two instances, told apart by what the first state says of Redis:
`Bounds` keeps the one without to one replica and one trace, the other to a
healthy surrounding (no outage, no departures, one post for each trace).
Two replicas are one that publishes and one that relays; two browsers on one
replica are one whose send fails, or that arrives, while the other waits. Two
attempts are a post and its retry (four and the disk queue's in the code), and
with a client that gives up they are two requests at once, whose broadcasts
overlap. In `feed` they are on different replicas, and only the first one has
browsers (`Apart`), so that a trace reaches the same browser by way of two
replicas. Two traces can be told apart in the order of the feed. The first
WebSockets of a restarted replica are among those that have not connected yet.

### Fairness

Coroutines and executor threads run on: weak fairness of every step of a
request, of relays, of the ends of broadcasts and of the `finally` clause of
`live_feed`. A send to a browser that has left fails or is lost. One to a browser
that stays without reading may never return (`Slow`), and as a broadcast sends to
one WebSocket after the other, nothing is assumed of the sends of a broadcast that
has such a browser before it (`Waiting`). `ingest_trace` awaits its broadcast, so
such a browser can keep the answer to a post from the SDK for good; `Answered`
says that this is the only thing that can, and only where the request sends by
itself: what it has published is the listener's to wait for. Nothing is assumed of
clients, browsers, Redis or ClickHouse.

### Proofs

For any numbers of replicas, browsers, traces and attempts, any `Events` and
`FeedEvents`, from `FeedConstants` and `IngestConstants`:

- `IngestTypeCorrect`: `Spec => []TypeOK`, inductive as it stands; with the types
  it says that a replica publishes to Redis only if it has a listener.
- `AckedIsComplete`: `Spec => []AckedComplete`. The invariant is `StepsStored`: a
  request past an insert has left its rows. It is kept because rows are only
  added (`TablesGrow`), so what other requests do cannot undo it.
- `FeedShowsStored`: `Spec => []FeedAfterStore`. A trace enters the feed in
  `BroadcastTrace`, where `StepsStored` gives its rows, and moves from inbox to
  broadcast to browser (`InboxStep`, `CastStep`, `ReceivedStep`).

- `ServedAreConnected`: `Spec => []ConnectionsServed`, with `StaleGone`: what a
  broadcast will discard at its end, from a copy of the set made long before, has
  been found gone, and a browser that has left stays gone.
- `TornTracesAreUnfinished`: `Spec => []TornByFailureOnly`. `RowsBounded` bounds
  the rows of a trace from both sides by the cardinalities of two sets of its
  requests; the lower bound (requests about to insert spans have a row each) is
  what makes the upper one inductive. `CalmKeeps` disposes of all steps but the
  two inserts.

The live feed (`FeedProofs`). All build on `Headed`: the types, the connections,
and that a broadcast by a request is of its own trace to sockets of its own
replica (`Placed`), while a socket that has not connected was sent nothing
(`Untouched`).

- `FeedShowsOnce`: `Spec => []FeedOnce` in every instance. What a browser has is
  not inductive: `ShownAtMost` counts, with what it has received, the broadcasts
  that still have to send to it and what waits in the inbox of its replica's
  listener (`Shown`), and compares that with what the replica was to relay
  (`Due`). `DueAtMost` bounds that in turn by the posts that have been broadcast
  and the doubtful publishes: `BroadcastEntitles` is the step that adds to both,
  once for each post (`CastingKept`, `Doubted`).
- `FeedDelivers`: `Spec => []FeedDelivered` if `"redis"` is not in `FeedEvents`:
  Redis is there for good or not at all. `ShownAtLeast` is the converse bound on
  `Shown`, and `Listening` says that no listener has crashed. The hypothesis is
  what `feed_outage` shows to be needed.
- `FeedKeepsOrder`: `Spec => []FeedInOrder` if moreover a publish that fails has
  not been taken (`"ambiguous"` is not in `FeedEvents`); one that was taken is
  broadcast locally as well and relayed later, out of order. What waits in an
  inbox is the end of the feed (`RearOfFeed`), and a browser has, is being sent
  and is still to be relayed, in that order, the feed from a point before it
  connected on (`NoGap`). `Wired`, `Housed` and `Direct` say that a replica with
  Redis broadcasts through its listener only.

Only model-checked: `Answered` and `GoneLeaves`.

### Left out

The online evaluations after the answer (they are in `Evaluation`), the check of the
API key on the WebSocket, the executor's pool of threads, the graceful drain of
requests before `stop`, the contents of rows.

## 5. Traces and blame

### Modules

- `TraceContext`: `trace.py`. A *strand* is a thread or a task with its own
  context variables: `Spawn` copies the context (a task) or not (a thread).
  `strand[k].active` is `_active_span`; `strand[k].reg` is the root whose
  `_output_registry` and `_output_refs` the strand refers to. `Call` is the first
  half of `_run_traced_sync` and `_run_traced_async` (a span under the active
  one, `_detect_sources` of its arguments), `Return`, `ReturnSmall` and `Raise`
  the second, with `_register_output` or `_propagate_bad_inputs` and
  `_finalize_span`: a child hands itself and its children to its parent, a root
  emits. `PatchedCall` is `record_child_span` of a patched client,
  `InstrumentedCall` the trace that the instrumented OpenAI client emits by
  itself. An object is an identity, `id(obj)`: `Collect` is the garbage
  collector, which frees the identity of an object that no registry keeps, and a
  later `Return` may use it again. `touched` and `late` are history.
- `BlameEngine`: `blame_engine.py` as functions of a trace `T`: the passes
  (`BadBelow`, `FromAbove`, `Introducers`, `Feeders`), roles, scores in units
  of 1/1200, retry storms, the lead that makes the confidence, the spans named,
  the chain and the causes. The passes are recursive functions over the tree.
- `BlameProps` composes the two: whenever a root emits, the engine is asked about
  its trace, for every way results are empty (the engine scores an empty dict,
  a blank text and an empty list differently), every choice of the spans that
  were given their `None` by position, anomalous spans and tight storms. The trees, orders and sources that the engine is tried on are those
  that the SDK can produce, including those of spans on other strands.

### Runs

| Run | Checks | Instance |
|---|---|---|
| `tracing` | `TypeOK`, `TraceIsWhole`, `LineageSound`, `LineageKept`, `BlameFounded`, `BlameNamed` | two strands, four spans, `None` and one identity that is used again |
| `mutual_victims` | `NoMutualVictims` is **violated** | the same |

- `TraceIsWhole`: an emitted trace is a tree, and it lacks late spans only. A
  span is late when its parent had been closed before it was: a task that goes on
  after its parent has returned. It is dropped silently (`trace.py:560`).
- `LineageSound` depends on `_output_refs`: an identity in the registry cannot be
  used again before the trace is done. `LineageKept`: a call that is given an
  object gets as source the span of its trace that held it last, which is the one
  that returned it or, after `_propagate_bad_inputs`, the one that failed on it
  since; other strands on the same registry do not come in between.
- `BlameFounded`: a trace with bad spans has an originator, except where a
  sibling is blamed; originators have nothing bad below and were given nothing
  bad; a victim never outranks an originator. `BlameNamed`: whatever the
  anomalies do to the ranking, the chain holds all that is named, causes are the
  nearest failing spans above, and one storm of retries counts as one failure; two are
  two, and may be ambiguous.
- The violation: a span without children that was given `None` is marked by the
  sibling pass as a victim of a sibling that returned an empty output, and the
  data-flow pass may mark that sibling as a victim of the span. The docstring of
  the sibling pass says that this is prevented; it is within that pass only. The
  trace then has no originator and the span ranked first is named.

### Bounds

A parent, a child, its sibling and one more are what the sibling pass, the
hand-over of children and a storm of three failures need. Where two strands
interleave, at most `MaxShared` = 3 spans are used: the parent that may be closed
first, the late span and one below it. One identity besides that of `None` is
enough, as the properties speak of each object by itself.

### Proofs

For any strands, spans and objects, from `TraceConstants`. The variables split in
two: the tree (`strand`, `span`, `children`, `trace`, `late`) and the lineage
(`sources`, `registry`, `refs`, `alive`, `touched`), of which the tree never
reads.

- `TracesTyped`: `Spec => []TypeOK`, whose last conjunct (a strand under a span
  has the registry of that span's root) needs `Rooted`: a span has its parent's
  root.
- `TracesAreWhole`: `Spec => []TraceIsWhole`. It is not inductive, as it speaks of
  emitted traces only. `HandedUp` says it of the lists of children that are on
  their way up: each holds, with a span, its parent, if that is not the list's
  owner. `NoneLost` says that a span that is not late is in every list that its
  parent is in, or that its parent owns. When a root emits, its list is its trace.
- `LineageIsSound`, `LineageIsKept`: action properties, from `LineageInv`: what a
  registry attributes to an identity is the last span of its trace in `touched`,
  the spans that returned an object or failed with it, in order; and `refs` keeps
  the object alive, so that `Return` does not reset `touched` while a registry
  refers to the identity.

The blame engine (`BlameProofs`), over every trace that the SDK can emit, of any
size and shape:

- The passes are recursive functions over the tree, of which TLA+ knows nothing
  until it is shown that such a function exists. The library's induction theorems
  take an operator as a parameter, but those on well-founded relations do not: a
  set of numbers has a least element (`WFMin` of `<` on `Nat`). From this,
  `Recursion`: if every value is computed from values of smaller rank (`Guided`),
  the equation has a solution. Facts about a solution follow from a least
  counterexample. The sum of pass 3, a fold over a set, is treated the same way
  with the cardinality as rank (`TotalPositive`).
- The rank is the order in which spans finish. A trace is `Orderly` if there is
  such an order in which a span finishes before its parent and after its lineage
  sources. `BelowIsUnder`, `ChainIsAboveBad` and `CauseIsNearest` say what the
  recursions compute, in terms of the ancestors; `BadIsNotFromAbove` says that
  pass 4 never reaches a bad span, as a parent with a bad span below it passes on
  only what it was passed. `TraceFounded`: the bad span that finished first is an
  originator.
- That the SDK sends orderly traces is an invariant of `TraceContext`, `OrderInv`:
  there is an order of the closed spans (`Ordered`, an existential: no clock is in
  the model) that agrees with the tree and the lineage. The span that closes is
  put at the end; `SourcesClosed` and `LateApart` (a late span is in no list)
  make this possible. It rests on the invariants of `TraceProofs`.
- `BlameIsFounded`: `Spec => BlameFounded`. `BlameIsNamed`: `Spec => BlameNamed`.

The anomalies of `BlameNamed` are as in the run: those of one span at a time and
tight latencies; `BlameFounded` is about traces without them, for every choice of
empty outputs and arguments by position. What is computed of other inputs is
stated by `TraceFounded`, `TraceChained` and `TraceSettled` of each orderly
trace: the names, and so the groups and the number of storms, are arbitrary there.

### Left out

Times, names, models, tokens and costs; small outputs have no lineage at all
(`ReturnSmall`); generators and streamed responses are returned objects. The
clients of Anthropic and Google are patched like OpenAI's: `PatchedCall` stands
for all. The engine's failure modes, secondary contributors, wording and
summaries are not modelled.

## 6. Datasets and evaluations

### Modules

- `Datasets`: `datasets.py` over ClickHouse, whose `ALTER TABLE ... DELETE`
  returns at once and is carried out later, for the rows that were there
  (`doomed`, `MutateDatasets`). An import is a loop of `AddCheck` and `AddInsert`;
  `delete_dataset` is two commands, `RemoveExamples` and `RemoveDataset`.
- `Evaluation` extends it. A request that runs an evaluation (`run[v]`) lists the
  examples, marks the row "running", inserts a result per example, marks it
  "completed" and answers; `RunFails` is the exception handler, with each outcome
  that the two updates involved may have, `CutRun` an error outside it, answered
  500, or the end of the process. `updates[v]` are the mutations of the row that ClickHouse has
  still to carry out. `DeleteResults` and `DeleteRow` are `delete_evaluation`.
  `Firing(t)` is `_run_online_evals_for_trace`, `GateStart` and `GateEnd` the two
  reads of `get_evaluation` behind the CI gate, `LocalFetch` to `LocalReturn`
  `evaluate()` of the SDK with a `pipeline_fn`. A scorer is the set of scores that
  it may give; a score is a level 0..2.
- `late`, `cleared` and the field `late` of a result are history.

### Runs

Both are instances of `MCBackend`, whose variable `focus` says which part a
behaviour exercises: parts that share no row are not interleaved.

| Run | Checks of these modules | Instance |
|---|---|---|
| `backend` | `TypeOK`, `CompletedIsFull`, `AnswerTellsOutcome`, `OrphansAreLate`, `FiredHasResult`, `GateCountsAll`, `RunSettles` | a dataset, two examples, two evaluations, a rule, a task |
| `local_results` | `LocalResultsRecorded` is **violated** | an evaluation with a `pipeline_fn` |

- The focus `datasets` adds, imports and removes at any time; `watched` runs an
  evaluation that is deleted at any time; `gated` one that the gate reads at any
  time; `online` fires a rule while rule and evaluation may be deleted;
  `pipeline` runs `evaluate()` while the dataset may leave and the process end.
- `GateCountsAll` is why `get_evaluation` must read the row before the averages:
  read the other way round, a run that completes in between shows "completed"
  with an average over a part. What the gate may do is pass on a part of the
  results of a run that it reports as "running" (`routes.py:1236` never looks at
  the status).
- `AnswerTellsOutcome` records that a 404 or 422 leaves a row pending for good.
- The violation: `_run_local_live` posts an ordinary live evaluation, which the
  backend runs with model calls of its own before it answers. The scores that
  `pipeline_fn` earns are returned and never sent, against two docstrings.

### Bounds

Two examples are one that is scored and one that is not yet; `e1` is scored by
exact match, `e2` by a judge with two answers. Two evaluations are one that a
rule creates and one that follows. Outside the focus `datasets` the examples are
there before the first evaluation. No second `DELETE` of an evaluation is given
while the first is pending.

### Fairness

`RunSettles`: the executor runs every step of a run (WF of `Runner`), ClickHouse
carries out every mutation it took (WF of `MutateEval`). Nothing is assumed of
clients, of datasets or of failures: a run that a fault has ended is excepted.

### Proofs

In the first part of `BackendProofs`, for any datasets, examples, evaluations,
rules, tasks, scores and thresholds, from `DatasetConstants` and
`EvaluationConstants`. The invariant is `BackendInv`, four parts that rely on few facts of each other:

- `DataInv`: the examples of a dataset that is leaving are doomed or late.
- `EvalInv`: for each evaluation `EvalOk(v)` relates its row, the updates still
  to come, the request that runs it and its results. An update that was only
  submitted counts like one carried out (`Pending`, `Final`), or `CompletedIsFull`
  would not be inductive. One lemma for each step of the run, of the deletion and
  of ClickHouse.
- `OnlineInv`: a task past its insert, and a rule that fired, have an online
  evaluation with a result or a cleared one. `Preserved` says what the steps of
  others leave them.
- `GateInv`: between the two reads of the gate, the evaluation it read as
  completed is full or cleared.

From it: `EvaluationsTyped`, `CompletedAreFull`, `AnswersTellOutcomes`,
`OrphansCameLate`, `FiredHaveResults`, and the action property `GateIsWhole`.
Only model-checked: `RunSettles`.

### Left out

Lists, comparisons and exports only read. Scorers, comments and averages are
data; failures of a model call are scores (the code turns them into 0).

## 7. Prompts, limits, keys and alerts

### Modules

- `Playground`: `save_prompt_version` reads the numbers of a name, then inserts
  (`NumberVersion`, `InsertVersion`); `Promote` is a save with the source as
  parent. `check_rate_limit` reads the row and decides (`CheckLimit`), then commits
  the columns that changed (`CommitLimit`); each worker process answers one run
  at a time.
- `KeyCache`: each worker's event loop looks up keys (`ReadKey`, `CacheKey`) while
  its executor deletes them (`DeleteKey`, then `StepDelete`: the commit, then the
  drop of the entry).
- `Alerts`: each worker's loop lists the rules and evaluates them one by one; an
  error in one is passed over; a webhook is posted if the rule has one (`Hooked`),
  then `last_fired` updated.

### Runs

`backend` checks with the focus `playground`, `limit`, `keys` and `alerts`:

- `VersionsGrow`: a save with a parent makes the highest version of its name,
  unless another save of that name got in between. Numbers are not unique: two
  saves that read the same highest number insert the same one, and there is no
  constraint (`database.py:71`); a save without a parent has the number 1.
- `GrantsBounded`: more runs than the limit are granted in a window only if two
  workers were between read and write at the same time. The first run of a window
  is granted without a look at the limit, which the settings do not validate: a
  limit of 0 grants one run per window. That the limit is passed where two workers
  collide is what the code does, and the property says nothing against it.
- `KeyFresh`: a deleted key is refused by the worker that deleted it from the
  answer on, by the others one TTL after the commit; but a worker that had read
  the row before the commit may cache it afterwards, and keep it one TTL longer.
- `AlertsHeard`: while the stores answer, a rule with a webhook that stays over
  its threshold is posted again and again, whatever the other rules of the round do.

### Bounds

Three versions of one name are a parent and two that race; a limit of two is
passed by two workers; `MaxClock` = 4 spans two windows and two TTLs and bounds
the clocks in `MCNext`; three alerts, one of which can never be evaluated and one
has no webhook; one worker's rounds, as rounds share `last_fired` only.

### Fairness

`AlertsHeard`: the event loop runs every step of a round (WF of `Looping`). The
assumption is stated for the focus `alerts` only, as the steps of that part are
taken in no other. Nothing is assumed of metrics, databases or receivers.

### Proofs

In the second part of `BackendProofs`, for any names, versions, workers and
keys, any limit, window and TTL:

- `KeysFresh`: `KeySpec => []KeyFresh`. Before the commit entries are bounded by
  the time that has passed (`CachedForTtl`); the commit freezes that bound as
  `deletion[k].at` (`FrozenByCommit`), and the drop empties the deleter's entry
  (`DroppedByDeleter`).
- `GrantsAreBounded`: `PlaySpec => []GrantsBounded`. While no two workers have
  collided, at most one is between its read and its write (`OneAtATime`), it has
  what the row says (`AgreesWithRow`), and the count of the row covers all runs
  granted, up to the limit, or to one where the limit is less.
- `VersionsAlwaysGrow`: `PlaySpec => VersionsGrow`. A save that is between its read
  and its insert has a number above all that it has seen, none of which is new
  any more (`AheadOfSeen`); a version that it has not seen came in between. The
  maximum exists because numbers are bounded at any time (`NumbersBounded`,
  `BoundedHasMax`), not because they are finitely many.

Only model-checked: `AlertsHeard` (fairness).

## 8. Not modelled

- Replay, annotations and trace queries: a request reads, or inserts one row;
  nothing is shared or changed twice.
- The callback handlers for LangChain and LlamaIndex, CrewAI and AutoGen: their
  steps are taken by frameworks that are not in this repository, so that the
  order of callbacks would be an invention. One hazard there is listed.
- Settings, models, schema, serialisers, prices: declarations and formatting.
- The frontend, the examples, the benchmarks and the deployment.
- The environment settings of the SDK and the legacy API key: constants of a
  process.
- Hazards without a property, each with its reason in PROJECT.json: the start-up
  window of the listener, an online evaluation per repetition of a post, the
  `del` of an entry that another thread has dropped, a failing webhook that
  counts as fired, and the two about LangChain and about token counts.
