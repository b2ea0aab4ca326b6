# Verification of agentotel in TLA+

agentotel collects telemetry of AI agents: an OpenTelemetry collector
(`src/opentelemetry-collector`, Go) receives it, queues it and exports it;
`backend-api` (`src/server/backend-api/backend_api.py`, Python) authenticates
projects, stores the data in ClickHouse, one database per project, and answers
the queries of the frontend. This directory holds TLA+ models of the parts of
that path in which goroutines, threads, crashes and failing calls meet, the TLC
configurations that check them, and TLAPS proofs.

File names below are relative to `src/`. `queue/` stands for
`opentelemetry-collector/exporter/exporterhelper/internal/queue/`, `queuebatch/`
for its sibling, `backend_api.py` for `server/backend-api/backend_api.py`.

## 1. Inventory

| Component | State it keeps | Operations | What is hard | What makes it correct |
|---|---|---|---|---|
| cond (`queue/cond.go`) | number of waiters, a channel with one token | Wait(ctx), Signal, Broadcast, all under the owner's mutex | a waiter may leave by ctx.Done() while a token is meant for it; Signal sends with the lock held | waiters and tokens add up, nothing blocks under the lock |
| memory queue (`queue/memory_queue.go`) | linked list, size, stopped, pooled result channels, reference counts | Offer, Read, onDone, Shutdown | blocked producers, cancellation, recycled objects, an Offer that overlaps Shutdown | size exact, each result reaches its own Offer, no lost wakeup, Shutdown drains |
| async queue (`queue/async_queue.go`) | consumer goroutines | Start, Shutdown | consumers parked while elements wait | work conservation, Shutdown ends |
| persistent queue (`queue/persistent_queue.go`) | indices, dispatched list and sizes in memory and in the storage, items in the storage, a reference count on the client | Start with recovery, Offer, Read, onDone, Shutdown | crash between any two storage calls, failing storage, shutdown during an export | nothing accepted is lost, no index is handed out twice, the client stays open while used, sizes survive restarts |
| batchers (`queuebatch/partition_batcher.go`, `multi_batcher.go`) | current batch, timer, worker pool, LRU of partitions | Consume, timer flush, eviction, Shutdown | Consume, timer, eviction and Shutdown race for the batch; eviction uses the worker pool its flush needs | every Done is called exactly once, no data left behind, no worker waits for workers |
| senders (`retry_sender.go`, `timeout_sender.go`, `obs_report_sender.go`, `base_exporter.go`) | stop channel, backoff, instruments | Send, Shutdown | a push that fails may have delivered all or part; interrupted backoff, permanent against retryable errors, order of Shutdown | what is known to be delivered is not sent again, every item is counted once |
| batch processor (`processor/batchprocessor`) | shards, channels, timers | consume, startLoop, Shutdown | consume racing the final drain, the timer that is stopped and reset, the metadata limit | everything consumed before Shutdown is sent, the limit is exact, no batch waits for ever |
| shared components (`internal/sharedcomponent`) | one instance for several nodes, Once, past events | Start, Shutdown, Report | started by its first node; each report goes to every node | started once, stopped once |
| service (`service/`, `otelcol/`) | component graph, status of each component, collector state | Run, Start, Shutdown, reload, status reports | order of start and stop, a start that fails half way, reports and Shutdown from other goroutines, a channel only the loop reads | what is started is stopped once and after what feeds it; Run returns; the last status is right |
| memory limiter (`internal/memorylimiter`) | one flag, a ticker | CheckMemLimits | depends on the Go heap | not modelled |
| backend request threads (`backend_api.py`) | the global `CLICKHOUSE_URL`; databases and tables in ClickHouse | ingest, queries, project creation, login | a thread per request around one global, statements that fail half way | a request works on its own project's database; the URL is restored; a project with a key has its tables |
| backend accounts (`backend_api.py`) | users, codes, agents, keys in ClickHouse | request code, login, create/rename/delete agent, regenerate key | check-then-insert on a database without transactions, updates that are applied later, requests that fail half way | names are unique, the last agent stays, a deleted agent's key is refused, a code logs in once, a login leaves a project that works |
| transformation and cards (`backend_api.py`), status API, frontend, SQL schema, pdata, confmap, generators | none of their own | pure functions, glue, generated code | | not modelled |

How they interact. A receiver calls processors and exporters synchronously. An
exporter's `BaseExporter.Send` puts the request into the queue (`Offer`); queue
consumers hand it to the batcher or, with batching off, straight to the retry
and timeout senders, and report the outcome through `Done.OnDone`, which frees
the queue's size and wakes blocked producers through the cond. `Shutdown` stops
retries first, then drains the queue. The exporter posts to `backend-api`, whose
request threads share `CLICKHOUSE_URL`: `project_database` points it at the
project for the duration of a `with` block and every `ch_post` reads it. The
service starts the nodes of the graph from exporters to receivers and stops them
the other way round; `Collector.Run` drives it from one goroutine, and components
report their status, fatal errors included, from their own.

The hazards of this code, each at its line and with the properties that cover
it, are listed in `PROJECT.json`.

## 2. Modules

| Module | Models | Notes |
|---|---|---|
| `Cond` | `queue/cond.go` | one step between two lock or channel operations |
| `MemoryQueue` | `queue/memory_queue.go`, `queue/async_queue.go`, `queuebatch/disabled_batcher.go` | instantiates `Cond` for `hasMoreSpace`: the queue's actions are conjunctions with actions of `Cond` |
| `PersistentQueue` | `queue/persistent_queue.go`, the same consumers, the shutdown order of `base_exporter.go`, the outcomes of `retry_sender.go` | instantiates `Cond` too |
| `Batcher` | `queuebatch/partition_batcher.go`, `multi_batcher.go`, `batcher.go`, `traces_batch.go`, the Shutdown of `queue_batch.go` | the queue is reduced to consumers that read a stream of requests |
| `BatchProcessor` | `processor/batchprocessor/batch_processor.go`, `config.go` | its next consumer is a variable pair `call`, `ans` |
| `Exporter` | `exporterhelper/internal/retry_sender.go`, `obs_report_sender.go`, `timeout_sender.go` (as an outcome), `base_exporter.go` | serves the calls of `BatchProcessor` |
| `Delivery` | what a pipeline promises for each span | abstract specification |
| `Pipeline` | receiver handlers, `BatchProcessor` and `Exporter` together, with the shutdown order of `service/internal/graph/graph.go` | implements `Delivery` |
| `Collector` | `otelcol/collector.go`, `service/service.go`, `service/internal/graph` (`graph.go`, `host.go`), `service/internal/status/status.go`, `service/extensions/extensions.go`, `internal/sharedcomponent` | |
| `Backend` | the request threads of `backend_api.py` | extends `Server` |
| `Accounts` | agents, keys, phone codes and logins of `backend_api.py` | extends `Server` |
| `Server` | the threads of `backend_api.py`, which `Backend` and `Accounts` have in common | |
| `CondProofs`, `MemoryQueueProofs`, `PersistentQueueProofs`, `BatcherProofs`, `BackendProofs`, `CollectorProofs`, `PipelineProofs` | theorems | |
| `Totals` | lemmas on sums over finite sets and on folds, by induction | used by the proofs of the queues, the batcher and the collector |
| `MCCond`, `MCMemoryQueue`, `MCPersistentQueue`, `MCBatcher`, `MCPipeline`, `MCCollector`, `MCBackend`, `MCAccounts` | symmetry sets, request streams, configurations and graphs for the runs | |

`Cond` is the synchronisation inside both queues: their actions are written as
conjunctions with its actions, so that every behaviour of a queue is one of its
cond by construction and what is shown of `Cond` may be used there. `Delivery` is the
abstract specification of a pipeline: a span that was accepted in time is
exported or dropped once, and the pipeline closes only when none is pending;
`DeliverySpec` in `Pipeline` says that the composition implements it, and
`PipelineProofs` proves it.

### Correspondence with the code

*Cond.* `mu` is `c.L`, `waiting` the field, `ch` the tokens in the channel and
`at[g]` where goroutine g is between the calls. Signal decrements `waiting` and
then sends: the two are separate steps, since the send may block. A blocked
sender that hands its token to a receiver directly is the same as a buffered
token that is received.

*MemoryQueue.* `items`, `size`, `stopped` are the fields; `pool`, `allocated` and
`result` the `blockingDonePool` and the channel of each object; `refs` the
reference counter. `ppc` and `cpc` are the positions of producers and consumers.
`hasMoreElements` is a `sync.Cond`, whose wait set is the consumers in "parked".
Everything between Lock and Unlock that cannot block is one step. Whether
producers wait for results and whether they block on a full queue is chosen by
`Init`, so the run covers all four settings; so is `unit`, the one size that all
requests have (with the requests sizer), or `None` when each has a size of `Sizes`. `late` remembers the elements
pushed after `stopped` was set.

*PersistentQueue.* `meta` is the metadata in memory, `smeta` and `store` what the
storage holds. A `Batch` is atomic; a failing one may or may not have been
applied. A crash or the end of a Shutdown (`Die`) clears everything but the
storage and the history. `pend` is the list of items Start read before it
deletes them and puts them back. `accepted`, `completed` and `dropped` record
what became of each request. Left out: the metadata keys of older versions, the
byte size (it is kept exactly as the item size is), telemetry.

*Batcher.* A request is a sequence of items, `MergeSplit` cuts the concatenation
of the current batch and the request into pieces of `MaxSize`, and an item that
is larger than `MaxSize` by itself ends the split with an error (bytes sizer). A
batch is its items and the requests whose Done it calls. `cur`, `active`,
`onEmpty`, `wg` are the fields of a partition, `armed` says that its timer will
fire, `workers` counts the tokens of the pool, `refs` and `failed` are
`refCountDone`, `lru` and `mbLock` the LRU and its mutex. Goroutines are the
consumers and, per partition, the timer, the shutdownInternal that an eviction
starts on a worker, and the one that Shutdown starts; `jobs[g]` are the batches g
still has to flush. `flush` is two steps, `stopWG.Add` and the wait for a worker,
because shutdownInternal may look at stopWG between them. Time is left out: an
armed timer may fire at any moment and a partition without data may have been
idle for ten timeouts. `taken`, `sent` and `refused` are history variables. The
LRU is external (`simplelru`), modelled as its callers use it: Get moves to the
front, Add evicts the last, Remove and Purge call the callback.

*BatchProcessor.* A caller of consume brings an item, a sequence of spans, under a
combination of metadata values. `created` and `mbSize` are `mb.batchers` and
`mb.size`; the lookup without the lock and the test of the limit under it are
separate steps. A shard's position `spc` follows startLoop: the select, processItem
with its loop of sendItems, the timeout case, the drain after shutdownC and the
last flush. `timer` tells whether the timer's channel holds a value ("fired") or
the value was taken, since stopTimer would block on an empty channel. The choice
of configuration goes through `Validate`.

*Exporter.* A call goes through obsReportSender (`inFlight`, `itemsSent`,
`itemsFailed`), the loop of retrySender.Send and a push. A push may succeed, fail
for good, fail without saying what arrived (nothing or everything has), or name
the part that failed, which OnError then makes the request. `bounded` says whether
max_elapsed_time is set; the time itself is the bound `MaxTries`. The queue is not
in this composition: with it, accepting and delivering are what `MemoryQueue` and
`PersistentQueue` are about.

*Pipeline.* `sd` is the component whose Shutdown `ShutdownAll` is in. A graceful
receiver waits for its handlers; other receivers are allowed not to.

*Collector.* `run` is the position of Run, `then` what follows the shutdown of the
service. StartAll and ShutdownAll take any node the topological order allows
(`Needs`). A node's Start and Shutdown are two steps each, so that reports of
components fall between. `comp` is the state of a component, `sources` and
`events` the hostWrapper of a shared one. `mu` is the status reporter's lock, held
by the component that waits to hand over a fatal error; in any other report the
lock is taken and released within a step. `troubled`, `downs` and `fatal` are
history. The ring that keeps a shared component's last five events is not
bounded in the model, `MaxReports` is smaller. The config provider, the building
of the graph and telemetry have no state here, so their errors, and those of
telling the extensions that pipelines are not ready, do not enter the error that
aborts a reload; a component that fails to stop leads there too. A stop reports
Stopping for the graph and for a shared component's other nodes in one step
(`StopBegin`), where the code takes the reporter's lock twice.

*Backend.* `url` is `CLICKHOUSE_URL` by the database it names; `databases`,
`tables`, `owner` and `keyed` what ClickHouse holds; `pc`, `job`, `old`, `k` and
`ok` a thread's position, request, `old_url`, next statement and whether an
error is under way. A statement is one step on the database the URL names at
that moment, and fails when that database, or the table, is not there. A
statement that raises may have been executed (the 10 s timeout). A request
without rows, or a search without `session_id`, still enters the block. `log`,
`stored` and `overlap` are history variables. Login is modelled from
`ensure_user_default_project` on, authentication as the condition under which it
succeeds.

*Accounts.* Tables are sequences of rows; a request is a record of its local
variables with a position, and every step is one statement. The rows a loop has
left to do are a set, taken oldest first, as `ORDER BY created_at` has them. An `ALTER ... UPDATE`
without `mutations_sync` goes to `revoking` or `codeMuts` and is applied at any
later time. Any statement may raise. `raced` collects the kinds of requests that
overlapped and `lagged` says that a mutation was still pending when it mattered:
the properties say exactly which overlaps and delays they do not survive. A statement
that raises has no effect here (`Raise`): one that was executed before it raised
leaves the rows of a raise at the next statement, or, if it was the last, those of a
success, with another answer. The updates of `last_used_at` and `last_login_at`, on
which no decision rests, are left out. Session
tokens, headers and the formats of phone numbers are left out.

## 3. Runs

All runs but `pipeline` have deadlock checking off: goroutines that have nothing
left to offer, or a server without requests, legitimately stop, and the
properties state what must not be stuck.

| Run | Instance | Shows |
|---|---|---|
| `cond_count` | 4 goroutines, 3 cancellable | the drain of the ctx branch never blocks (`DrainNeverBlocks`), only two cancelled waiters can strand a signaller (`StuckSignalNeedsTwoCancelled`) |
| `mq` | 3 producers, 2 of them cancellable, 2 consumers, capacity 2, sizes 0..3 | size and reference counts are exact (`SizeAccounting`), each result reaches its own Offer and sending it never blocks (`ResultIsOwn`), no consumer stays parked beside elements, and a producer that sleeps has a wakeup or an onDone to come (`NoLostWakeup`), with requests of one size no place is free for sleepers alone (`FreePlaceIsOffered`), `ShutdownDrains`, and that calls end but in two cases (`CallsEnd`) |
| `pq` | 2 producers, 2 consumers, capacity 2, 2 crashes or shutdowns, 1 storage failure | `NoLoss`, `SizeAccounting`, `SingleDispatch`, `ClientOpenWhileUsed`; blocked Offers return (`OfferReturns`), what was accepted is exported (`AcceptedIsExported`) |
| `pq_crash_in_start` | 1 producer, 1 consumer, 2 crashes | **violation** of `NoLoss` |
| `batcher` | 2 consumers, 2 keys, LRU of 1, 1 worker, min 2, max 3, six streams of two or three requests, with and without a partitioner | `DoneExactlyOnce`, an answer tells what happened to the items of its request and no item is exported twice (`AnswerIsTrue`), `NoBatchStranded`, `ShutdownDrains`, and what a state without a way on, or with a call of a nil `onEmpty`, must look like (`NoOtherDeadlock`) |
| `batcher_shutdown_hangs` | 1 consumer, 1 key, 2 workers, 1 request | **violation** of `ShutdownEnds` |
| `pipeline` | 2 callers, 2 keys, channels of 1, 2 tries, four configurations (one that Validate refuses), graceful receiver or not, bounded retries or not | `LimitExact`, `CountersAddUp`, `ResentOnlyUnsure`, the refinement `DeliverySpec`; every accepted span is settled and a shutdown ends (`CallsEnd`) |
| `collector` | an extension, two exporters, a receiver shared by two pipelines, 2 reports, 1 reload, 1 caller of Shutdown | `NothingLeftRunning`, `ShutdownOnce`, `DownstreamReady`, `NothingAfterShutdown`, `StatusEndsStopped`; `RunReturns` |
| `collector_fatal_hang` | the same graph, fatal errors only while Run is in its loop | **violation** of `FatalStopsCollector` |
| `backend` | 2 threads, 2 users, 2 projects, 3 requests, 1 failing statement | `StatementsStayHome`, `UrlRestored`, ingests fill the tables in order and, without overlapping blocks, in one database (`IngestInOrder`), `KeyMeansTables` |
| `backend_overlap` | 2 threads, 2 requests, clients that wait for each answer | **violation** of `AtHome` |
| `accounts` | 2 threads, 3 requests, 1 failing statement; a project with two agents, or a first login with one code sent | the last agent stays and names are unique (`AgentsInOrder`), a deleted agent's key is refused and each agent has one key (`KeysInOrder`), `CodeUsedOnce` with the limits on codes; `ListedKeysWork`, `IngestUnderOwnName`, `LoginLeavesWorkingProject` |

Bounds. The interesting cases of the cond need two cancelled waiters, a third
waiter and a signaller: four goroutines. The memory queue needs a full queue
with two blocked producers and an element in export, hence three producers and
capacity 2; sizes 0 and 3 reach both refusals of Offer. One offer per producer
is enough for recycled result objects, because a different producer takes the
object a cancelled one gave up. In the persistent queue two consumers make the
dispatched list longer than one entry, which its swap-removal needs, and two
stops give a crash after a recovery. In the batcher three small requests make
three partitions under two keys, so that a timer can remove the successor of its
own partition; the other streams split, merge and split, drop an oversized item
alone, behind another item and behind a full piece, and fail to merge with an
empty batch. One worker is where every wait for the pool bites. In the pipeline
two callers race for the last metadata combination or fill a channel of one, and
items of one and two spans against a size of two make a batch that is sent in
pieces and leaves a rest. Two reports make a status follow a status during a
stop; one reload is a second service. In the backend three requests allow a
project creation, a login that sees it half done and a query in the middle; with
the accounts they allow two overlapping requests and one that meets what they
left behind, with 3 as the daily limit of codes.

`pq` leaves out crashes while Start puts items back
(`CrashWhileReputting = FALSE`): `pq_crash_in_start` shows that they lose items,
and the other properties are about everything else. `SizeAccounting` of the
persistent queue is stated for behaviours without storage failure; `OfferReturns`
exempts an Offer larger than the capacity and, after a failure, the two states
described below.

`IngestInOrder` has two halves. The order in which an ingest fills the tables holds
in every interleaving, counted over all databases. That its rows are in one
database, so that none has traces without their observations, is claimed only
until a `with` block is entered while another is open: then the rows of one request
are scattered, which is what `AtHome` shows. The other three properties of
`backend`, and most of `accounts`, name the overlaps or failures they exclude; they
delimit those hazards and do not catch them.

### Findings

1. **persistent queue: a crash in Start loses items** (`persistent_queue.go:464`).
   The items consumers had in hand are deleted in one Batch and put back one at
   a time.
2. **backend: statements on the wrong project's database**
   (`backend_api.py:426`). The URL is one global for all threads. Because the
   answer is sent inside the block, waiting for answers does not help.
3. **batcher: Shutdown can deadlock with an idle timer** (`multi_batcher.go:112`).
   Shutdown holds `mb.lock` and waits for the timer goroutine of every partition;
   a timer that has just found its partition idle waits for `mb.lock`.
4. **collector: a fatal error can hang the shutdown it causes** (`host.go:85`).
   A receiver shared by two pipelines reports its fatal error for both nodes. Run
   takes the first from the channel and shuts down; the second waits on the
   channel with the status reporter locked, and so does the shutdown for the lock.

The models also show, as a qualification of a property rather than as a
violated run:

*Queues.* Signal of the cond can block for ever with the lock held
(`cond.go:31`): two waiters take the ctx branch and wait for the lock, one Signal
fills the buffer and the next one blocks. It takes two of them
(`CondStuckSignal`), with at most one cancellable goroutine it cannot happen
(`CondSignalCanFinish`). It is one of two things that keep a call of the memory
queue from ending (`CallsEnd`). The other is an Offer that Shutdown left behind
(`LeftBehind`): `add` does not test `stopped`, so an element can come into a queue
whose consumers have gone; with `wait_for_result` its Offer waits for a result nobody
will send, and with `block_on_overflow` another Offer may wait for the room it takes.
`onDone` signals one producer, so with requests of several sizes a second one can
sleep beside free space until the next onDone: one that frees two units wakes a
producer that takes one. With requests of one size it cannot
(`FreePlaceIsOffered`). In the persistent queue a failed write leaves the
sizes advanced and wakes no consumer (`persistent_queue.go:310`, `Wedged` in
`OfferReturns`), a Start that cannot read the items of the last run forgets their
indices but keeps their size (`Drifted`), and an Offer larger than the capacity
waits for ever (`persistent_queue.go:277`). An Offer that overlaps Shutdown may be accepted and never exported
(`late` in `ShutdownDrains`; `component/component.go:45` asks components not to
accept data any more), and an Offer made after the persistent queue's client was
closed fails and leaves its size behind (`refClient > 0` in `SizeAccounting`).

*Batcher.* Evictions that hold every worker wait for one more
(`PoolOfEvictions` in `NoOtherDeadlock`; one worker is enough, and a Consume or
Purge that waits there holds `mb.lock`); a timer may call `onEmpty` after
shutdownInternal has set it to nil (`NilOnEmptyInOwnShutdown` in `NoOtherDeadlock`: only while
its own partition is shut down); what an eviction has not yet
exported when Shutdown begins is not waited for (`ShutdownDrains`); and a merge
that yields nothing answers the new request only and leaves its items in the
current batch (`refused` in `AnswerIsTrue`), where
`partition_batcher.go:132` says that the current batch is signalled and reset.

*Pipeline.* Without max_elapsed_time the processor's Shutdown lasts as long as the
destination is down (`bounded` in `CallsEnd`; the TODO at
`batch_processor.go:211`). A consume that overlaps Shutdown, which a graceful
receiver rules out, may leave its item behind (`Late`). A request of which a part
was delivered before the retries ended is counted as failed as a whole.

*Collector.* Any fatal error that nobody reads hangs Run (`Stuck` in `RunReturns`).
The first node of a shared receiver starts it before the exporters of its other
pipelines (`DownstreamReady`). A component that reports an error while stopping is
never Stopped (`troubled` in `StatusEndsStopped`). A reload that fails leaves the
state Starting or Closing (`EndsClosed`).

*Accounts.* Every check-then-write is unsafe against itself: two deletes remove the
last agent, two creations give one name twice, two first logins make two users,
two requests for a code exceed the limits (the `Raced` clauses). A used code is
good until its mutation is applied (`lagged` in `CodeUsedOnce`). A delete whose
second statement fails leaves a key that works, and its data is stored under
"default" (`faults` in `KeysInOrder` and `IngestUnderOwnName`).

### Fairness

`MemoryQueue` and `PersistentQueue` assume weak fairness of each goroutine's
steps inside a call: the Go scheduler runs every runnable goroutine, and
`sync.Mutex` does not starve a waiter (starvation mode). An export is assumed to
return, as the timeout sender makes it. Calling Offer or Shutdown, cancelling a
ctx, crashing and failing are never assumed to happen. In `PersistentQueue` the
process is assumed to be started again. `Pipeline` assumes weak fairness of the
handlers, the shards, the exporter's calls, the clock and the steps of the
shutdown, and strong fairness of the other cases of a shard's select: Go picks a
ready case at random, so a timer that is ready again and again cannot win for
ever. `Collector` assumes that Run and the reporters go on and that Start and
Shutdown of components return; no one need call Shutdown. `Batcher` assumes in
addition that an armed timer fires. Its safety run stands in for most of its
liveness: a bounded stream leads to a state where nobody can go on, and
`NoOtherDeadlock` says what such a state looks like. `Backend` and `Accounts`
have no liveness property: a statement times out after 10 s and nothing waits for
anything else.

## 4. Proofs

All theorems are proved by TLAPS from the assumptions on the constants named in
each module, for all values of the constants.

*CondProofs.* The inductive invariant is `TypeOK /\ MutualExclusion /\
TokensMatchWaiters /\ Committed`. `TokensMatchWaiters` alone is not inductive: the
drain step needs to know that `waiting` was 0 when it was reached, and the loop
of Broadcast that it is not, both of which hold because they are tested under
the lock (`Committed`). Four lemmas say how the cardinality of the set of waiters
changes when one goroutine moves. From the invariant: `CondTokens`, `CondDrain`
(the count of a draining waiter is covered by a token since nobody else can be
sending), `CondStuckSignal` (the count of unserved waiters is at least two when a
sender finds the buffer full) and `CondSignalCanFinish`.

*Totals.* The sizes of both queues are sums over sets of unknown size, and a
shared component replays its events with a fold. The library's induction
theorems take an operator and cannot be instantiated; but `NumberInduction`, on
a set of numbers, follows from the well-foundedness of `<`, and with it the
existence of the function each fold computes (`FoldsExist`), from which come the
facts the proofs use: a sum over a set with one element more, one less, over a
union, and that the `MapThenSumSet` of the properties is that sum.

*MemoryQueueProofs.* The lemma `StepRefinesCond` turns a step of the queue into one
of `Cond`; it holds by the way the actions are written and only makes the lemmas on
the cond available. `QueueInvariant` is the inductive
invariant of the queue itself: which element each producer and consumer has at
each position (`Roles`), that a producer's next element is new (`Fresh`) and no
element is in two places (`Unique`), that a result object belongs to one element
or is in the pool (`Owned`, `Allocation`: a cancelled Offer leaves its object to
the consumer), that references and size add up (`RefsBalanced`, `SizeIs`), and
what is true while Shutdown waits (`Stopping`). `SizeAccounting`, `ResultIsOwn`
and `ShutdownDrains` follow from it; `NoLostWakeup` is a part of it, inductive with
the state of the cond (`CondOK`). So is `FreePlaceIsOffered`: with requests of one
size (`Uniform`) a step either leaves the size alone and no fewer wakeups, frees one
place and adds a wakeup, or takes one and uses one up (`Kept`), where `OwedCases` says
what each action of the cond does to the tokens owed.

*PersistentQueueProofs.* Three layers. `Base` holds in every behaviour: the
indices are ordered, the dispatched list has no index twice and those of the
consumers are in it (`Ordered`, `Served`), what is in the storage is what was
offered under that index (`Copied`), and the client is open for whoever may call
it; `SingleDispatch` and `ClientOpenWhileUsed` follow. `Kept` says of each unfinished
request that some stored index leads to it that no step will overwrite or skip
(`Stays`), or that Start has it in hand; `NoLoss` follows. `Exact` says that,
while the storage has not failed, metadata and store describe each other in each
phase of a life: on disk (`DiskFor`), while items are put back (`PutFor`) and in
operation (`ExactFor`); `SizeAccounting` follows. The last two assume
`~CrashWhileReputting`: without it `NoLoss` is false, as `pq_crash_in_start` shows.

*BatcherProofs.* Four invariants, each on top of the one before.
`ControlInvariant` (`CInv`) says where each goroutine can be and what it has there
(`Positions`, `Consuming`, `Busy`), who holds `mb.lock` (`Locked`), and in what state
a partition is: made, in the LRU, the victim of an eviction, inactive, closed
(`Partitions`). `NoBatchStranded` is not inductive as it stands: it offers a
timer that is somewhere in its loop, and the step back to `select` needs `armed`.
`Waiting` says it more sharply: the partition of a waiting batch was started, its
timer is armed, and once it is inactive a shutdownInternal or a consumer that saw
it inactive is about to flush it.

`DInv` adds that batches are made of requests that were merged (`OfRequests`) and
that a batch is in one place (`Apart`), so that a step replaces, moves or ends it.
For `ShutdownDrains` the wait group of a partition is exactly its flushes that wait
for a worker, its exports and its timer (`WaitGroups`), the tokens of the pool are
in the channel, with an export or with an eviction (`Pool`), and what Shutdown
closed stays closed (`Closed`). For `DoneExactlyOnce`, `Counted`: a request has as
many references as there are batches that will call its Done; the batches a
split makes are as many as its pieces since no two pieces are equal.

`AnswerIsTrue` needs to know where the items are (`Fate`): while nothing of a
request has failed they were sent or are in a batch that carries the request,
and each such batch has one of them; afterwards there is an item that is in no
batch and was not sent. That a merge cannot lose items of the requests
merged before it is the hard part. It rests on `CurFit`: with a limit, the current
batch is smaller than `min_size` and has no item larger than `max_size`, or it
begins with such an item (what a refused request left there), so all of it goes
to the first piece or the merge is refused (`FrontFirst`). Lemmas on `Chunks`,
`Extractable` and `MergeSplit` say which places of the merged sequence are in
which piece. It is also where `min_size <= max_size` (`BatcherAssumption`, from
Validate) is used. The other assumptions, `NamesAssumption` and `NoneAssumption`,
keep the names of goroutines and the model's `None` apart from other values.

*BackendProofs.* The inductive invariant adds to the two properties that each
thread's position fits its request (`JobsFit`) and that, without overlap, at
most one thread is in the block, it has saved the default and the URL is what it
set (`UrlOwned`). `UrlRestored` needs it: Restore assigns `old_url`, and only
`UrlOwned` says that this is the default. `BackendStatementsStayHome` and
`BackendUrlRestored` follow for every number of threads, projects, requests and
failing statements. `BackendIngestInOrder` rests on `IngestFit`: requests have ids
of their own, and an ingest has filled exactly the tables of the statements
behind it, in whatever databases; and, while no blocks have overlapped, on
`HomeFit`: all of that is in the database of its project, because a statement that
nobody overlaps works there (`PostAtHome`). `BackendKeyMeansTables` rests on `SetUp`: who creates a project has, at
each position, its database and the tables so far, and a project with a key or an
owner has its tables or such a creator.

The module also proves all six properties of the accounts, for any number of
threads, names, rows, requests and failing statements. They share the invariant
`FInv`: the types of rows and local variables, which kinds of request come to
which place (`KindFits`) and where create_api_key returns to (`ThenFits`), that
what a request holds refers to rows that are there (`RefersTo`), and that any two
requests in flight are on record in `raced` (`Overlaps`). For each statement one
lemma says what it does (`FindMoves`, ...) and one that it keeps `FInv`; four
lemmas then say which steps write which table (`StepTouches`), lead to a place
(`StepLeads`), leave it (`StepLeaves`) and keep what for the other threads
(`StepMoves`). No property is inductive, because each is about a row that is
written by what an earlier SELECT has found; each adds that this is still so when
the row is written, unless the overlap the property names took place:

- `AccountsAgentsInOrder`: an agent about to be marked as deleted is not the last
  (`MarkSafe`), a name about to be written is free (`NameSafe`);
- `AccountsKeysInOrder`: the agent a key is made for is active (`HolderActive`),
  and no other key of it is left when it is issued (`KeyRoom`);
- `AccountsCodeUsedOnce`: there is room for a code about to be inserted
  (`CodeRoom`); and each code has at most one mutation on its way, with which its
  row says how often it was guessed at and accepted (`CodeBooks`);
- `AccountsListedKeysWork`: the agents still to do and those whose key is listed
  are the active ones, and those keys are active (`ListsSafe`);
- `AccountsIngestUnderOwnName`: the agent of an accepted key is active, and a key
  without one leads to the default agent and its name (`AuthsSafe`); it uses
  `DeletedKeyRefused` of the invariant before it;
- `AccountsLoginLeavesWorkingProject`: what a login has found out about its user
  and project is still so (`LoginsSafe`), and nobody deletes or revokes (`LoginSide`).

`AccountsAssumption` says that the limits are numbers, that `CodeLimit` is not 0,
since a code has been sent in an initial state, and that the names include those of
the first agents.

*CollectorProofs.* The inductive invariant says what the components are at each
position of Run (`Phases`), that one told to stop is down or the one being
stopped (`StoppedOnce`), that a started node found what it needs up (`InTurn`),
how the state and the reason of a shutdown go with the position (`States`), and
that after a returned Shutdown Run has not begun, is about to see `shutdownChan`
or is done (`CallersSeen`). `DownstreamReady` needs that a component other nodes
send to is not shared (`SharedAssumption`: only receivers are), else stopping
one node of it would take it from another. Besides the four properties of the
run, `CollectorReadyMeansUp` and `CollectorEndsClosed` follow: extensions believe
the pipelines ready, and the state is Running, only while every component is up;
and the state is Closed when Run has returned, but for a failed reload.
`CollectorStatusEndsStopped` needs the status reporter's side (`SInv`): which
status each node shows at each position of Run (`Shown`), the replay of past
events to a later node of a shared receiver included, and what a report under
way may still change (`Reports`).

*PipelineProofs.* `PipelineLimitExact`: a caller that reaches the lock did not see
a shard when its call began, and the table is full for good once it is full
(`Table`). `PipelineFinalFlushComplete`: the single piece a stopping shard sends is
all it has. The invariant `Flushed` says that a shard that waits holds less than
the size that makes it send, which Validate keeps at or below the size of a
piece; without Validate the claim is false.

`PipelineImplementsDelivery`: the pipeline refines `Delivery`. The
invariant places every accepted span without an outcome in the channel, the
batch or the call of its own shard (`Complete`), in one of them only (`Home`),
and gives what is there no outcome yet (`Fresh`); with `Flushed`, a shard that has
ended has only late callers in its channel (`Ends`), so nothing is pending when
ShutdownAll comes to the exporter. Five lemmas say what Append, Tail, \o and SubSeq do
to the elements of a sequence. On top of it `EInv` describes the exporter: what
the instruments have counted is the number of spans with each outcome
(`Counted`), the request of a call is a part of the call, and what of it has
arrived is known to be in doubt (`Arrived`). `PipelineCountersAddUp` and
`PipelineResentOnlyUnsure` follow.

Only model-checked: `NoOtherDeadlock` of the batcher, which speaks of ENABLED, and
all liveness properties, which need fairness. Both are outside the prover's reach. There are no recursive operators in the project.

## 5. Not modelled

- The memory limiter: its flag is set by a ticker from the size of the Go heap,
  which the code does not determine, and each read of it stands alone; Start and
  Shutdown count references under one lock.
- Building the graph from the configuration, the config provider, status
  aggregation, telemetry: they run before the goroutines the models are about
  start, or only report.
- OTLP transformation and overview queries of `backend_api.py`, the status API, the
  frontend and the SQL schema: functions of one request, or glue, without state of
  their own.
- pdata, confmap, scraper, receiver and exporter configuration, `mdatagen`,
  `builder` and the other generators, which are by far most of the repository's
  lines: generated accessors, marshalling, and code that runs once at build time.
  They keep no state between calls and have no order of steps a model would say
  anything about. This is why the modelled lines are a small share of the
  repository.

## 6. Plan

All components whose steps interleave or fail half way have a module. Left:

1. Compose `Batcher` with `MemoryQueue` in place of the disabled batcher, and
   `MemoryQueue` with `Exporter`, so that the pipeline has its sending queue; state
   as an abstract specification that a request is answered once, with the joined
   error of its pieces.
2. A pipeline with a fan-out and a connector, whose nodes share data.
