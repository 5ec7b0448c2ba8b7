# go-musthave-metrics: TLA+ specifications, model checking and proofs

The repository has two programs. The **agent** measures the machine it runs on
and posts what it measured to the server. The **server** keeps counters and
gauges, in memory with a file behind them or in PostgreSQL, and answers reads.
Paths below are relative to `src/`.

## 1. Inventory

| Component | State it keeps | Operations | What makes it correct |
|---|---|---|---|
| In-memory storage, `internal/repository/memstorage` | maps of counters and gauges, one mutex, ticker and `done` channel of the saving goroutine, the file | updates, batches, reads, `SaveToFile`, `LoadFromFile`, `StartPeriodicSave`, `Close` | a batch is atomic for readers and for the file; what `Close` saved comes back; `Close` ends; no panic |
| Database storage, `internal/repository/dbstorage` with `internal/retry` | table `metrics`; the attempt a call is in | the same interface, each call inside `retry.Do`, batches in a transaction | no increment is lost, batches are atomic, acknowledged means committed, calls return |
| Server life cycle, `internal/server/server.go`, `cmd/server` | listener, `activeRequests`, `shutdownCh`, the main goroutine | `Run`, `waitForShutdown` with two timeouts, closing of the resources | acknowledged updates are in the file, resources get closed |
| Middlewares, `internal/handler/middlewares` | WaitGroup, semaphore, pools of gzip readers and writers | count, limit, decompress, verify, compress | no count or token leaks; agent and server agree on signature and encoding; pooled streams never mix requests |
| Handlers and services, `internal/handler`, `internal/service` | none of their own | `/update`, `/updates`, `/value`, main page, ping | what clients read of counters and gauges is explained by the updates around the read, on either storage |
| Audit events, `internal/observers` | audit file and its mutex; mutex and client of the HTTP observer | `Publish` in a goroutine, `OnMetricProcessed` of each observer, `Close` | `Close` takes the file from no writer; an event that was taken or refused is not sent again; every event is settled |
| Collector, `internal/agent/collector`, `provider`, `internal/model` | merged metrics, `pollCount`, mutex | poll all providers, `GetMetrics`, `ResetCount` | merging loses no measurement; reads see whole polls |
| Worker pool and sender, `internal/agent/sender` | channel of tasks, context, statistics | `Submit`, workers, `Stop` | tasks run once and in order, statistics add up, `Stop` returns whatever is queued |
| Unlimited sender, `internal/agent/sender/unlimited_sender.go`, `metric_service.go`, `pools.go`, `pkg/objpool` | WaitGroup, pool of slices | `Send` starts a goroutine, `Stop` waits for them | a payload holds its own report only; `Stop` waits for every send that was counted before it returned |
| Reporter, `internal/agent/reporter` | ticker, WaitGroup | `GetMetrics`, `Send`, `ResetCount`; `Stop` | no poll is reported twice |
| Agent's client, `internal/agent/client` | none | POST with retries, signing, compression | bounded duplicates |
| Agent application, `internal/agent/app.go`, `cmd/agent` | context | start, signal, ordered shutdown | ends, leaves nothing running |

How they interact: the reporter's goroutine reads the collector under its mutex
and hands a task to the pool, whose workers post it; without a rate limit it
starts a goroutine that posts it. On the server a request
passes the middlewares, its handler calls the service, the service the storage;
a batch also starts a goroutine that publishes an audit event to a goroutine of
each observer. The main
goroutine of the server shares the WaitGroup and `shutdownCh` with the requests
and the storage with the goroutine that saves it.

What is hard here: the periodic save racing `Close`; process death inside a
write of the file; `Submit` racing `Stop`; two critical sections where one was
meant (`GetMetrics`, `ResetCount`); a request that passes the check of
`shutdownCh` before it is counted; timeouts that cut the shutdown short; retries
of what was already applied; row locks taken in the order of the request; a
WaitGroup that is added to while it is waited for; pooled slices, readers and
writers that go from one goroutine to the next with what they held; observers
that nobody waits for when their file is closed. The
full list, each entry at its line, is under `hazards` in `PROJECT.json`.

## 2. Modules

| Module | Models | State and actions |
|---|---|---|
| `MetricStore` | the promise of `service.Storage` | every request one atomic step; the file holds a snapshot of such a moment or nothing usable |
| `MemStorage` | `memstorage.go` over the life of the process | fields of `memStorage` plus position of saver and closer, the file (`absent`, `torn`, `ok`) and the reply of the last read. A single update or read is one step, `UpdateMetrics` one step per metric, `SaveToFile` opens (truncates) and then writes. `Kill` ends the process anywhere |
| `DbStorage` | `dbstorage.go`, `retry.go` | committed rows, and per call: operation, position, rows written and locked, attempts. PostgreSQL is external: READ COMMITTED, row locks, deadlock detection, errors at every round trip, lost answers to a commit |
| `ServerShutdown` | `server.go`, `track_active_requests.go`, `limiter.go`, `metrics_service_impl.go`, `file_observer.go`, `cmd/server/main.go` | per request the place between middlewares; counts, tokens, main goroutine. net/http is external |
| `Audit` | `event_publisher_impl.go`, `file_observer.go`, `http_observer.go` | per event the goroutines of both observers, owners of the two mutexes, the file; main closing the observers. An answer of the audit server is a class: accepted, 4xx, 5xx, network error (before or after delivery), other error. The requests that publish are in `ServerShutdown` |
| `GzipPools` | `gzip.go`, `compressor.go`, and the part of `signer.go` that reads and closes bodies | per request its reader and writer; the pools; per reader the body it is attached to, per writer its destination and what it holds back. A stream is whose bytes it carries |
| `HttpApi` | `metricshandler`, `mainpagehandler`, `pinghandler`, `compressor`, `signer`, `request_processor.go`, `response_processor.go` | concurrent requests on one of the two storages (`backend`). The memory is `MetricStore`, which never fails. The database has one row per id: an increment of a gauge's row is NULL + x, `chk_metric` refuses a gauge in a counter's row, `BIGINT` refuses a sum out of range, an absent counter is found with 0, and every attempt may fail before or after it was applied, after which `retry.Do` makes the next one; `times` counts how often an update was applied. A body is its compression and its metrics, a signature the pair of key and bytes |
| `Collector` | `metrics_collector.go`, providers, `memory_metrics.go` | a field's value is the poll that measured it |
| `WorkerPool` | `worker_pool.go`, `metrics_sender.go` | channel, context, workers, statistics; Go's `select` is a disjunction of the cases that are ready |
| `UnlimitedSender` | `unlimited_sender.go`, `metric_service.go`, `pools.go`, `pkg/objpool`, with reporter, retries and shutdown | per report its goroutine, its slice and attempts; the pool; the counter and the waiter of the WaitGroup, with the two panics of `sync.WaitGroup` that an `Add` beside `Wait` can raise |
| `Agent` | `app.go`, reporter, client, `cmd/agent/main.go`, extends `WorkerPool` | collector (counting only), reporter, retries of a send, ordered shutdown |

`Agent` composes `WorkerPool` with the goroutines that use it, and is shown to
use it as its own specification allows (`AgentImplementsPool`). `MemStorage` is
shown to implement `MetricStore` (the mapping is at the end of `MemStorage`), and
`HttpApi` stands on `MetricStore` for the memory and has, for the database, what
`DbStorage` shows of it: each attempt is one atomic step; `Sums` has the sum over a finite set that
`MetricStore`, `HttpApi` and `DbStorage` use. `UnlimitedSender` is the other branch of
`NewMetricsSender`, so it has the reporter and the shutdown again, without the
pool; `Audit` continues where `ServerShutdown` publishes an event and closes the
observers; `GzipPools` has the streams under the messages of `HttpApi`.
`ServerShutdown` closes the storage in one step: the race of `Close` with the
periodic saver, and the panic it can end in, are in `MemStorage`, and
`ResourcesGetClosed` holds as long as that panic does not happen.
Operators whose comment starts with "Mutant" are plausible mistakes in the code;
`PROJECT.json` pairs each property with one it detects.

Data is abstracted to what the properties tell apart: names and gauge values
are model values, `int64` and `BIGINT` have the width `-Half .. Half-1`,
formatting, wording and logging are left out.

## 3. Runs

| Run | Checks | Bounds, and why they are enough |
|---|---|---|
| `MemStorage` | `TypeOK`, `SnapshotExact`, `DurableClose`, `RestartRestores`, `RefinesStore`, `SaverStops`, `CloseReturns` | two counters, one gauge that shares an id, one value JSON cannot write, width 1 (the values -1 and 0) so that counters wrap; batches with repeated ids, nil fields and unknown types; any number of restarts, saves and failures |
| `AgentParts` | collector: `MergeKeepsLast`, `ReadsWholePoll`; worker pool: `StartedInOrder`, `StatsAddUp`, `StopEnds`, `AcceptedRuns`; unlimited sender: `PostsOwnMetrics`, `StopCovers`, `UnlimitedEnds` | three parts without shared state, one of which runs in each behaviour. Collector: two key fields, one more per provider, three polls with failures. Pool: two workers, a channel of one and four tasks, so that both workers are busy, the channel is full and one task is dropped. Sender: three reports, so that a slice given back is taken again while a third send retries; two attempts with one delay; the code's sizes, 31 metrics and slices of 20 |
| `Agent` | `PollsReportedOnce`, `DeliveryBounded`, `ExitIsQuiet`, `AgentImplementsPool`, `ShutdownEnds` | one worker, a queue of two (the code's ratio), three reports, two polls, two attempts: a poll between read and reset, a queue that fills up, a retry, a signal at any point |
| `ServerShutdown` | `CountsExact`, `GracefulSaves`, `ResourcesGetClosed` | three requests and a limit of two: one is turned away while the shutdown begins |
| `Audit` | `WritesSurviveClose`, `AnswerIsFinal`, `EventsSettle` | two events that compete for both mutexes with each other and with the closing, two attempts |
| `GzipPools` | `OwnStreams`, `WholeStreams` | three requests of five kinds that reach every branch: two beside each other and one that meets what they gave back; requests are interchangeable, and the run uses that symmetry. each request takes one reader and one writer at most, so three of each suffice |
| `DbStorage` | `TypeOK`, `CountersAddUp`, `AckedIsApplied`, `LocksExclusive`, `CallsReturn` | two calls on two ids, batches that lock in both orders, reads, three attempts with two delays (so that the last attempt has none), width 4 so that a `BIGINT` overflows |
| `HttpApi` | `CounterReads`, `GaugeReads`, `SignedAccepted` | on either storage three concurrent requests out of eighteen kinds (an update before, one during, and a read), among them batches with metrics that are skipped; two attempts, so that an acknowledged update can have been applied twice; width 4, so that the memory wraps and the database refuses; one id that is a counter and a gauge. 3.2 million states with the requests interchangeable, a symmetry the run uses |
| `MemStorageTicker`, `AgentPanic`, `UnlimitedStop`, `AuditRetry` | one property each, violated by the code: see section 5 | a small instance that shows it |

`CHECK_DEADLOCK FALSE` everywhere: each program stops in the end, and a run has
finitely many requests, tasks or polls.

What the less obvious properties say:

* `RefinesStore`: whatever the saver, `Close`, crashes and reloads do in
  between, readers and the file see only whole batches. The mapping lets a
  batch take effect when it gets the mutex and a save when it opens the file.
* `DurableClose`, `RestartRestores`: after a `Close` that returned nil and found
  no periodic save under way the file holds the last snapshot for ever, and a
  restart with `-r` restores it. The condition on the periodic save is needed:
  a save that began before can truncate the file after `Close` has written it.
  A saver that waits in its select gets no tick any more once the ticker is
  stopped (Go 1.24, as `go.mod` asks: `Stop` leaves no stale tick behind).
* `GracefulSaves`: unless one of the two timeouts fired, all requests are over
  when the storage is closed and every update answered 200 is in the file, also
  for a request that passed the check of `shutdownCh` and was counted later.
  `http.Server.Shutdown`, not the WaitGroup, is what makes this true.
* `CountersAddUp`: a row of type counter is the sum over all calls of what their
  committed attempts add; a retry after a lost answer counts twice, and nothing
  else does.
* `CounterReads`: a counter a client reads is a sum of updates: all those
  acknowledged before the read was sent, none that was refused or sent after its
  answer, any of the others. In the memory each counts once, modulo the width; in
  the database up to once per attempt. Metrics that `/updates` skips add nothing,
  also when they are answered 200. Ids the database keeps as gauges are left out.
* `GaugeReads`: a gauge a client reads is the value of an update that was not
  refused, and no update that was sent after that one's answer had been
  acknowledged before the read was sent, although a retry can apply an update
  late and twice.
* `StatsAddUp` is about the counters themselves; `GetStats` loads four of them one
  after the other, so what it returns may mix several moments.
* `PollsReportedOnce`: no poll is in two reports. A poll between `GetMetrics` and
  `ResetCount` is in none; the code forgets it, and the model has that behaviour.
* `SignedAccepted`: the server accepts what an agent with its key sends,
  because the agent signs before it compresses and the server verifies after it
  has decompressed.
* `ShutdownEnds`: the agent exits after a signal; the panic of section 5 is the
  only other end.
* `PostsOwnMetrics`: `Reset` only cuts the length of a pooled slice, and every
  attempt marshals the batch again; the deferred `PutBatch` is what keeps another
  send out of it until the last attempt is over.
* `StopCovers`: once `unlimitedSender.Stop` has returned, a send runs only for the
  report that was between its tick and its `wg.Add` at that moment (`underWay`);
  every send counted before has ended. The comment of `Stop` ("waits for the
  completion of all sends") knows no exception; that claim is
  `StopWaitsForAll`, which the code violates (section 5).
* `AnswerIsFinal`: an event reaches the audit server at most once per attempt and
  never again after an answer 2xx or 4xx. What the code does with a 5xx is
  `ServerErrorsRetried`, which it violates (section 5).
* `WholeStreams`: the writer of a response is flushed and closed exactly once, on
  every path out of the handler, before it goes back to the pool.

Fairness. `MemStorage`: goroutines go on whenever they can (weak fairness), and
waiting for the mutex is strongly fair, since `sync.Mutex` hands itself to a
waiter that starved for a millisecond. `WorkerPool` and `Agent`: every goroutine
that can go on does, and a POST ends, because the client has a timeout; no
ticker has to fire and no signal has to come. `DbStorage`: a call goes on unless
it waits for a row; deadlocks are detected by the database. `ServerShutdown`:
only the main goroutine and its timers are fair; a handler may hang for ever.
`UnlimitedSender`: as `Agent`. `Audit`: goroutines go on, a POST ends (the
client's timeout is 10 seconds), and waiting for a mutex is strongly fair as
above; the process need not end.

## 4. Proofs

Checked by TLAPS for every value of the constants that satisfies the named
assumptions of the modules (finite sets where a cardinality or a sum is taken,
widths and capacities above zero, `Nil` and `Null` different from the data).
Every safety invariant, every action property and both refinements of the
passing runs are theorems.

| Module | Theorems | Argument |
|---|---|---|
| `MemStorageProofs`, on the fields of the storage | `TypeCorrect`, `MutualExclusion`, `SnapshotsExact`, `CloseIsDurable`, `RestoresAfterClose` | `IInv` = types, mutex owner, exact snapshot, durable close, and two parts no property has: `Control` (a process that is not up has no saver and no closer; after `Close` began no ticker is left; a saver found in its select stays out of saves) and `DataMarshalled` (what was marshalled came from well-typed maps). Without `Control` a saver could start to write behind `Close`; without `DataMarshalled` the round trip through the file (lemma `RoundTrip`) cannot be applied after a restart |
| `MemStorageProofs`, refinement | `ImplementsStore` | every step maps to a step of `MetricStore` or a stutter (`NextRefines`), from `IInv` and `FileShape` (a file that is not complete has no entries, and while somebody writes, the file is torn). The step of a batch that applies one metric is a stutter: `CountersStep` and `GaugesStep` show that the effect of the metrics left is the effect of the first and then of the rest, with the arithmetic of int64 |
| `AgentProofs`, worker pool | `PoolTypeCorrect`, `TasksStartInOrder`, `StatsAreExact` | types, order, statistics and the states of the workers are inductive together; lemmas on the cardinality of the set of busy workers |
| `AgentProofs`, agent | `ImplementsPool`, `NoPollTwice`, `AgentExitsQuiet`, `DeliveryIsBounded` | every step is a step of the pool or leaves it alone, given that report numbers are not reused (`Numbering`); the pool's theorems then hold in the agent. `Counting` ties the count to the set of polls, `Stopping` the order of the shutdown to the states of the goroutines. For the deliveries: a report is accepted once (`AcceptedOnce`), so two workers never have the same one, and the one that has it has failed at least as many attempts as the server applied (`Delivering`) |
| `AgentPartsProofs`, collector | `MergeIsExact`, `ReadsAreWhole` | `CInv`: the fields `IsZero` looks at are zero only while nothing was measured, because the runtime provider comes first and a running program has memory; so the replacement in `mergeMetrics` never throws anything away |
| `AgentPartsProofs`, unlimited sender | `PayloadsAreOwn`, `StopCoversSends` | `UInv`: a slice is in the pool or with one goroutine, which has overwritten it (`Slices`); reports still to come have no goroutine (`Numbering`); the counter of the WaitGroup is the number of goroutines between `Add` and `Done`, and one that releases the waiter finds main blocked and the counter at zero (`Waiting`). So a counter of zero in `Stop` means that nobody sends, and after it only the report that is between its tick and its `Add` can start |
| `DbStorageProofs`, locks and attempts | `DbTypeCorrect`, `LocksAreExclusive`, `AckedMeansApplied` | `DInv`: rows obey the CHECK of the migration, locks are exclusive, and an attempt commits at most once |
| `DbStorageProofs`, sums | `CountersAlwaysAddUp` | `Adding`: a call that has not begun committed nothing; a row of type counter is the sum of what was committed (`Agrees`); and a row a transaction has written is the row of the table plus the increments of the metrics it has handled (`Carries`). The last part holds because the row is locked: nobody commits to it meanwhile. At the commit the written row takes the place of the table's, and the sum gains one share of the call |
| `ServerShutdownProofs` | `TypeCorrect`, `CountsAreExact`, `GracefulShutdownSaves` | `Counting`: types and counts together, with a step for each place where a request enters or leaves the counted ones. `Storing`: a request answered 200 is stored. `Draining`: from the end of `Shutdown` on the listener is closed and, unless a timeout fired, nobody is left; so nothing is stored after the file was written |
| `HttpApiProofs`, requests | `TypeCorrect`, `AgentIsAccepted` | every step is an arrival, a pass through a middleware, a reply, an attempt at the storage or the writing of the response (`StepKinds`). `Truthful`: where a request is says how many attempts it has had and how often it was applied (`Control`, `Effect`), and a request of an agent with the server's key is never refused (`Sealed`); `Typing` for the types |
| `HttpApiProofs`, reads | `CounterReadsAddUp`, `GaugeReadsAreFresh` | `Reading`: the storage is explained by the updates (`Holding`: a counter is the sum of the increments times `times`, modulo the width in the memory and exact in the database; a gauge is the value of an applied update, and none that was sent after that one's answer has been applied), the requests seen answered at an arrival stay answered, and every read that was answered has a witness from the moment its answer is written (`ReadTrue`): the number of times each update had been applied, or the author. The witness survives later steps because `times` of an answered update does not change and what arrives later saw the read answered |
| `ServerPartsProofs`, audit | `CloseSparesWriters`, `AnswersAreFinal` | `AInv`: no observer runs before its event is published (`NotYet`), the file's mutex belongs to main while it closes and to the writer of a line (`FileOwner`), and an event whose attempts go on was neither taken nor refused and has fewer deliveries than attempts (`Unanswered`) |
| `ServerPartsProofs`, gzip pools | `StreamsAreOwn`, `StreamsAreWhole` | `GInv`: a reader or writer is in its pool or with one request and attached to it (`Readers`, `Writers`), and what a response holds follows from the place of its request (`Progress`) |
| `SumTheorems` | lemmas only | a sum over a finite set is an integer, depends only on the values, grows by the value of an element that is added, and does not change when the set is renumbered; the largest element of a finite set; two's complement (`WrappedAdd`: wrapping at every addition or once at the end is the same) |

What the proofs corrected in the models, where TLC had been content with its
instance: `MetricStore` could not drop a reply without another effect, which
only a batch without effect in the run's set of batches had hidden (now
`Forget`); a CASE of the refinement mapping had two branches that could both
hold; a disjunct of `GetAllMetrics` hung inside a quantifier over the counters,
which is wrong when there are none; and `HttpApi` compared the value of a
counter with the values JSON cannot write.

Only model-checked: what needs fairness (`SaverStops`, `CloseReturns`,
`StopEnds`, `AcceptedRuns`, `ShutdownEnds`, `CallsReturn`, `ResourcesGetClosed`,
`UnlimitedEnds`, `EventsSettle`), which is out of the prover's reach.

## 5. What the models show of the code

With a run (see `findings` in `PROJECT.json`):

* `NoTickerPanic`: `Close` sets `m.ticker` to nil and the saving goroutine, in the
  first turn of its loop or back from a save, dereferences it
  (`memstorage.go:229`, `:253`).
* `NoPanic`: the agent closes the task channel before it waits for the reporter;
  a report under way panics in `Submit` (`worker_pool.go:59`, `metrics_reporter.go:75`).
* `StopWaitsForAll`: without a rate limit, a report between its tick and `Send` calls
  `wg.Add` after `Stop` has returned, and its send runs on or is cut off by the end
  of the process (`unlimited_sender.go:52`, against the comment at `:49` and the
  message at `:53`).
* `ServerErrorsRetried`: a 5xx answer of the audit server is logged as "Server
  error, will retry" and given up at once (`http_observer.go:86`, `:118`).

In the models, without a run of their own:

* A process that dies inside `os.WriteFile` leaves a truncated file; the next
  start with `-r` gets nil from `NewMemStorage` and runs without a storage
  (`memstorage.go:172`, `:44`; state `nilstore` of `MemStorage`).
* `GetCounter` on the database reports a counter that was never stored as found,
  with 0 (`dbstorage.go:221`).
* A retry of `GetAllMetrics` on the database appends to what the failed attempt
  has written into its builder (`dbstorage.go:225`).
* Without a rate limit, a report that calls `wg.Add` while `Stop` is being woken
  raises one of the panics of `sync.WaitGroup` (`unlimited_sender.go:33`).
* A timeout of the audit client is not retried either: its text has
  "Client.Timeout" where the predicate looks for "timeout" (the same predicate is
  in `client.go:167`).
* An update answered 200 by the server may be in the database twice: the answer to
  the commit was lost and the attempt repeated (`dbstorage.go:104`, `retry.go:40`).
* A poll between `GetMetrics` and `ResetCount` of a report is counted in no report
  (`metrics_reporter.go:59`, `:65`).
* A report has at least 31 metrics and the pooled slices have room for 20, so
  `append` always moves the batch to a new array and the pool saves nothing
  (`metric_service.go:22`).
* The gzip reader of a request without signature never goes back to its pool:
  nobody closes the body (`gzip.go:88`).
* `Send` returns nil for a report a full queue dropped, and the reporter resets
  the count: those polls are never reported (`metrics_sender.go:47`).
* After the shutdown `main` waits for the pprof goroutine, which nothing stops
  (`cmd/server/main.go:59`).
* With a limit of 0 the limiter serves everything; the message it logs says that
  everything is rejected (`limiter.go:15`).
* A counter sent under the id of a stored gauge becomes NULL + x, NULL, without an
  error (`dbstorage.go:121`).
* `/value` answers 200 with the text of an error for a gauge that is NaN
  (`metrics.go:206`).
* The bodies of errors are compressed for a client that accepts gzip, but not
  declared as such (`gzip.go:61`): the client cannot read them.
* `/update` takes the type of a metric in any case, `/updates` only in lower case
  and skips the others silently (`metrics.go:294`, `memstorage.go:81`).

## 6. Not modelled

* Configuration (`internal/config`): flags and environment are read once before
  anything runs, and are the constants of the modules.
* Connecting to the database and migrating it: library calls in a row; what the
  server does with their outcome, falling back to memory, is the choice of the
  storage's module. `Ping` and `Close` of the database storage are calls of the
  connection pool; the pool's own limit of ten connections is not modelled, nor
  that its `Close` waits for connections in use. `ResourcesGetClosed` therefore
  speaks of the in-memory storage.
* How `isGzipEncoding` splits a header into codings: one Boolean per request.
* The request logger, the logging observer and `internal/logger`: no state.
* `resource_group.go` and the `Get` and `SetHeader` of the agent's client: used by
  nothing.
* `cmd/reset` and `cmd/linter`: build-time tools from source text to source text.
  Their behaviour is the text they print and they have no state that outlives a
  file, so that a model would be a copy of the code.
* Generated mocks.

## 7. Plan

Done, in this order: storage in memory and its abstract specification; worker
pool; agent; shutdown of the server; collector; database storage; HTTP
interface; unlimited sender with its slices; audit observers; pooled gzip
streams; and the proofs of section 4.

Next:

1. the connection pool of the database storage with its limit and its `Close`;
2. agent and server composed over an unreliable network: what the server's
   `PollCount` says of the polls.
