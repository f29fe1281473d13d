# ProxyLiteChecker: TLA+ models, checks and proofs

ProxyLiteChecker is a single Go process (`src/cmd/proxylite`, SQLite behind it)
that fetches lists of public proxies, checks them against target profiles on a
schedule, and offers the good ones through a local forward proxy ("gateway").
This directory models the concurrent core of that program in TLA+. TLC checks
the models on small instances; TLAPS proves the main properties for all values
of the constants.

## 1. The system: components, state, operations, interaction

| Component | Source | State | Operations |
|---|---|---|---|
| Heavy-work coordinator | `coordinator.go` | `active`, `reservedType`, `pending`, `lastGrantedType`, `consecutive`; rows `coordinator_state` | `TryAcquire`, `Bind`, `AbortReservation`, `Release`, `Defer`, `PopNext` |
| Job manager | `jobs.go` | `items` (active jobs), contexts; rows `job_runs` | `CreateWithSpec`, `Update`, `complete/fail/finishCancelled`, `Cancel`, `recoverInterrupted` |
| Scheduler | `settings.go` | rows `scheduler_state` (next due, failures, last job) | `tick` (`ensureSchedules`, `enqueueDue`, `dispatchNext`, `tickMaintenance`), `MarkStarted`, `OnJobTerminal`, `ApplySettings`, `recoverInterruptedSchedules` |
| Application settings | `settings.go`, `main.go` | rows `app_settings` | read, normalise, save, reset of schedules |
| Concurrency limiter | `concurrency.go` | `limit`, `active`, wake-up channel | `Acquire`, `Release`, `SetLimit` |
| Check job, worker pool | `checker.go` | plans and results channels, counters of the job | `StartCheckJob`, `runCheckJob`, `checkBatchStream` |
| Check algorithms | `checker.go`, `internal/checkmeta` | none | plan building, rounds, status classification |
| Fetch job | `sources.go` | counters of the job, `source_health` | `StartFetchSourcesJob`, `runFetchSourcesJob` |
| Proxy store | `store.go` | `proxies`, `proxy_checks`, targets, geo cache | imports, saving of check bundles, requeue, deletion, cached stats |
| Gateway selector | `gateway_selector.go` | pool, per-upstream breaker, config generation | `next`, refresh, success / failure / neutral reports |
| Gateway server | `gateway.go` | listener, retry state of a request | HTTP forward, CONNECT, SOCKS5 |
| Geo enricher and cache | `geo_enricher.go`, `geo_cache.go`, `checkGeoCache` in `checker.go` | bounded queue, pending set, rate-limit time; rows `ip_geo_cache` | `Lookup`, `LookupAndQueue`, `Enqueue`, `process`, `Stop` |
| GeoIP database | `internal/checkmeta` | the file, its reader, `initialized`, the locks `initMu`, `updateMu`, `mu` | `InitializeGeoIPDatabasesFromEnv`, `UpdateGeoIPDatabaseFromEnv`, `LookupGeoIP` |
| HTTP API, sessions, web page, log ring, utilities, migrations, scripts | `main.go`, `runtime.go`, `util.go`, `app/`, `scripts/` | none of interest | pure I/O and presentation |

How they interact. HTTP handlers and the scheduler both start fetch and check
jobs through `StartFetchSourcesJob` / `StartCheckJob`: reserve the slot
(`TryAcquire`), create the job (`CreateWithSpec`), bind it (`Bind`), then start
a goroutine. When the job ends, `jobManager.Update` writes the terminal status
and calls the callback that `newServer` installs: `coordinator.Release`, then
`scheduler.OnJobTerminal`, which may defer a follow-up check and calls
`dispatchNext`, so the next job may start on the goroutine of the last one. The
scheduler's own goroutine ticks every 30 seconds: it defers due work,
dispatches, and runs the lifecycle maintenance inline. A check job saves results
to the store, and asks the geo enricher about the exit addresses it finds; the
enricher and the checks look addresses up in the GeoIP database, which a ticker
and administrators replace. The gateway selector reads its pool from the store;
requests of the gateway drive its circuit breakers, and a change of the settings
reaches it through `ApplyRuntimeConfig` and through every request.

Where it is hard:

* the slot is held across several critical sections of two different mutexes,
  by goroutines of three kinds, and released from a fourth place;
* any SQL statement may fail half-way; several errors are ignored on purpose;
* an intent popped from `pending` lives only on a goroutine's stack until it is
  bound; a crash forgets it;
* cancellation races with completion and with a failing write;
* scheduler rows are read, changed and written back whole by several goroutines;
* the limiter wakes its waiters through a channel that is replaced each time;
* the gateway's circuit breaker is driven by reports that arrive late, of requests
  that may last for hours, and a probe has to be given back on every path;
* the pool is refreshed by requests, background goroutines and savers of settings
  that overlap, and the settings change while it is read;
* a check reads the geo cache long before the worker deals with what it queued;
* the GeoIP reader is replaced and closed while lookups use it;
* a proxy may be deleted, imported again or requeued between the start of a check
  and the save of its result, and every statement of a transaction reads a clock
  of its own.

What makes each component correct: one heavy job at a time, no leak of the slot,
no lost intent, fair grants, final outcomes (coordinator, jobs); each schedule
runs again, and once per due time (scheduler); never more than `limit` checks,
no waiter asleep with a free permit (limiter); every result saved or counted
(check job); one probe at a time and given back, history forgotten only for a
reason, the pool never older than what it replaces (gateway); the pending set
exact and the service asked once per entry (enricher); no reader closed under a
lookup (GeoIP database); a row's summary agrees with its targets, results reach
the row they are of, cleanup spares proxies with an available target, statistics
are not older than the store (store); an outcome agrees with its rounds (check
algorithms).

## 2. Plan

The order is by importance; each item is a module (with its MC module, runs, and
where marked a proof module).

1. `HeavyWork` (done, proved): coordinator, jobs and everything that drives
   them; abstract specification `HeavySlot`.
2. `CheckPool` (done, proved): the concurrency limiter, the worker pool of a
   check job and what becomes of every plan on cancellation and failing saves.
3. `Schedules` (done, proved): the `scheduler_state` rows under ticks, starts,
   outcomes, settings changes, crash and recovery, on top of an atomic slot.
4. `Gateway` and `GatewayPool` (done, proved): the breakers under concurrent
   requests, and how a pool is refreshed while the settings change.
5. `GeoEnricher` and `GeoDatabase` (done, proved): queue, pending set and cache;
   first load, updates and lookups of the country database.
6. `CheckOutcome` and `ProxyStore` (done, proved): what the rounds of a check come
   to, and the life of a proxy and of its target states under checks, imports,
   requeue and cleanup.
7. Abstract specifications of what the components promise, with refinements
   (done, proved): `HeavySlot`, `CheckJob`, `CircuitBreaker`, `PoolCache`,
   `GeoService`.
8. Left: an abstract database that `GeoDatabase` implements, and an abstract
   schedule that `Schedules` implements; the payload of intents and how two of
   them merge, with the pipeline follow-ups; two savers of settings at once; the
   fetch sources and their cooldown; the growth of the backoff delays; the
   selection of exports and counts.

## 3. Modules

| Module | Role |
|---|---|
| `HeavySlot` | the abstract slot: free, claimed by a start, held by a job; a job starts working only under a claim with nobody else at work, and the slot is freed only when no job is at work |
| `HeavyWork` | the detailed model of `coordinator.go`, `jobs.go` and their callers in `sources.go`, `checker.go`, `settings.go`, `main.go`; implements `HeavySlot` |
| `CheckPool` | `concurrency.go`, `checkBatchStream` and `runCheckJob` of `checker.go`; implements `CheckJob` |
| `CheckJob` | an abstract check job: proxies begin and end their checks under the limit, verdicts are saved, proxies deleted, the job cancelled and ended; no goroutines, channels or counters |
| `Schedules` | the scheduler of `settings.go`, with the saver of settings in `main.go` |
| `Gateway` | the breakers of `gateway_selector.go` under the requests of `gateway.go`; implements `CircuitBreaker` |
| `CircuitBreaker` | the abstract breaker of each upstream: closed, open or half-open, with a probe or without |
| `GatewayPool` | the refresh of the pool in `gateway_selector.go`, with `ApplyRuntimeConfig`; implements `PoolCache` |
| `PoolCache` | an abstract cache of pools: one load at a time for the settings of its beginning, installed while the selector goes by them, or thrown away |
| `GeoEnricher` | `geo_enricher.go`, `geo_cache.go`, and `checkGeoCache` of `checker.go`; implements `GeoService` |
| `GeoService` | what the external service sees: one client that accepts addresses, asks for one of them at a time, and keeps what it hears |
| `GeoDatabase` | the loading, replacing and reading of the database in `internal/checkmeta` |
| `CheckOutcome` | the pure part of a check: rounds, their combination, the statuses the store derives |
| `ProxyStore` | the rows of one proxy in `store.go`, with the check job that writes them and the cached statistics; extends `CheckOutcome` |
| `MC*` | constants and symmetry of the TLC instances |
| `HeavyWorkProofs`, `CheckPoolProofs`, `SchedulesProofs`, `GatewayProofs`, `GatewayPoolProofs`, `GeoEnricherProofs`, `GeoDatabaseProofs`, `ProxyStoreProofs` | the theorems |

How they fit together: `HeavyWork` starts and ends jobs and leaves open what a
job does and which schedules are due; `CheckPool` is what a check job does
between its launch and its end; `Schedules` is which schedules are due, over a
slot that is one variable. `ProxyStore` is what `CheckPool` calls a save and a
delete, with everybody else who writes the same rows. `Gateway` replaces a pool in
one step; `GatewayPool` is where the pool comes from, and leaves open what a
request does with it. `GeoEnricher` takes a local lookup as one step, which
`GeoDatabase` has in detail. `Mutant` operators stand before the definition they
change; nothing uses them in the models.

### HeavyWork: correspondence with the code

One step of the model is one critical section (one hold of `coordinator.mu` or
of `jobManager.mu`, with the SQL statement it executes). `pc[a]` says which call
goroutine `a` makes next, `cur[a]` the job in its hands, `want[a]` the start
request (`automaticIntent` or a manual start). A job's identity doubles as the
goroutine that runs it.

| Variable | Code |
|---|---|
| `active`, `reserved`, `pending`, `lastGranted`, `consecutive` | fields of `workCoordinator` |
| `saved` | the two rows of `coordinator_state`, each written separately by `Bind` |
| `mem` | `job.Status` in `jobManager.items`, "none" when the job is not in the map |
| `row`, `kind` | `status` and `type` of the `job_runs` row |
| `ctxDone` | whether the job's `context` was cancelled |
| `maintNext` | the tick still has to call `tickMaintenance` after `dispatchNext` |
| `clobbered`, `triggered`, `recent` | history, read by properties only |

| Actions | Code |
|---|---|
| `ManualAcquire`, `AutoAcquire`, `AutoRefused`, `DeferBack` | `TryAcquire` and what its callers do with a refusal |
| `CreateJob`, `StartFails`, `AbortReservation`, `Bind`, `Launch`, `CandidatesFail` | the rest of `StartFetchSourcesJob`, `StartCheckJob` |
| `Finish`, `FinishFails`, `StopWork` | `Update` with a terminal status, its rollback on an SQL error, `finishCancelled` |
| `ReleaseSlot`, `NotifyTerminal` | the terminal callback of `newServer` |
| `Pop`, `NothingToPop` | `dispatchNext` / `PopNext` |
| `TickStart`, `TickDefer`, `TickDispatch`, `Maintenance*` | `tick` |
| `Cancel`, `Restart` | `jobManager.Cancel`; a crash followed by `newServer` |

Abstractions: an intent is its key (its payload decides nothing about the slot);
progress updates are left out (they do not touch status once a job is terminal);
a finished identity is recycled once nothing refers to it; `consecutive` is
counted up to `GrantCap` because `PopNext` only compares it with 2. `Faults`
chooses which SQL statements may fail.

### Runs of HeavyWork

| Run | Instance | What it shows |
|---|---|---|
| `heavy_exclusion` | a client, two jobs, a fetch and a check key, no SQL faults | `TypeOK`; `ExclusiveUnlessClobbered`: heavy jobs exclude each other unless a `Release` has cleared a foreign reservation; `NoTriggerLost`: a deferred intent is pending or in somebody's hands until its job is bound; `GrantsAlternate`, restarts included |
| `heavy_faults` | no client, every SQL statement may fail, fair goroutines | `SlotAccounted`: a reservation always has a holder, a bound job has a goroutine that will release it or was orphaned by a failed update; `CancelAndOutcomeStick`; `SlotFreed`: a bound job frees the slot or was orphaned |
| `heavy_refines_slot` | start and update failures | `ImplementsSlot`: refinement of `HeavySlot` |

Bounds. Two job identities suffice for two heavy jobs to overlap, and for a
maintenance job to overlap a heavy one; three goroutines that may hold a
reservation (client, ticker, ending job) give every pair that can race. One or
two keys: one of each type for fairness, one pipeline key for the follow-up of a
fetch.

Fairness. `FairSpec` is weak fairness of each goroutine's own steps and of the
tick. Go's scheduler runs every runnable goroutine, a mutex is held only for a
bounded section, and every fetch and check carries a timeout, so a running job
ends. Nothing is assumed of clients, cancellations or restarts.

### CheckPool: correspondence with the code

One check job from the launch of its goroutine on. A plan is one proxy; the
bundle of its results is reduced to a verdict (`available`, `reachable`, `dead`,
or `empty` when there is no result: cancelled, or past the hard timeout).

| Variable | Code |
|---|---|
| `limit`, `active` | fields of `checkConcurrencyController` |
| `woken` | waiters whose captured channel `changed` has been closed |
| `unfed`, `fed` | plans the feeder still has; the jobs channel is closed |
| `pc`, `plan`, `verdict` | the workers of `checkBatchStream` |
| `results`, `closed` | the results channel |
| `cons`, `item`, `shield`, the counters, `outcome` | the loop of `runCheckJob`; `shield`: the save runs under a context of its own because the job was already cancelled |
| `cancelled`, `status` | context and status of the job |
| `known` | what the store says of each proxy |
| `produced`, `saved` | history, read by properties only |

| Actions | Code |
|---|---|
| `Acquire`, `Wait`, `WakeUp`, `AcquireCancelled`, `Release`, `SetLimit` | `concurrency.go`; the check of the limit and the capture of the channel are one critical section, the wait is outside |
| `Take`, `FeederEnds`, `Quit`, `NoMorePlans`, `Check`, `Send`, `DropBundle`, `CloseResults` | `checkBatchStream`; every `select` with `ctx.Done` is a choice |
| `Receive`, `SaveBundle`, `SaveFails`, `DeleteProxy`, `DeleteFails`, `EndOfResults`, `Finish` | `runCheckJob`, `finalizeCheckJob` |
| `Cancel`, `CancelContext` | `jobManager.Cancel`: status first, then the context |

Abstractions: the channels are sets (their order decides nothing here; the
results channel holds as many bundles as there are workers); the verdict of a
check is free; `Spared` and `Retested` fix what the store knew before; panics are
not modelled.

### Runs of CheckPool

| Run | Instance | What it shows |
|---|---|---|
| `pool_saves` | 2 plans, 2 workers, `MaxLimit` 2, requested limits 0..3, failing saves and deletes, hard timeouts, cancellation at any time, fair goroutines | `TypeOK`; `PermitsAccounted` and `NoSleeperMissesPermit` of the limiter; `CompletedMeansSaved`, `EndsAfterWorkers`, `ReportMatchesStore` of the job; `JobEnds`; `ImplementsJob`: refinement of `CheckJob` |

Bounds. Two workers and a limit that moves between 1 and 2 give a sleeper, a
release and a change of the limit that race; a limit that goes up and down again
wakes a waiter in vain. Of the two proxies one is spared and one known as dead.
The theorems hold for any number of either. Fairness: weak fairness of each worker, the
feeder, the closer and the consumer; a check ends by its hard timeout. The
limiter keeps no queue, so nothing says which waiter gets a permit: the property
only asks that the job, which is finite, ends.

### Schedules: correspondence with the code

`SaveSchedulerState` writes all columns of a row, so everybody who changes one
reads it first and writes it back later; the two are two steps here. All of them
drop the error of that write (`settings.go:561`, `:586`, `:614`, `:625`, `:708`,
`:741`, `:832`, `:860`, `:509`), and `MarkStarted`, `OnJobTerminal`, `markPending`,
`resetSchedule` and recovery take a row they cannot read for a blank one, which they
then fill in and write. `Read` and `Write` have both outcomes; `Events` says which
statements may fail in a run.

| Variable | Code |
|---|---|
| `enabled` | the switches of `app_settings`; a target counts as on when low-stock checks are on and the target is listed |
| `row` | `scheduler_state`: `next` is `next_due_at` and `backoff_until` together (`none`, `later`, `due`), `last` is `last_job_id` |
| `status`, `task` | `job_runs` |
| `leftover` | `job_runs`: schedules with an interrupted job of an earlier process, which recovery may come back to |
| `slot`, `pending` | the coordinator |
| `pc`, `key`, `copy`, `cur`, `view` | where each goroutine is, its key, the row and the settings it has read, its job |
| `snap`, `todo`, `maintNext` | locals of the tick |
| `lost` | history: schedules that should have got a next time and have none: a crash, a failed statement or `markPending` kept it from being written, or took it away, and nobody has written one since |

| Actions | Code |
|---|---|
| `TickStart`, `EnsureSchedules`, `ListRows`, `ListFails`, `PassOver`, `DeferDue`, `SaveDue` | `tick`, `ensureSchedules`, the first loop of `enqueueDue` with `intentForState` |
| `TargetsNext`, `TargetEnough`, `TargetShort`, `TargetCheck`, `TargetFetch`, `PostponeTarget`, `MarkPendingRead`, `MarkPendingWrite` | its loop over the low-stock targets, `markPending` |
| `TickDispatch`, `MaintenanceRead`, `NoMaintenance`, `MaintenanceBusy`, `MaintenanceBegins`, `MaintenanceFails` | the rest of `tick`, `tickMaintenance` |
| `Pop`, `NothingToPop`, `Begin`, `Deferred`, `StartFails`, `MarkRead`, `MarkWrite`, `ManualStart` | `dispatchNext`, `StartCheckJob` / `StartFetchSourcesJob`, `MarkStarted` |
| `EndJob`, `EndFails`, `ReleaseSlot`, `ReportRead`, `ReportWrite`, `Reported` | `Update` with a terminal status, the callback, `OnJobTerminal` |
| `ReadSettings`, `SaveSettings`, `SettingsNotSaved`, `ResetRead`, `ResetWrite` | `handleSaveSettings`, `ApplySettings`, `resetSchedule` |
| `TimePasses` | the clock |
| `Restart` | a crash, `recoverInterrupted`, `recoverInterruptedSchedules`, whose statements may fail for some schedules or for all of them |

Abstractions: how long a schedule waits after which outcome (interval, backoff,
two minutes, one minute) is "later", and later becomes due at any time; the slot
is taken, the job created and bound in one step (`HeavyWork` has them apart); a
start that fails after `MarkStarted` ends its job as any job ends, on a goroutine
of its own; `ensureSchedules` is one step; one change of the settings concerns
one schedule; pipeline intents are left out (they have no schedule: the rows
`check.pipeline.*` that `MarkStarted` writes for them are never looked at). A
job's identity is used again when its outcome is written; rows that still name it
then say `OldJob`, or `Interrupted` when a crash ended it, which is all that
recovery asks of an old job.

### Runs of Schedules

| Run | Instance | What it shows |
|---|---|---|
| `sched_settings` | a periodic fetch, 2 jobs, a saver of settings; jobs by hand, failing reads, saves and terminal updates | `ScheduleAlive`: a schedule that is on has a next time, or a goroutine that runs its job or will write one, but for `lost`; `PlansKept`: nobody erases a plan with a stale copy, nor with a row that could not be read |
| `sched_stock` | a low-stock target, the low-stock fetch, 1 job; failing starts, reads, saves and terminal updates, crashes | `TypeOK`, `ScheduleAlive` with `markPending`, postponed targets, recovery that fails |
| `sched_liveness` | a periodic fetch and the maintenance, 2 jobs; the maintenance job may not be created | `ScheduleRuns` |

`lost` is narrow on purpose. A schedule enters it only at the step that should have
given it a next time (`Plan`, `EndFails`, `MarkPendingWrite`, `Restart`), and only when
it then has none; a failed read or save anywhere else, in `MarkStarted`, `enqueueDue`
or `ensureSchedules`, has to leave the schedule alive. A row "running" of a job whose
terminal update failed counts for nothing: `Occupied` asks for a goroutine at work.

Bounds. A periodic schedule, a target with the fetch it calls for, and the maintenance
are each in one run. A row is never touched on behalf of another row's key, except by
the low-stock fetch, which is in the instance. Two jobs allow one to report its outcome
while the next starts; with targets, whose rows have more owners already, there is
one. With failing statements an instance with all of these events does not end in
minutes: `sched_settings` (3.4 million states) has no crash, `sched_stock` (1.8
million) no saver; crashes between the steps of a saver, and failing statements of the
maintenance, are covered by the theorems, which have any events together. Fairness:
weak fairness of the tick, of each goroutine's own steps and of the clock; nothing is
assumed of jobs started by hand, settings, faults or crashes. `ScheduleRuns` is checked
without jobs started by hand (with them a client could keep the slot busy for ever) and
without failing reads and saves (any of which may end a schedule, see 5).

### Gateway: correspondence with the code

One endpoint of the gateway. A request is a goroutine; one step is one hold of
`gatewaySelector.mu`, or what the request does between two of them. Time is
relative: `wait[u]` is what is left of `IsolatedUntil`.

| Variable | Code |
|---|---|
| `pool`, `threshold` | `upstreams`, `failureThreshold` of the selector |
| `count`, `wait`, `probe` | `Count`, `IsolatedUntil`, `HalfOpenInFlight` of an upstream; all 0 when it has no entry in `failures` |
| `pc`, `kind`, `up`, `tried`, `left` | where a request is, whether it forwards or tunnels, its upstream, its map `tried`, its attempts left |
| `granted`, `lost`, `counted` | history: the request was let in as a probe that nobody has reported on; the probe ended without a report; how often the request was added to the counters |

| Actions | Code |
|---|---|
| `Accept`, `SelectActive`, `SelectDegraded`, `NothingToSelect` | `ServeHTTP`; `next`, `selectLocked`, `selectDegradedLocked`, `markSelectableLocked` |
| `AttemptFails`, `DialCutOff`, `Respond`, `CopyEnds`, `GiveUp` | `handleForward`, `openTunnelWithRetry`, `recordFinalFailure` |
| `TunnelOpens`, `HandOver`, `HandOverFails`, `PipeEnds` | `handleConnect`, `handleSocks5Conn`, `recordTunnelResult`, `classifyGatewayTunnelResult` |
| `ReportSuccess`, `ReportFailure`, `ReportNeutral` | `reportSuccess`, `reportFailureMode`, `reportNeutral` |
| `ReplacePool`, `ApplyConfig`, `Tick` | the end of `refreshReserved`, `applyConfigLocked`, the clock |

Abstractions: the strategies and the moving averages rank upstreams that may all
be selected, so a request takes any of them; whether bytes were received and sent
is free.

| Run | Instance | What it shows |
|---|---|---|
| `gateway` | 2 requests, 2 upstreams, thresholds 1 and 2, cooldown 2, 2 attempts, failures counted up to 2 | `TypeOK`; `ProbeAccounted`: an isolated upstream has one probe at a time and the selector knows it, but for a tunnel that could not be handed over; `HistoryKept`: failures are forgotten only through a request that ended with that upstream and was counted, or when the upstream leaves the pool; `RequestCountedOnce`; `ImplementsBreaker`: refinement of `CircuitBreaker` |

Bounds. Two requests are enough for a late report, a probe that another request
ends and a degraded choice; the second upstream for a retry. A threshold of 2 with
a cooldown of 2 has an upstream in each state of the breaker, and the change of the
threshold moves it from one to another. `Count` is compared with the threshold
only. No fairness: all properties are safety.

### GatewayPool: correspondence with the code

A pool is known by the version of the settings it was loaded for.

| Variable | Code |
|---|---|
| `cfg` | `gatewayServer.cfg` |
| `applied`, `moved` | the settings in the selector; whether `configGeneration` differs from what the refresh at work has seen |
| `pool`, `fresh` | `upstreams`, the age of `upstreamsLoadedAt` |
| `refreshing`, `holder` | the flag, `refreshMu` |
| `pc`, `snap` | where a goroutine is, the settings it has read |

| Actions | Code |
|---|---|
| `ReadConfig`, `UpdateConfig`, `Save`, `Look` | `next`, `ApplyRuntimeConfig`, `snapshot` |
| `PoolIsGood`, `StartAsync`, `Refresh` | `ensurePool`, `startAsyncRefresh`, `refresh` |
| `TakeTurn`, `Begin`, `NotNeeded`, `LoadFails`, `Discard`, `Install` | `refreshReserved`, `finishRefreshError`: the settings are read under `gatewayServer.mu` (`TakeTurn`) and applied, with the generation noted, under `gatewaySelector.mu` (`Begin`) |
| `Expire` | 30 seconds pass |

| Run | Instance | What it shows |
|---|---|---|
| `gateway_pool` | 2 requests, 1 background refresh, 1 saver, 2 changes | `FlagHasRefresher`; `ImplementsCache`: refinement of `PoolCache`; `SettingsReachPool` |

Bounds. Two requests, a background refresh and a saver make four refreshes that
queue for `refreshMu`; two changes are needed for a refresh that is two versions
behind, and for a change between `TakeTurn` and `Begin` (247 thousand states). Fairness: weak fairness of every goroutine's steps, of traffic and of
time, and strong fairness of a load that finds something: a load is a query, the
settings and the traffic bring about another one whenever one fails, and the
property is about an endpoint that is in use and a store that answers.

### GeoEnricher: correspondence with the code

| Variable | Code |
|---|---|
| `pending`, `queue`, `stopped` | `pending`, `queue`, the channel `stop` |
| `work`, `rest` | the address in `process`, what is left until `nextRequest` |
| `kept` | what is left of `expires_at` or `retry_after` in `ip_geo_cache` |
| `entry` | the entry of `checkGeoCache`: absent, loading, ready |
| `pc`, `exit`, `due` | where a goroutine is, the exit address of a check, what the check has read in the table |

| Actions | Code |
|---|---|
| `Find`, `WaitEnds`, `Ready`, `NewJob` | `checkGeoCache.Lookup`, `newCheckGeoCache` |
| `ReadCache`, `LocalDone`, `Flag`, `Push`, `Unflag` | `LookupAndQueue`, `Enqueue`: the flag is set, the send is tried without waiting, and the flag is taken back |
| `Take`, `Look`, `Ask`, `RateCutOff`, `NoAnswer`, `GotAnswer`, `SaveAnswer`, `Unpend`, `WorkerEnds` | `run`, `process`, `waitRateLimit`, `SaveIPGeoSuccess`, `SaveIPGeoFailure` |
| `Stop`, `Tick` | `Stop`, the clock |

| Run | Instance | What it shows |
|---|---|---|
| `geo` | 2 addresses, 2 checks, a queue of 1, answers kept for 2 ticks and failures for 1, a request per tick | `PendingExact`, `NothingHangs`; `ImplementsService`: refinement of `GeoService` |

Bounds. With a queue of one and two addresses one is dropped while the other is
queued or in work; two checks race for one address, and jobs follow one another.
Fairness: weak fairness of the checks, the worker and the clock: each request of
the worker has a timeout and each statement ends. Reads and writes of
`ip_geo_cache` do not fail in the model (see 5 for what the worker makes of it).

### GeoDatabase: correspondence with the code

| Variable | Code |
|---|---|
| `latest`, `file`, `reader` | the build at the download URL, on disk, in use |
| `initialized`, `initMu`, `updateMu` | the fields of the same names |
| `pc`, `got` | where a goroutine is, the build it has downloaded or opened |
| `held` | whether the reader that a lookup uses is current, replaced or closed |
| `overlap` | history: a first load and an update have overlapped and one of them is still at work |

| Actions | Code |
|---|---|
| `EnterInit`, `EnterUpdate`, `Leave` | `InitializeGeoIPDatabasesFromEnv`, `UpdateGeoIPDatabaseFromEnv` |
| `Download`, `Rename`, `Open`, `LoadFails` | `downloadGeoIPDatabase`, `openGeoIPDatabase`, `LoadGeoIPDatabase` |
| `Swap`, `Close` | `replaceGeoIPReader` |
| `TakeReader`, `Answer` | `LookupGeoIP`; a writer that waits for `mu` keeps new readers out |
| `Publish` | a new build comes out |

| Run | Instance | What it shows |
|---|---|---|
| `geo_database` | 2 lookups, the ticker and an administrator, 2 builds | `ReaderOpenWhileUsed`, `OlderOnlyByFirstLoad`, `LoadedInTheEnd` |

Bounds. One lookup may load while another reads; two updates wait for each other;
two builds are enough for an older and a newer one. Fairness: weak fairness of
what goes on inside the locks, strong fairness of the entries of lookups (Go's
mutexes hand over to those who have waited long), and of the download, the rename
and the opening of a lookup: of loads tried again and again one succeeds. Without
that there is nothing to promise.

### CheckOutcome and ProxyStore: correspondence with the code

`CheckOutcome` has no state. `Rounds` are the results one round may have
(`checkProxyPlanOnce`, `probeTargetWithClient`, `buildTargetCheckResult`),
`Combine` is `combineRoundResults`, `TargetStatus` and `ProbeStatus` are what
`saveCheckResultTx` derives. Latencies, rates and grades are left out: no status
depends on them. `ProxyStore` is one proxy: an SQL transaction is one step, as
SQLite gives it the database to itself, but every statement reads
`datetime('now')` of its own, so the clock may tick between two of them.

| Variable | Code |
|---|---|
| `id`, `lastId` | `proxies.id`, the AUTOINCREMENT sequence |
| `root` | status and snapshot in `proxies` |
| `probe`, `target`, `shadow` | `proxy_probe_state`, `proxy_target_state`, `proxy_checks` |
| `check` | the check of the proxy in the check job: its id, its plan, whether it found it dead |
| `committed`, `stats`, `cache` | who has yet to call `InvalidateStats`; `Stats` under `statsMu`; `statsCache` |
| `origin` | history: the id that was checked for the results of the row |
| `rewritten` | history: the last to write the status in `proxies` was a start |

| Actions | Code |
|---|---|
| `Import` | `ImportProxies`, `upsertProxy` |
| `DeleteProxiesByStatus`, `DeleteFailedProxies`, `DeleteExpiredUntested`, `RequeueExpiredAvailable` | the methods of the same names |
| `BeginCheck`, `CheckDropped`, `Save`, `SaveFails`, `DeleteAfterCheck`, `KeepAfterCheck` | `runCheckJob`, `SaveProxyCheckBundleContext`, `saveCheckResultTx`, `DeleteProxyIfNoAvailableTargets` |
| `StatsBegins`, `StatsEnds`, `StatsFails`, `InvalidateStats` | `Stats`, `InvalidateStats` |
| `Tick` | the clock |
| `Restart` | a crash, and `normalizeStoredProxyState`, which `EnsureSchema` calls at every start |

| Run | Instance | What it shows |
|---|---|---|
| `store` | the generic target and a named one, checks of 1 or 2 rounds with every plan and outcome, expiry after 2 ticks, 2 ids, crashes | `RootAgrees`, `ResultForItsRow`, `UntestedMeansNoneAvailable`, `StatsCurrent`, `OutcomeSound` |

Bounds. The generic target is the only one without an API and the only one that
is available by its base alone; all named ones are treated alike, so one of them
gives every combination, in both orders of a plan. Two rounds include the tie that
counts as available. Two ids: a proxy that is deleted and imported again during
its check. The clock ticks at most once within a transaction: SQLite's
`datetime('now')` counts seconds, and a transaction that took longer than two of them
would part its rows further than `Astride` and `UntestedMeansNoneAvailable` allow. The
age of expiry is a constant: a setting that is lowered between two requeues expires
more, but all by the same comparison. No fairness: all properties are safety.

Of the statements of a start, `Restart` has the rewrite of `proxies.status`
(`store.go:946-954`). The one before it looks for targets stored as available with
neither service nor API reached, which no result this program stores is (`Found` in the
proofs), and the `INSERT OR IGNORE` into `proxy_checks` (`store.go:317`) for proxies
whose snapshot has no row there, but each save that writes the snapshot writes the row.

## 4. Proofs

Every invariant, every action property and every refinement that a run checks is
also a theorem: the run shows that it is about something that happens, the proof
that it holds for all values of the constants. Four properties have a theorem and
no run, because the refinement that is checked instead says more:
`DeletedOnlyWhenDead` (by `CheckJob`), `LoadsInTurn` and `PoolNeverOlder` (by
`PoolCache`), `AskedOncePerTtl` (by `GeoService`). The mutations that would break
them break the refinement.

`HeavyWorkProofs` proves, for all values of the constants that satisfy the named
assumptions of `HeavyWork` (`ActorAssumption`, `KeyAssumption`,
`FaultAssumption`):

* `Invariance`: `Spec => []IInv`;
* `TypeCorrect`, `Accounting`, `Exclusion`: `TypeOK`, `SlotAccounted`,
  `ExclusiveUnlessClobbered`;
* `OutcomesStick`, `TriggersKept`: `CancelAndOutcomeStick`, `NoTriggerLost`;
* `Alternation`: `GrantsAlternate`, if the rows of `coordinator_state` can be
  written (`"fairness" \notin Faults`): `Bind` goes on when they cannot, and a
  restart then reads what was there before;
* `Refinement`: `QuietSpec => ImplementsSlot`.

`ExclusiveUnlessClobbered` is not inductive. `IInv` adds which goroutine has
which job in hand (`Hands`, `OneOwner`: never two the same), what it knows of it
(`Live`, `HeavyStart`, `OwnJob`), that memory and rows agree on which jobs are
active (`RowsMatchItems`), and, until a reservation is clobbered, that a start
under way means a reserved and unbound slot (`Reservation`), that there is one
such start (`OneHolder`) and that every heavy job at work is bound or being bound
(`Guarded`). `OutcomesStick` needs that the row never runs ahead of `items`
(`CancelInItems`): `Update` decides by the status in memory, so a cancellation that
is in the row has to be there too. The other direction is false, since a failing
`UPDATE` of `Cancel` leaves memory ahead. `NoTriggerLost` is inductive only because it
says where an intent is carried (`Carrying`): a key that a goroutine still has in
`want` after its job is bound does not count. `Alternation` needs that the type and
the number of the last grants, in memory and in the rows, are those of the history
(`GrantsRemembered`). Each action has its own lemma for the parts of `IInv` it touches.

`CheckPoolProofs` (from `PoolAssumption`, `LimitAssumption`, `StoreAssumption`)
proves for any number of plans and workers and any limit: `TypeCorrect`,
`Permits` (`PermitsAccounted`), `WakeUps` (`NoSleeperMissesPermit`), `EndOfJob`
(`EndsAfterWorkers`), `Deletion` (`DeletedOnlyWhenDead`), `CompletedJob`
(`CompletedMeansSaved`), `Report` (`ReportMatchesStore`) and `Refinement`
(`ImplementsJob`). Its `IInv` says which worker has which plan (`Hands`,
`Fresh`), that bundles in flight say what the check found (`HonestBundles`,
`HonestItem`), that the channels close in order (`Feeding`, `Closing`), and, for
`CompletedMeansSaved`, that without a cancellation and a failed save every plan
is settled or still on its way (`Covered`, `Completion`).

`Report` is inductive only together with `OnePlace`: a plan is at one place on its
way from the feeder over a worker, the results channel and the consumer to the
store, so a bundle is never counted twice; the counters then agree with the store
throughout (`CountersMatch`). `Refinement` maps "a proxy is being checked" to "a
worker that has it in hand holds a permit": `Acquire` is the beginning of a check
and `Release` its end, and `Wait`, `WakeUp`, the channels and the failing statements
are stuttering steps. It needs, for the end of the job, that only an accepted
cancellation closes the context (`CancelAccepted`) and that the outcome asked for
agrees with what is saved (`OutcomeFits`). `CheckJob` claims no more than the code
keeps: a lowered limit does not interrupt checks that are under way, and a verdict
may stay unsaved when a save fails or the job is cancelled.

`SchedulesProofs` (from `KeyAssumption`, `ActorAssumption`, and the hypothesis
that there is one saver of settings at a time) proves `TypeCorrect`, `Survival`
(`ScheduleAlive`) and `PlansStay` (`PlansKept`), whichever reads and writes fail.
`ScheduleAlive` is not inductive: a running job only vouches for a row that names it,
or recovery would pass over the row. `IInv` therefore asks for a running job that the
row names (`KnownJob`), a goroutine that will write the next time, or `lost`
(`AllCovered`), and adds which goroutine has which job in hand (`Hands`, `OneOwner`,
`NotLaunched`) and which key (`Keyed`), that the tick saves only rows it has read as
due (`DueCopies`), that `markPending` is for low-stock schedules (`StockMarked`), and
that the saver's settings are those saved (`SettingsKnown`, where the hypothesis is
needed). A failed `MarkWrite` leaves the next time as it was, and a failed read in
`MarkRead` loses nothing that the write would not replace, so neither breaks
`AllCovered`; a failed `ReportWrite` or `ResetWrite` leaves the row unplanned only
together with `lost` (`Saved`). The step of `AllCovered` is cut by what may happen to a
schedule and not by action: a writer stays (`WritersStay`), a known job stays
(`KnownJobStays`), a lost schedule stays lost (`LostStays`), a plan is taken
(`PlanTaken`), a schedule is switched on (`SwitchedOn`).

`GatewayProofs` (from `UpstreamAssumption`, `LimitAssumption`) proves
`TypeCorrect`, `Probes` (`ProbeAccounted`), `CountedOnce` (`RequestCountedOnce`)
and `History` (`HistoryKept`) for any number of requests and upstreams, any
thresholds and any cooldown. The strengthening is `Placed`: a request that uses an
upstream has one, one that selects or tries has an attempt left, and only one that
uses an upstream can be its probe.

Its `Refinement` (`ImplementsBreaker`) maps the three numbers of an upstream to the
state that `snapshot` counts for the status page, and the probe to the requests in
flight that were let in as one. `ProbeAccounted` is what makes the steps of a
selection map to `Probe`: the flag that `isSelectableLocked` looks at tells whether
there is such a request. A report is one of `Succeed`, `Fail` and `Neutral`,
whichever request it comes from (`ReportStep`). `CircuitBreaker` says where this
is not the breaker of the book: late reports count, an open breaker may get a probe
when nothing else is left, and a probe may be lost.

`GatewayPoolProofs` (from `ProcAssumption`, `ChangeAssumption`) proves
`FlagIsHonest` (`FlagHasRefresher`), `OneAtATime` (`LoadsInTurn`) and `NeverOlder`
(`PoolNeverOlder`). The strengthening is `InOrder`: the pool is of settings there
have been, and whoever loads holds `refreshMu` and has read settings between those
of the pool and those saved.

Its `Refinement` (`ImplementsCache`) is about `configGeneration`, which the code
compares instead of the settings. From `Begin` on, as long as it has not moved, the
selector goes by what the load has read (`Unmoved`), so that `Install` may happen only
when `PoolCache` allows it. It does not say that those settings are still the saved
ones: they are read before `Begin`, in a critical section of another mutex (see 5), and
`PoolCache` promises no more. `WasInForce` says that what a goroutine is about to apply
has been in force; it may be older than what it replaces, and `PoolCache` says so.

`GeoEnricherProofs` (from `GeoAssumption`) proves `Pending` (`PendingExact`) for any number of checks and
addresses and any queue, and `AskedOnce` (`AskedOncePerTtl`). `Placed` says which
goroutine has an address in hand, and `WillAsk` that the entry stays due between
`Look` and the request: only the worker writes entries.

Its `Refinement` (`ImplementsService`) maps the pending set to what has been
accepted and the address in work to what is asked for from the request until its
answer is saved. That `Ask` comes only when the turn is there and nothing is kept is
`WillAsk`; that the address asked for is never given up is `PendingExact`.

`GeoDatabaseProofs` (from `LoadAssumption`) proves `OpenWhileUsed` (`ReaderOpenWhileUsed`) and
`OlderOnlyInOverlap` (`OlderOnlyByFirstLoad`). The strengthening says that who loads
holds its mutex (`Exclusive`), that a lookup has a reader only under the read lock
(`Readers`), and that, without an overlap, what is about to be renamed is not older
than the file, and what is about to be swapped in is the file (`InOrder`).

`ProxyStoreProofs` (from `TargetAssumption`, `RoundAssumption`, `TtlAssumption`,
`IdAssumption`) proves `SoundOutcome` (`OutcomeSound`), `Summarised`
(`RootAgrees`, restarts included), `OwnResults` (`ResultForItsRow`), `Untested`
(`UntestedMeansNoneAvailable`) and `Current` (`StatsCurrent`) for any set of
targets, any number of rounds and any expiry. `SoundOutcome` rests on counting:
no round is both available and blocked (`RoundsShared`). `Summarised` is about the
last result of a plan that writes the snapshot (`LastWriter`): if a target is
available in the end, that result is not a failure. Its other half is about a start
between any two transactions: `ShadowInv` says that a target has the same status in
`proxy_target_state` and `proxy_checks`, and nearly the same age, unless it has just
expired in one of them (`Expiring`), which `PairedRequeued` shows of a requeue with a
tick before any of its statements. `Untested` needs `AgeInv`: an
available target is at most a tick younger than the probe it was saved with,
whichever statement the clock ticked before.

Only model-checked: liveness (`SlotFreed`, `JobEnds`, `ScheduleRuns`,
`SettingsReachPool`, `NothingHangs`, `LoadedInTheEnd`), since liveness under fairness
is out of the prover's reach. Neither checked nor proved: what `GrantsAlternate` says
across a restart when the rows of `coordinator_state` could not be written (the run
has no faults, and the theorem excludes this one), and two savers of settings at
once: their reads, writes and resets may come in any order, and the code makes no
promise about them.

## 5. What the checks found

Where the code does something a property would rather exclude, the property names
the case as its exception, and a history variable records it.

Coordinator, jobs and scheduler:

* The maintenance job never takes the slot, but its terminal callback calls
  `Release`, which clears `reservedType` when no job is bound
  (`coordinator.go:93`). A start between `TryAcquire` and `Bind` loses its
  reservation and another one gets in (`clobbered`); CHANGELOG.md:186 says this
  cannot happen.
* When the terminal `UPDATE` fails (`jobs.go:305`), `Update` returns without the
  callback and the worker is gone: the slot is bound until the next restart
  (`Orphaned`), against CHANGELOG.md:116.
* After a cancellation a worker that holds a finished bundle may return on
  `ctx.Done` instead of sending it (`checker.go:604-608`); the bundle is neither
  saved nor counted in `persistence_failed`, against
  docs/ROADMAP_V0.4.0_TO_V0.4.2.md:600. `CompletedMeansSaved` asks for all bundles
  only of a job that completes.
* A crash between the terminal `UPDATE` of a job and the write of `OnJobTerminal`
  (`settings.go:741`) leaves a row without `next_due_at`. The job is not
  interrupted, so recovery passes over it, and nothing else repairs rows; the
  maintenance cannot even be reset through the settings. Against
  docs/ROADMAP_V0.4.0_TO_V0.4.2.md:531. `lost` in `Schedules` records this, and a
  second way to the same end without a crash: `markPending` reads the row of the
  low-stock fetch while its job runs and writes it back after `OnJobTerminal` has
  planned the next run (`settings.go:621`).
* Nobody looks at the error of `SaveSchedulerState`. When that of `OnJobTerminal`
  (`settings.go:741`) or of `resetSchedule` (`:832`) fails, an enabled schedule is left
  without a next time for good, with no crash; when `markPending` cannot read the row
  (`:621`) it replaces it by a blank one, with the same end. The failing terminal
  `UPDATE` (`jobs.go:305`) leaves the schedule of its job behind as well, and a
  recovery whose statements fail leaves out schedules (`:508`). All of these are in
  `lost`. The other saves are harmless: a failed `MarkStarted` leaves the schedule due,
  and it runs again.
* `enqueueDue` may defer a schedule whose start is in flight (`settings.go:583`):
  the second intent runs whatever the outcome of the first has planned. No property
  forbids it, since no document promises one run for each due time.

Gateway:

* When an opened tunnel cannot be handed over to its client, only
  `recordFinalFailure` is called (`gateway.go:676`): a probe stays in flight, and
  the upstream is out until somebody else reports on it or it leaves the pool
  (`lost` in `Gateway`). CHANGELOG.md:49 says that neutral probes are released, and
  :86 that a half-open circuit has a single probe; neither mentions this path.
* A client that goes away while its tunnel is dialled has the failure charged to
  the upstream (`DialCutOff`), although CHANGELOG.md:49 excludes cancellations of
  clients from the count.
* `next` reads the settings before it takes the lock. A request that comes late
  applies old settings, begins a new generation, and so discards the refresh that
  an administrator has just started; the next requests mend it
  (`SettingsReachPool`).
* `refreshReserved` reads the settings under `gatewayServer.mu`
  (`gateway_selector.go:158`) and applies them and notes `configGeneration` under
  `gatewaySelector.mu` (`:159-166`). Settings that are saved and applied in between are
  set back, `configGeneration` is noted afterwards and so does not tell, and what is
  loaded for the old settings is installed. The forced refresh of the saver, which waits
  for `refreshMu`, and every later request set the selector forward again
  (`SettingsReachPool`).
* A tunnel that is let in as a probe and stays open holds the probe for as long as
  it lasts.

Geo:

* The first load holds `initMu` and updates hold `updateMu`, so the two may
  interleave and put an older database in place of a newer one (`overlap`), until
  the next update. `initMu` is held during the download, and all lookups wait for
  it.
* The worker takes a failed read of the table as "not in the cache" and ignores
  errors of a save; `Stop` is never called by `main`.

Store:

* A proxy whose rounds were stopped by Cloudflare in up to half of the cases is
  counted as available by the job and stored as failed; `OutcomeSound` says that
  this is the only difference.
* With `datetime('now')` read by each statement, a probe may be requeued a tick
  before its target: for that tick an untested proxy has an available target, and
  `DeleteProxiesByStatus("untested")` would delete it. Likewise `proxy_checks` may
  expire a tick before or after the target it is a shadow of.
* Every start rewrites `proxies.status` from `proxy_checks` (`store.go:946-954`), while
  saves and requeues take it from `proxy_target_state`. After a requeue that parted the
  two, a start makes a proxy untested in the lists that has an available target, or the
  other way round, until the next save or requeue. `RootAgrees` says that this is the
  only difference.
* The status of the probe is taken from the first target of the plan only.

## 6. Not modelled

* Intents are known by their key: what a pipeline follow-up carries, and how two
  payloads merge (`coordinator.go:116`), is left out, and so are pipeline intents
  that fail to start.
* Two savers of settings at once: each writes all settings, and the code makes no
  promise about the order.
* The work of a fetch job: downloading and parsing sources, their health and
  cooldown. `HeavyWork` has the job around it.
* In the store: listing, counting, ranking and export, the contents of metadata
  columns (a probe row may keep the metadata of an older exit address), the schema
  and its one-off migrations.
* In the gateway: which of the selectable upstreams a strategy prefers, listeners,
  authentication and the byte streams.
* How long a backoff or an interval is: time in the models passes or does not.
* HTTP routing and sessions, the web page, the log ring, helpers and scripts: I/O
  and presentation without a protocol of their own. The probing of proxies is an
  input to the models (nondeterministic outcomes).
