# Coravel in TLA+

TLA+ modules, TLC runs and TLAPS proofs about the parts of Coravel that keep
state while several things happen at once: the persistent queue and scheduler
of `Coravel.Persistence`, which several application instances share through a
database, and the in-memory queue, scheduler and cache of `Coravel`, which
threads and timer callbacks share through memory; and about the calculations
that decide when something runs: cron expressions, next times and retries. Every definition is written from the C#
code under `src/Src`; `PROJECT.json` ("map") names the lines.

## 1. The system

### Components

| Component | State | Operations |
|---|---|---|
| Persistent queue: `PersistentQueue`, `JobClaimService`, `PersistentJobHost` | job table: status, attempts, `InstanceId`, heartbeat, next retry, idempotency key, `Version`; per instance the permits of its concurrency limiter and the executions holding them | enqueue, cancel, claim, run, complete, fail, heartbeat |
| Stale-job recovery: `StaleJobRecoveryHost` | none of its own | requeue or fail stale jobs, fail stale history entries, release expired locks |
| Database context: Entity Framework as the services use it | table; the tracked rows of each open context | query, edit, `SaveChangesAsync` with the `Version` check, insert |
| Persistent scheduler: `PersistentSchedulerHost`, `ScheduleSyncService`, `PersistentScheduler` | schedule table: active, next and last time, lock, `Version`; history table; per instance the due list it works on | synchronise at start, poll, launch, record, settle, heartbeat, activate/deactivate |
| `DatabaseMutex` | lock columns of a schedule | `TryGetLockAsync` with retries, `ReleaseLockAsync` |
| In-memory queue: `Queue`, `QueuingHost` | concurrent queue, tokens, consumption counter, timer signal | queue a task, consume, cancel, stop |
| In-memory scheduler: `Scheduler`, `SchedulerHost`, `EnsureContinuousSecondTicks`, `ScheduledEvent` | scheduled events, previous tick, first-tick flag, active count | timer callback, catch-up, run due events per worker, unschedule, stop |
| `InMemoryMutex` | locked keys and their expiry | `TryGetLock`, `Release` |
| Cron expressions: `CronExpression`, its parts, `ScheduledEvent` | the expression of an event | construct and validate, append a day, is it due at a time |
| Next times: `CalculateNextExecution`; retries: `BackoffCalculator` | none (pure); their results are columns of the rows above | first occurrence in a zone, last time plus interval, capped exponential delay |
| In-memory cache: `InMemoryCache` | entries of the framework's `IMemoryCache`, key set `_keys`, lock | remember, forever, forget, flush, eviction callback |
| Event dispatcher | listeners per event | register, subscribe, broadcast |
| Database cache, mailer, command line, registrations, samples | - | see section 7 |

### How they interact

* Instances meet in the database only. Every service opens a scope with a
  context of its own, reads rows, edits the tracked entities and saves. Between
  the read and the save anything may happen elsewhere. `Version` is a
  concurrency token: a save whose rows were written meanwhile throws.
* One job may be in the hands of an execution, of the heartbeat of that
  execution (a second context of the same instance), of the recovery of any
  instance, of a caller who cancels, and of an older execution that was taken
  for dead.
* The in-memory queue is emptied by the loop of `QueuingHost` and, during the
  shutdown, by `StopAsync` beside it. Both broadcast events whose listeners may
  throw.
* `InMemoryCache` keeps a set of keys beside an `IMemoryCache` that cannot be
  listed. The cache reports evictions on a thread of the pool, later.
* The timer of `SchedulerHost` fires every second without waiting for the
  previous callback, so callbacks overlap, each with missed ticks to make up for.

### What is hard, and what makes each part correct

| Component | Hard behaviour | Correct means |
|---|---|---|
| Persistent queue | two claims of one row, a heartbeat between read and save, an execution taken for dead that wakes up, crash between claim and start, a save whose answer is lost | attempts bounded, `Failed` only when exhausted, no attempt run twice, no lost update, settled jobs stay settled, every job settles |
| Persistent scheduler, mutex | lock expiry under a slow execution, synchronisation that writes without `Version++`, deactivation during a run, crash holding the lock, ignored release conflicts | exclusive schedules do not overlap, a deactivated schedule stays off, a due schedule runs again after a crash, history entries are settled once |
| In-memory queue | two consumptions, tokens disposed while they are cancelled, exceptions out of listeners | no task lost or taken twice, shutdown waits for accepted tasks and ends |
| In-memory scheduler | overlapping callbacks, ticks out of order, the first tick, counters after exceptions | no second left out, one first tick, `PreventOverlapping` holds, shutdown ends |
| Cache | eviction callbacks that come late, flush between key and entry, a lock that callbacks need, too | every entry has its key, but for three known races; nobody blocks for ever |
| Cron | validation at the clock's mercy, days appended unvalidated, zero, boundaries | what was accepted evaluates; days are the union of what was asked |
| Next times | an hour that does not exist or exists twice, malformed text, restarts | the first occurrence, and one while active, but for known exceptions |
| Backoff | overflow of a power, a base delay above the cap | within the jitter of the power or of the cap |

`PROJECT.json` ("hazards") lists these at their lines, with the properties that
watch them.

## 2. The modules

| Module | Models |
|---|---|
| `DbContext` | contexts, `Load`, `Save` with the version check, `Insert`; the properties of optimistic locking |
| `PersistentJobs` | persistent queue, hosts and recovery; extends `DbContext` |
| `JobLifecycle` | abstract specification: what happens to one job as its user sees it |
| `PersistentSchedules` | persistent scheduler, mutex and recovery; extends `DbContext` |
| `TaskQueue` | in-memory queue and its hosted service |
| `Scheduler` | in-memory scheduler, its hosted service and mutex |
| `InMemoryCache` | in-memory cache and its eviction callbacks |
| `Cron` | cron expressions: operators on parsed parts |
| `EventBuilder` | the expression of an in-memory event being configured; extends `Cron` |
| `ScheduleTimes` | the next time of a persistent schedule, in minutes and zones; extends `Cron` |
| `Retries` | the retry delays of a job |
| `NextTimes` | `ScheduleTimes`, `EventBuilder` and `Retries` side by side, for one run |
| `MCPersistentJobs`, `MCPersistentSchedules`, `MCTaskQueue`, `MCScheduler`, `MCInMemoryCache`, `MCNextTimes` | instances for TLC: environments, symmetry, views, constants |
| `DbContext_proofs`, `PersistentJobs_proofs` | theorems about optimistic locking and the job queue |
| `JobLifecycle_proofs` | what the job queue promises with heartbeats in time, the refinement included; extends `PersistentJobs_proofs` |
| `PersistentSchedules_proofs`, `TaskQueue_proofs`, `Scheduler_proofs`, `InMemoryCache_proofs`, `NextTimes_proofs` | theorems about the modules they are named for |

### Conventions

* An operation that reads the database and saves later is two actions, `...Read`
  and `...Save`; a third, `...Throws` or `...Conflict`, is the save that fails:
  because the `Version` check fails, because the database call fails (if
  `faults.dbErrors`), or because the stopping token cancels it. Where the code treats
  a lost answer as a failure, the failing action may also write.
* `snap[a]` is the context of actor `a`, keyed by kind and place, so an execution
  and its heartbeat have different contexts, as in the code.
* `Environment` is a set of records, each saying what may go wrong in one
  behaviour: late heartbeats or locks, database errors, how many stops, crashes
  and toggles. `faults` starts as one of them and counts down. One run so
  compares a harsh environment with a milder one, and a property that holds in
  the milder one only says so.
* Time is what the code compares: `stale`, `waiting`, `recent`, `due` and
  `expired` are the sets of rows for which a query's comparison with now would
  hold. `Scheduler` has a real clock, in seconds, because catch-up is about it,
  and `ScheduleTimes` has one in minutes, because time zones are.
* A comment "Mutant: ..." marks an operator that is used by no definition. It is
  the same definition with a plausible bug, and shows that a property fails
  when the code has that bug.

### Correspondence with the code, by module

**PersistentJobs.** `EnqueueCheck`/`EnqueueInsert` are the idempotency query and
the insert of `EnqueueJobAsync`; `CancelRead`/`CancelSave` are `CancelJobAsync`;
`ClaimRead` takes the first available row by priority and creation, `ClaimSave`
saves the claim and starts the job, `ClaimConflict` counts the retries of
`ClaimNextJobAsync`, and `ClaimLost` is the claim that was saved although the
call failed: the loop goes on, and the job stays `Running` until the recovery
finds it. A permit is a `Slot`; an execution sits in
`exec[<<host, slot>>]` and moves through `CompleteRead`, `CompleteSave` or
`CompleteThrows`, `JobThrows`, `FailRead`, `FailSave` or `FailThrows`. The generic
catch of `ProcessJobAsync` is why `CompleteThrows` leads to `FailRead`.
`RecoverRead`/`RecoverSave` are `RecoverStaleJobsAsync`, all stale rows in one
save. `Stop`, `Exit`, `Crash` and `Restart` are the life of a process.

**PersistentSchedules.** A save writes only the columns that changed
(`SaveColumns`, `Merged`), since the synchronisation does not increment
`Version`. `SyncRead` looks up one schedule after the other in one context
(`LoadAlso`: a tracked row stays as it was loaded); `SyncSave` saves all of them,
or those before the query that failed. A save that calculates a next time takes
it from `Times`: the time that was loaded, another one, or null for the schedules
of `faults.timeless`, whose calculation may throw or find nothing
(`ScheduleTimes` says when). `PollRead` reads the due list once; `PollNext` handles its
next entry, which need not be due any more. `LockRead`/`LockSave` are
`TryGetLockAsync`, `StartSave` is the history entry and the times of the
schedule in one save, `SettleSave` is `UpdateHistoryAsync`, and `ReleaseRead`
to `ReleaseThrows` are `ReleaseLockAsync`, which looks for the lock of the
instance and not of the execution.

**TaskQueue.** `consumer["loop"]` and `consumer["stop"]` are the two runs of
`ConsumeQueueAsync`. `Peek` and `Take` are `TryPeek` and `TryDequeue`, whose
result may be null. `Throw` is every exception that leaves `ConsumeQueueAsync`:
it ends the loop, or makes `StopAsync` throw. `throwing` is chosen once, at the
start: whether the application's listeners and error handler ever throw.

**Scheduler.** A callback goes through `TimerFires` (reads the time), `TakeTicks`
(tick lock), and for each tick `RunAt`, `TakeFirst`, `Collect` and `EndRunAt`.
Between `Collect` and `EndRunAt` the events of the tick are invoked, one at a time
per worker; "locked" is an invocation under the event's lock. An event that is
scheduled at run time is configured call by call: `Schedule` registers it,
`Configure` is the interval method, and each `Modify` one of `PreventOverlapping`,
`Once` and `RunOnceAtStart`, with ticks between them. `Die` is an exception out of the async void callback. The order in
which a worker takes its events is that of a dictionary, so any order.
`Collect` evaluates all events at one moment.

**InMemoryCache.** A fill (`Remember`, `Forever` and their async forms) is
`AddKey` under the lock, then `Hit`, or `Miss` and `Store`, `StoreTooLate` or
`FactoryThrows`; `ForgetRemove` and `ForgetKey` are the two halves of `Forget`;
`FlushBegin`, `FlushRemove` for each key and `FlushEnd` are `Flush` with the lock
held. `Evict` is an entry leaving the `IMemoryCache`, which queues the
`Callback`. A call begins with the lock: the callers of `Remember` and `Flush` who
wait for it have done nothing yet and are not told from those who have not
called. `excused` is history: the keys whose tracking one of the races has
lost since the key was last added.

**Cron, EventBuilder.** A part is a record of its form (`*`, `*/n`, a value, a
list, a range, a range with a step) with `Bad` for a number that does not parse.
`Eval` yields "due", "not", "throws" or "hangs", in the order in which the code
parses and compares: a list is parsed up to its first match. `Validation` is the
constructor, which evaluates every field at the current time; `Accepted` texts
pass it. `Appended` is `AppendWeekDay` on the text of the part.

**ScheduleTimes.** `Offset` and `ToUtc` are `TimeZoneInfo` with one change of the
offset. `CalculateNextExecution` validates the expression at the present time of
UTC, then walks local minutes up to the first one that is not found undue, and
converts it if it is due; an exception, in the validation, the walk or the
conversion, makes the result null, and an evaluation that loops for ever makes it
`Endless`, and then nothing is saved. Nothing validates the text when the schedule
is created (`PersistentScheduler.Cron`), so malformed rules are in the runs.
`Execute`, `Sync` and `SetJobActive` are the three callers; the interleavings of
these with each other are the matter of `PersistentSchedules`.

**Retries.** `Cast` is the conversion of a double to a long, whose result out of
range depends on the processor. The jitter takes its extreme values and 1. The
base delay is any `TimeSpan`, negative, zero or above the cap included; `Throws`
is `DateTime.Add` when the sum is before the year 1.

## 3. The runs

"Pass" runs finish without an error; a "violation" run shows a disagreement
between a text of the repository and its code.

| Run | Instance | Shows |
|---|---|---|
| `JobsRaces` | 2 instances with 1 permit, 1 job of 2 attempts, 2 claim retries, 1 shutdown, 1 crash; with late heartbeats and database errors, with database errors only, or without both | `TypeOK`, `NoLostUpdate`, `AttemptsBounded`, `FailedIsExhausted`, `OneExecutionPerAttempt`, `OwnerRunsCurrentAttempt`, `EveryWriteIsVersioned` hold in every environment; `ExclusiveExecution` and `TerminalIsFinal` with heartbeats in time: with late ones they fail, the code settles by id only; `ImplementsLifecycle` (refinement of `JobLifecycle`) without database errors besides |
| `JobsLiveness` | 1 instance, 2 jobs, 1 key, 1 crash, conflicts with a heartbeat | `EveryJobSettles`; `OneActiveJobPerKeyInWindow` for a caller that enqueues one job after the other |
| `JobsKeyRace` (violation) | 2 callers, 1 key | two callers both find no row and both insert |
| `JobsSucceeded` (violation) | 1 instance | a heartbeat makes `CompleteJobAsync` conflict, and a job that succeeded becomes `Failed` |
| `SchedulesRaces` | 2 instances, 1 exclusive schedule, 2 executions; with locks that expire too early and 1 toggle, or with database errors, heartbeats and 1 shutdown, or with 1 toggle and a next time that may not be found | `ContextsKnowLockAndActivity`: what the version check still protects when the synchronisation writes without `Version++`; `TimedIffActive`: a next time while active and none while inactive, for schedules whose next time is always found; `NoOverlap` where locks outlive executions; `SettledIsFinal` |
| `SchedulesLive` | 2 instances, 2 executions, 2 lock retries, 1 crash, the schedule with `PreventOverlapping` or without | `DueIsExecuted`, `EveryRunSettles` after a crash (no toggles, no database errors and no heartbeats here: what those do to the release and to the settling is in `SchedulesRaces`, for safety) |
| `QueueStop` | 2 tasks, 1 cancellable, loop and `StopAsync` | `EachTaskInOnePlace`, `ReturnedStopProcessedAll`, `ShutdownCancels`, `EveryTaskIsProcessed`, `StopEnds` |
| `QueueShutdown` (violation) | the same, nothing throws | the null task of the race between `TryPeek` and `TryDequeue` makes `StopAsync` throw before accepted tasks are processed |
| `SchedulerTicks` | 2 overlapping callbacks, 3 seconds across a minute, an exclusive event each second that is scheduled at run time, and one that runs at start and once | `TicksAccounted`, `OneFirstTick`, `NoOverlap`, `StopEnds` |
| `CacheFills` | 2 callers, 2 keys, 1 waiting callback per key and reason | `TrackedUnlessRaced`: which races, and no others, hide an entry from `Flush`; `EveryCallReturns` although `Flush` holds the lock that callbacks need: it is always given back, and `Forget` and the callbacks get it |
| `NextTimes` | hours of 6 minutes, days of 2 hours, 3 kinds of zones, 14 rules, 5 of them malformed or empty, 136 expressions, 7 base delays, 14 failures | `NextIsFirstOccurrence`, `ActiveHasNext`, `SyncKeepsInterval` of schedules; `AcceptedEvaluates`, `DaysAreUnion`, `EvenlySpaced` of expressions; `BackoffBounded` of retries |
| `NextTimesGap` (violation) | every minute, a zone in spring | the next time is lost at the hour that does not exist |

### Bounds

* `stops`, `crashes`, `toggles` of an environment: how often it interferes;
  with one of each and two instances, a victim and a survivor exist and every
  pair of steps can be cut by a fault.
* `MaxVersion` in `PersistentJobs` and `beats` in the environments of
  `PersistentSchedules` bound the heartbeats that are saved, which would
  otherwise increment `Version` for ever. 50 is never reached where a `VIEW`
  identifies states that differ only in how far `Version` has counted. 2 in
  `JobsLiveness` lets the first attempt meet its own heartbeat. 0 in the first
  environment of `SchedulesRaces` and in `SchedulesLive` leaves heartbeats out;
  they write history rows only, and the second environment has them.
* Two instances and one row suffice for conflicts between instances: rows meet
  only in the one save of a recovery, in the order of claims, and in the query for
  a key, for which `JobsLiveness` and `JobsKeyRace` have two. The proofs
  (section 5) have no bounds.
* `Run` ids and `Task`s are used once each; `DueIsExecuted` says so.
* `MaxSignals = 1`: more signals of the timer only make the loop consume an
  empty queue.
* `Callback`s bounds the timer callbacks in progress. Two are enough for each
  race of the host, which are all between two callbacks.
* `MaxCallbacks = 1` keeps a call from beginning while a callback of the same
  kind waits; one late callback per key is what each race needs.
* `NextTimes`: the clock passes the change of the offset, with more than a day
  before and after it in the calendar of `MCNextTimes`, and the horizon of the
  search is longer than a day. The base delays lie above the cap, below it, at
  zero and below; four of them reach the cap and three exceed the scaled
  `MaxLong` within 14 failures, and the negative ones come to dates before the
  year 1. Each form of a part, malformed ones
  included, is tried at every minute and weekday.
* Deadlock is not checked: once jobs are settled, ids used up, the host stopped
  or the process dead, nothing has to happen.

`SYMMETRY` is used for instances, permits and jobs in runs without liveness. The
views leave out only the absolute value of `Version`, keeping for each context
whether it is still current.

### Fairness

* Hosts: `ExecuteAsync` polls for ever, so the claims, polls and recoveries of a
  live instance are weakly fair. `Exit` is (the generic host stops a process
  that was told to stop) and so is `Restart` (the deployment). Crashes,
  shutdowns, cancellations, toggles and enqueues have none.
* Executions: `Invoke` returns or throws, and database calls are answered. The
  job timeout is what the code does about it; a job that ignores its token can
  block its permit in the code, too.
* Time: heartbeats and locks of executions that are gone expire; those of live
  ones are not forced to.
* `TaskQueue`: the timer fires, the consumers and `StopAsync` go on, tasks end.
  `EveryTaskIsProcessed` excludes listeners that throw, because one of them
  ends the loop.
* `InMemoryCache`: factories end, and whoever waits for the lock gets it in the
  end although others take it again and again (strong fairness, as a lock of the
  runtime does not starve a waiter for ever).
* `Scheduler`: the thread pool runs callbacks that have begun, and tasks end.

## 4. Findings

1. `JobsKeyRace`. `IPersistentQueue.cs:32` promises one pending or running job
   per key; query and insert are two statements without a unique index.
2. `JobsSucceeded`. `JobStatus.cs:24` says `Failed` is for jobs that exhausted
   their attempts; a job that succeeded becomes `Failed` (or runs again) when its
   own heartbeat is saved between the read and the save of
   `CompleteJobAsync`.
3. `QueueShutdown`. `src/README.md:119` says the application does not go down
   before the queue is processed; the null task makes `StopAsync` throw.
4. `NextTimesGap`. `IPersistentScheduler.cs:104`, `EveryMinute`, says "Schedule
   to run every minute."; in a zone with daylight saving time the first minute of
   the hour that spring skips has no UTC time, the exception is caught as an
   invalid expression and the schedule loses its next time until an
   instance starts again.

What the models contain besides, without a run that isolates it:

* A job that `CompleteJobAsync` has completed, although the database reported an
  error, is retried or failed by the execution that completed it:
  `FailJobAsync` looks at the id only (`Misreported` in `PersistentJobs`, the one
  exception of `TerminalIsFinal`).
* `ReleaseLockAsync` ignores a conflict as "already released or taken by another
  instance" (`DatabaseMutex.cs:133`); it may be `SetJobActiveAsync`
  (`ReleaseThrows` after `AdminSave`), and then the lock of a finished execution
  stays until it expires, after 24 hours by default. `DueIsExecuted` needs
  `LockExpires` for it.
* An event with `Once` runs again when another callback had collected it before
  it was unscheduled, and `StopAsync` of the scheduler may return between two
  ticks of a catch-up.
* `Flush` "will clear your entire cache" (`DocsV2/docs/Caching/README.md:127`),
  but misses the entries that `TrackedUnlessRaced` excuses: one whose fill it
  overlapped, or one whose key was taken by the late callback of an earlier entry.
* From the 36th attempt on, with the default base delay, `BackoffCalculator`
  throws, so `FailJobAsync` does, and the job stays `Running` until the recovery
  finds it (`Throws` in `Retries`). A `RetryDelay` above 30 minutes is capped like
  every other delay, so that such a job is retried before its base delay is over.
* `PersistentScheduler.Cron` stores any text. A malformed expression such as `5,x` has
  no next time once an evaluation throws, although it may match before that minute
  or after it, and a range with step zero may never come to a result.
  `ActiveHasNext` is therefore about well-formed expressions.
* An active schedule without a next time can be deactivated while an instance
  starts: the synchronisation sets the next time without `Version++`, the save
  of `SetJobActiveAsync` does not write the column that it found empty, and the row
  is inactive with a next time. It is not executed while inactive, and activation
  calculates the time anew. `TimedIffActive` excuses the schedules of
  `faults.timeless`.
* An event that is scheduled at run time is in the list before
  `PreventOverlapping()` is called on it; a tick in between executes it without its
  lock, next to which a later execution takes it (`Modify` in `Scheduler`).
* A claim that was saved although the database reported an error leaves its job
  Running with nobody working on it until the recovery finds it (`ClaimLost` in
  `PersistentJobs`).
* `Cron("* * * * 1-5").Monday()` is accepted and throws when a tick evaluates it; a
  range with step zero may never return (`Treacherous` in `EventBuilder`).
* A start of any instance calculates the next time of unlocked cron schedules
  anew and so skips an occurrence that is due and not yet taken (`Sync` in
  `ScheduleTimes`).
* `WithRetries` of a schedule (`IPersistentScheduler.cs:62`) is stored and never
  read: a failed execution waits for the next time. There is nothing to model.

## 5. What is proved

Every invariant and every action property that a passing run checks, and the
refinement, is a theorem. None has a bound: the theorems hold for every set of
instances, permits, callers, jobs, schedules, events, tasks and keys, and every
number of retries, faults and ticks.

| Module | Theorem | States |
|---|---|---|
| `PersistentJobs_proofs` | `TypeCorrect` | `Spec => []TypeOK` |
| | `LockingSound` | `Spec => []NoLostUpdate` |
| | `WritesVersioned` | `Spec => EveryWriteIsVersioned` |
| | `AttemptsCorrect` | `Spec => []AttemptsBounded` |
| | `FailedCorrect` | `Spec => []FailedIsExhausted` |
| | `ClaimsExclusive` | `Spec => []OneExecutionPerAttempt` |
| | `OwnersCorrect` | `Spec => []OwnerRunsCurrentAttempt` |
| `JobLifecycle_proofs` | `PromptCorrect` | `Spec => []PromptInv`, inductive |
| | `ExclusiveCorrect` | `Spec => []ExclusiveExecution` |
| | `SettledStaysSettled` | `Spec => TerminalIsFinal` |
| | `RefinesLifecycle` | `Spec => ImplementsLifecycle` |
| | `KeysExclusive` | `OneActiveJobPerKeyInWindow`, for one client and heartbeats in time |
| `PersistentSchedules_proofs` | `SchedulesInvariant` | `Spec => []SchedulesInv`, inductive |
| | `TypeCorrect` | `Spec => []TypeOK` |
| | `VersionProtects` | `Spec => []ContextsKnowLockAndActivity` |
| | `TimesFollowActivity` | `Spec => []TimedIffActive` |
| | `OverlapPrevented` | `Spec => []NoOverlap` |
| | `SettledOnce` | `Spec => SettledIsFinal` |
| `TaskQueue_proofs` | `QueueInvariant` | `Spec => []QueueInv`, inductive |
| | `TypeCorrect` | `Spec => []TypeOK` |
| | `TasksNeverShared` | `Spec => []EachTaskInOnePlace` |
| | `StopProcessesAll` | `Spec => []ReturnedStopProcessedAll` |
| | `StopCancelsAll` | `Spec => []ShutdownCancels` |
| `Scheduler_proofs` | `SchedulerInvariant` | `Spec => []SchedulerInv`, inductive |
| | `TypeCorrect` | `Spec => []TypeOK` |
| | `NoTickLost` | `Spec => []TicksAccounted` |
| | `FirstTickOnce` | `Spec => []OneFirstTick` |
| | `OverlapPrevented` | `Spec => []NoOverlap` |
| `InMemoryCache_proofs` | `CacheCorrect` | `Spec => []CacheInv`, inductive |
| | `CacheTypeCorrect` | `Spec => []TypeOK` with the mutual exclusion of `Flush` |
| | `TrackingCorrect` | `Spec => []TrackedUnlessRaced` |
| `NextTimes_proofs` | `TimesInvariant` | `Spec => []TimesInv`, inductive |
| | `NextIsFirst` | `Spec => []NextIsFirstOccurrence` |
| | `NextIsLostInGapOnly` | `Spec => []ActiveHasNext` |
| | `SyncKeeps` | `Spec => SyncKeepsInterval` |
| | `BuilderInvariant` | `Spec => []BuilderInv`, inductive |
| | `TicksEvaluate` | `Spec => []AcceptedEvaluates` |
| | `DaysUnited` | `Spec => []DaysAreUnion` |
| | `EvenTimes` | `Spec => []EvenlySpaced` |
| | `RetriesBackOff` | `Spec => []BackoffBounded` |

### Assumptions

The assumptions are the named ones of the modules, which say what the constants
are. Beyond types they ask that the callbacks of a scheduler are finitely many
(it counts them), that an interval is a number of minutes, that the
expressions users write are made of parts as `Cron` defines them, malformed ones
included, that the fields of a calendar have at least one value, and that the
marks for no time, a search without end and an exception are not numbers. Base
delays are any longs, as a `TimeSpan` is; the maximum delay with its jitter fits into a
long, as does the present time with a tenth to spare (30 minutes and the time
since the year 1 are far below both bounds).
`KeysExclusive` assumes one client besides: with two, `JobsKeyRace` shows the
opposite.

### Arguments

The job queue. `NoLostUpdate` alone is not inductive: a save is only known to
increment `Version` if rows have their type, and a claim saved from a context
only starts a job with an attempt left if the context was loaded from a Pending
row. The invariant that is inductive is `StoreInv`, that is `TypeOK`, `NoLostUpdate`
and `ClaimsArePending`. From it, `RowSteps` shows that every step of the system
changes each stored row by one of five edits (cancel, claim, complete, retry or
fail, heartbeat) of that very row: the check of `Version` turns the edit of an
old copy into an edit of the current row. The other theorems are then about
these edits: `AttemptsBounded` and `FailedIsExhausted` are inductive together
(`AttemptsInv`), `OneExecutionPerAttempt` needs that edits never lower the
attempts and that a claim raises them (`AttemptsGrow`, `ExecSteps`), and
`OwnerRunsCurrentAttempt` needs `OneExecutionPerAttempt` besides.

Heartbeats in time. That no job runs twice depends on what recoveries and
claims know: a recovery only takes rows that were stale when it read them, and
must still be so when it saves. `PromptInv` therefore says of every context
that is up to date what is true of its rows (`ContextsTell`), of every execution
what its last read told it (`ExecutionsTell`), and that busy executions of live
instances run current attempts (`PromptExecutions`). From it each edit of a row
is a step of `JobLifecycle` on that job or leaves its bar variables alone, which
is the refinement. Trying `TerminalIsFinal` for all environments with
heartbeats in time brought up the completion that is reported as an error
(section 4); the environments of `JobsRaces` are three since.

The persistent scheduler. A save writes the changed columns only, and the
synchronisation writes `NextExecutionUtc` without `Version++`, so that contexts
that pass the check may be outdated in that one column. `StoreInv` of this module
says what is left: owner and activity are as loaded, and for schedules whose
next time is always found it is set if and only if the schedule is active (`Timed`),
in the table and in every context.
Locks and entries change hands only when expired or stale; whoever saves that from
a context that is up to date knows that they still are (`ContextsTell`). So
the execution that holds a lock and has not outlived it holds it alone
(`HoldersInv`), and the entry of a beating execution is Running (`EntriesInv`).

The in-memory queue. `PlacesInv` says where tasks are: a task that waits stands in
the queue once, one that was taken in exactly one batch, and the batch goes away
after its tasks. `PhasesInv` ties the counter that `StopAsync` waits for to the
consumptions in progress, over every way in which an exception leaves them.
`ShutdownInv` says what `StopAsync` has seen to: once it has seen the queue empty
no task accepted before it waits, and tokens disappear only after their tasks.

The in-memory scheduler. A second that the previous tick is past was put into the
ticks of some callback (`TicksBetween`: the catch-up and its tick leave out no
second), and a callback gives up a tick only after it has collected the events of
it. `ActiveCounts` makes the active count the number of callbacks inside
`RunAtAsync`; counting sets is why they must be finitely many. `LocksInv` says that
an execution that took a lock and is younger than it holds it, alone; executions
that began before `PreventOverlapping()` was called took none. `SchedulerTicks` has an
exclusive event that is scheduled at run time and another event that runs at start.

The cache. When a `Flush` ends, `_keys` is empty, so every entry
still stored must be excused; `TrackedUnlessRaced` does not tell why. `FlushFinds`
does: while the lock is held nobody adds a key, so each entry is still to be
removed, belongs to a fill that was in progress when the `Flush` began, or had
lost its key before. `TrackingKept` shows once what all steps but `AddKey`,
`FlushBegin` and `FlushEnd` have in common.

Next times. `NextExecutionUtc` changes only together with the time of its
calculation, so `TimesInv` follows from what one calculation promises
(`CronTimes`). The search ends with the first local minute that is not found
undue, whether it is due or its evaluation throws or never returns
(`LeastExists`: a set of numbers that is bounded below has a least one). A
well-formed expression is due or not at every minute, so that its search passes
over nothing, and
local times of one zone grow with the instants, but for the hour that is repeated,
where every local time is ambiguous (`LocalTimes` and the lemmas after it).

Cron expressions. `BuilderInv` keeps the weekdays apart from those that were
written. What the constructor accepted at one time is good at all times or a
list with a bad entry or a range with step zero (`EvaluatedIsGood`); without
those, and without a day appended to a range, every part of the expression stays
good (`AllGood`). `EvenTimes` needs that rests are unique (`ModUnique`) and that a
period which divides the size of a field goes on around the clock
(`AroundTheClock`), `Sizes[i]` and the divisor being any numbers.

Retries. The delay is bounded by the power, capped, with ten percent of jitter
and one tick of rounding, apart for each sign of the base delay. Of the power of two
in it only its being positive matters.
The provers know no powers and cannot be given an induction, so `PowerOfTwo`
takes it from the library: 2^k is the number of subsets of `1 .. k` (`FS_SUBSET`).

`NoLostUpdateStep`, `LoadStep` and `DisposeStep` of `DbContext_proofs` are about
contexts alone, so that other services can use them.

## 6. Only model-checked

* Liveness, which the provers do not handle: `EveryJobSettles`, `DueIsExecuted`,
  `EveryRunSettles`, `EveryTaskIsProcessed`, `EveryCallReturns`, and `StopEnds` of the
  queue and of the scheduler.
* The four findings: a counterexample needs no proof.

## 7. Not modelled

* Payloads, error texts, priorities beyond their order, scopes and service
  lookup. A failing lookup is a failing `Invoke`.
* Characters of cron expressions: parts are parsed records. Months and years do
  not pass in `ScheduleTimes`. `Scheduler` takes the minutes that an expression
  matches as a constant, `PersistentSchedules` lets the next time come at any
  moment: the calculations are checked apart from their interleavings.
* A schedule whose rule changes from one version of the program to the next,
  and a synchronisation lost to a conflict in that situation.
* Keys that several events of `PreventOverlapping` share; the documentation
  asks for unique ones.
* `DatabaseCache`: one SQL transaction per call; their isolation is the server's.
* Event dispatcher: lists filled at start-up, read by one broadcast at a time.
* The JavaScript of the repository: jQuery validation, vendored into the samples,
  and the configuration of the documentation site. Neither is Coravel.
* Mailer, command line, service registrations, demo and samples: no state of
  their own that changes concurrently.
* Garbage: tokens that stay in `_tokens`, history rows that are never deleted.

## 8. Plan

Done: the persistent queue and its refinement, the persistent scheduler, the
in-memory queue, the in-memory scheduler, the in-memory cache, cron expressions,
next times and backoff, each with its runs and with proofs of all its safety
properties.

Next, in this order:

1. Abstract specifications with refinement proofs: a lock with expiry, which
   `DatabaseMutex` and `InMemoryMutex` both implement; a queue that loses nothing,
   for `TaskQueue`; the settling of a history entry, for `PersistentSchedules`.
2. The safety half of the liveness properties: what an execution that is about to
   settle can still be prevented from, as action properties with proofs.
3. `OneActiveJobPerKeyInWindow` for several clients that use different keys.
