# TLA+ verification of the macOS Security Audit Agent

Specifications, model-checking runs and proofs for the parts of the agent whose
correctness depends on the order in which threads, processes, transactions,
signals and crashes happen. All paths are relative to the repository root; `ar/`
is short for `native/anti_ransomware_sensor/`.

A property that holds of a small instance is checked by TLC; the ones listed under
[Proofs](#proofs) are also proved by TLAPS for every value of the constants. Where
a document or a comment promises more than the code does, a separate run shows the
behaviour that breaks the promise ([Findings](#findings)).

## 1. Inventory

The agent is a Python program (a background daemon, a GUI, a per-user notifier,
command-line tools) with a native Endpoint Security sensor and a native
containment helper. Most of its code collects system state and presents it; the
parts that keep state across events, threads and restarts are the following.

| Component | State | Operations | Interacts with | What is hard |
|---|---|---|---|---|
| Native sensor (`ar/main.c`, `ar/sensor_core.c`) | ring buffer of retained messages, `drain_scheduled`, counters, sequence metrics | `handle_message`, `drain_messages`, `write_health`, `shutdown_sensor`, `connect_sensor` | Endpoint Security callbacks, two dispatch queues, the health file | lock-free wake-up, ownership of messages during shutdown, accounting of losses |
| Durable alert store (`mac_audit_agent/alerts/resilient_store.py`) | ledger of receipts, aggregates, notification queue, audit | `ingest`, `queue_periodic_summary`, `mark_notification`, `advance_lifecycle` | SQLite | storms longer than every limit: overflow buckets, compaction, reserves |
| Alert pipeline (`alerts/resilient_pipeline.py`, `storage.py`, `monitor.py`) | emergency buffer, failure flag, one shared connection per process | `record_monitor_event`, `ingest_background_event`, fallback, recovery | monitor loop, observer threads, GUI process | transactions that belong to the connection and not to the thread; failures half way |
| Containment (`anti_ransomware/containment_orchestrator.py`, `leases.py`, `ar/containment_boundary.c`) | persisted lease, action records, custody chain; the process itself | `pause`, `resume`, `terminate`, `reconcile`; `msaa_ar_apply_exact_action` | operating system, evidence database | PID reuse, crash between signal and commit, stale lease objects |
| Containment watchdog (`ar/containment_watchdog.c`) | 256 lease slots | add, tick | boundary | deadline, slot reuse |
| Containment journal (`anti_ransomware/containment_production.py`) | journal of prepared leases, target registry | prepare, transition, reconcile after reboot | helper | stale transitions, reboot |
| Suppression (`alerts/suppression.py`) | rules with an expiry | create, revoke, match | store | expiry during a storm |
| Behaviour engine, IPC, notifier channel, quarantine, canaries (`anti_ransomware/`) | windows, replay caches, files | | sensor, service | out-of-order events, replay |
| Notification delivery (`notification_manager.py`, `alert_queue.py`, `user_notifier.py`) | cooldowns, queue | deliver, suppress | user session | delivery across processes |
| Threat definitions (`threat_definitions/manager.py`, `store.py`, `locking.py`) | staged and published releases, active and previous pointer, state document, `update.lock` | update, import, `activate`, `rollback`, `prune_releases` | sensor reload, scanner | several renames and writes per operation; crashes and refusals between them; names used again |
| Definition loading (`anti_ransomware/definition_database.py`, `prototype_yara_scanner.py`) | snapshot in use | `load`, `_reload_definitions` | active release, without the lock | three reads of a pointer that moves |
| Work scheduler (`performance/work_scheduler.py`) | priority queue, records, dedupe keys, active futures | `schedule`, `_drain`, `_complete`, `cancel`, `shutdown` | thread pool | callbacks on pool threads, cancellation against start, bounded history |
| Service watchdog (`service_watchdog.py`) | `state.json` with attempts and suppressions, request files | `run_once`, `request_service_recovery` | launchd, sensor health manager | restart loops, budgets that a crash forgets, requests that hide each other |
| Self-impact watchdog and health (`self_impact_watchdog.py`, `health/`) | verdicts | evaluate, recover | launchd | rule evaluation |
| Emergency lockdown, firewall, segmentation, licensing | various | | system commands | rollback of partial changes |
| Scanners, UI, reports, exporters | none that survives a call | | | data, not control |

`PROJECT.json` lists every component with its status, and under `hazards` every
place where a test would hardly reach what can go wrong, with the properties that
watch it.

### What makes each modelled component correct

* Sensor: every retained message has exactly one owner and is released once; a
  queued message always has a drain on its way; the counters add up; a loss is
  flagged; shutdown ends.
* Alert store: the aggregate tells the truth about the ledger; what calls for a
  notification is queued or leaves a record that it was not; the first and the
  newest body of an alert survive any storm.
* Alert pipeline: a row for the notifier never precedes its receipt; no count runs
  ahead of the ledger; the in-process lock is always given back.
* Containment: the persisted lease claims only what the process shows; nothing is
  stopped before the request is durable.
* Threat definitions: the two pointers always name a release that is there, what is
  active was accepted, and a host never loses its active release; a scanner that
  polls catches up.
* Work scheduler: the budget is kept, keys are given back, a cancelling shutdown reaches
  all work that is not over, queued work is started, shutdown ends.
* Service watchdog: restarts are bounded, suppression ends, requests are served.

## 2. Modules

| Module | Models | Configurations |
|---|---|---|
| `SensorChannel` | abstract: a bounded FIFO channel with one consumer | |
| `SensorQueue` | `ar/main.c`, `ar/sensor_core.c`; refines `SensorChannel` | `MCSensorQueue` |
| `AlertStore` | transactions of `ResilientEventStore` | `MCAlertStore` |
| `AlertPipeline` | statements between those transactions, several threads and processes | `MCAlertPipeline`, `MCAlertPipelineLive`, `MCAlertCountMatches` |
| `ContainmentLease` | coordinator, lease state machine, native boundary, operating system | `MCContainmentLease`, `MCSuspensionIsCovered` |
| `DefinitionRelease` | releases, pointers, lock and state document of the threat definitions | `MCDefinitionRelease`, `MCActivationEndsRollback` |
| `DefinitionScanner` | the scanner that polls them; composed with `DefinitionRelease` | `MCDefinitionScanner` |
| `WorkScheduler` | the scheduler and its thread pool | `MCWorkScheduler` |
| `ServiceWatchdog` | `run_once`, launchd, services, requests and time | `MCServiceWatchdog` |
| `SensorQueueProofs`, `SensorRingProofs` | proofs about `SensorQueue`: control and counters; the order of the ring, ownership and the refinement of `SensorChannel` | |
| `AlertStoreProofs`, `AlertPipelineProofs`, `ContainmentProofs`, `DefinitionProofs`, `WorkSchedulerProofs`, `ServiceWatchdogProofs` | proofs about the module in the name (`ContainmentProofs`: `ContainmentLease`, `DefinitionProofs`: `DefinitionRelease`) | |

Definitions named `Faulty...` are plausible defects of the definition they precede.
No specification uses them: replacing that definition by its faulty form must break
the property named in `PROJECT.json`, which shows that the property depends on it.

### SensorQueue

One step is one critical section of `queue_lock`, one call into libdispatch or
Endpoint Security, or one atomic operation that another thread tests. Counters that
are only reported are updated together with a neighbouring step. A message is its
`global_seq_num`; Endpoint Security may skip numbers (kernel drops) and runs the
callback one message at a time.

| Variables | Code |
|---|---|
| `items`, `head`, `count`, `rejected`, `live` | `message_queue` (`live`: `items # NULL`) |
| `drain_scheduled`, `sequence_gap_detected`, `received`, ... | the atomics of `main.c` |
| `hpc`, `hmsg`, `hdepth` | `handle_message` and its locals |
| `procQ`, `wblock`, `wpc`, `wmsg`, `wrejected`, `wmissing` | `processing_queue`, `drain_messages` and its locals |
| `mpc`, `mret`, `snap`, `report` | the block the main queue runs, `write_health`, the health file |
| `refs` | references taken with `es_retain_message` |

`write_health` appears with one field of each kind: `dropped` (read under the lock),
`received` (an atomic read after it) and `connected`. The metrics are written by the
drain outside the lock under which `write_health` reads them; on the supported
64-bit targets such a read returns the old or the new value, which the two orders of
the steps give.

### AlertStore and AlertPipeline

`AlertStore` takes each transaction as one step and keeps the decision logic of
`_ingest_transaction` in full: overflow buckets, escalation, material change,
reopening, thresholds, suppression, quota, compaction, queue admission. A detector's
report is a record of severity, other material, protection and matching rule.
`_storage_pressure` is an input with three values; the ages that
`advance_lifecycle` compares are a choice of which alerts become quiet or resolved.
`queue_periodic_summary` may come at any time after the receipt it belongs to,
because other threads and processes run between the two.

`AlertPipeline` takes the same transactions apart. `db` is the committed state,
`draft` the state inside the open transaction, `writer` the process that has it open.
`Write`, `Commit` and `Rollback` are the behaviour of one sqlite3 connection shared
by the threads of a process: a transaction belongs to the connection. One alert
identity is kept; whether an event notifies, and whether the summary interval has
passed, are free choices. Every statement may fail, and a process may crash
between any two.

### ContainmentLease

One lease, its process, and whatever else may come to run under its PID. Every
transaction, identity check, signal and wait is a step. `row` is the persisted state,
`held` the lease object of the caller: immutable, hence stale after an exception, and
reloaded after a crash. `pid` says what the PID stands for now. The signals act on
whatever that is. The coordinator has no caller in the repository outside its tests,
so any method may be called on any lease object at any time. `is_paused` and
`live_identity` are the boundary's protocol; `matches_exact` compares complete
identities and is taken to tell the lease's process from every other one. SIGSTOP
and SIGCONT sent by third parties are not modelled.

### DefinitionRelease and DefinitionScanner

One step is one rename, one atomic write of a JSON document, or one read. Every step
may raise, and a process may die at every step; the files stay and the `flock` goes.

| Variables | Code |
|---|---|
| `staged`, `releases` | `staging/<version>`, `releases/<version>` and their content |
| `active`, `previous` | `active/current.json`, `previous/current.json`: version and `manifest_sha256` |
| `rollback_active` | the field of `metadata/update_state.json` |
| `lock` | `update.lock` |
| `pc`, `call` | the operation of each process and its locals: its copy of the document, the pointer it restores |
| `vetted`, `torn` | history: contents that a reload accepted; contents left active by an operation that ended before the verdict took effect |

Contents are told apart by the number of their build, which stands for
`manifest_sha256`. Downloading, parsing, validation and signatures are verdicts: a
release is valid or goes to quarantine. `_next_version` takes the first free name of
the day and imported manifests name their own version, so that a name is used again
after a release was pruned or rejected; the model lets any free name be taken.

`DefinitionScanner` adds the observer's scanner, which has no lock: `load` reads the
active pointer for the path, again for the definitions and again for the digest, and
`_reload_definitions` keeps the old snapshot when the generation is the same.

### WorkScheduler

One step is one critical section of `_lock`, one turn of the loop of `_drain`, or one
step of a pool thread. `status`, `token`, `tasks`, `queue`, `holder`, `active` are
`ScheduledTask.status`, the cancellation tokens, `_tasks`, `_queue`,
`_running_by_dedupe` and `_active_futures`; `future` is the state of the future:
`pending` in the pool's queue, `started` once a thread has taken it, `calling` once that
thread has looked at the token (`work_scheduler.py:122`), `running` once it has entered
the callable (line 125), and `none` once `_complete` has dropped it. The test and the call
are two steps, because no lock is held between them. A callable returns, raises an
`Exception`, or raises a `BaseException` (`fatal`), which `result()` raises again and
`_complete` does not catch: the key stays taken, no drain follows (`crashed`), and the
thread of the pool that ran the callback ends and is not replaced, as in the library.
`submit` may raise because the interpreter is exiting (`refused`): status and key are set
by then. Left out: a `submit` that raises because no thread could be started, after the
item has entered the pool's queue, and a `BaseException` that leaves a callback which runs
inside the loop of `_drain`. `older` is the order of insertion into `_tasks`,
in which the history is pruned. The queue is a set: its head is a task of the highest
priority, and any of them, because `schedule` reads the clock that breaks ties before it
takes the lock;
`drains` counts calls of `_drain` that are still to come after the lock was given
back and that will not return at once because of a shutdown. A cooldown that has not passed is a choice of any task with a key.
`shutdown(cancel=False)` and the wait before the executor is closed are included; the
`timeout_seconds` of a task is not, because no code reads it.

### ServiceWatchdog

One step is the evaluation of one service, the removal of its request, the start of a
run, the replacement of `state.json`, or the end of the process in between. Time is
relative: a tick is one launchd interval, attempts have ages and a suppression has
time left, and `lag` is the time since the run read the clock, because `run_once`
reads it once and stamps every attempt with it. The attempts of a service are a set of
ages: a run makes at most one, and launchd starts no two runs in one interval. Ages that
no run can find in its window any more are forgotten. The services of the list are
distinct, as they are in the code. Plist checks, integrity checks and
`launchctl` are verdicts that may change between any two steps. Restarts by hand and
jumps of the clock are left out. `repairs` is a history of the restarts of the last
`Window - MaxLag` ticks, with the age of the run that made them and its fate: a run
measures its window from the time it read the clock, up to `MaxLag` before the restart.
An exception that `run_once` does not catch for one service (a command that times out,
lines 436-438 and 358-371 of `service_watchdog.py`) ends the run for all of them; in the
model a run is cut short at any step.

## 3. Runs

| Run | Instance | Distinct states | Shows |
|---|---|---|---|
| `sensor` | ring of 2, 3 sequence numbers | 69,663 | `TypeOK`, `MessageOwnedOnce`, `NoLostWakeup`, `AtMostOneDrainQueued`, `EventsConserved`, `LossIsFlagged`, `EveryNumberAccounted`, `ReportsMonotone`, `ImplementsChannel`, `AcceptedIsDrained`, `ShutdownTerminates`, `ProbeTerminates` |
| `alert_store` | 2 identities, 4 kinds of report, 3 receipts | 105,551 | `TypeOK`, `AggregateMatchesLedger`, `OneFirstNotification`, `NotableIsAccounted`, `ReserveLeft`, `FirstAndLatestRaw`, `ResolvedUntilReopened`, `LedgerAppendOnly` |
| `alert_pipeline` | daemon with 2 threads, GUI, 2 events | 2,554,339 | `ReceiptBeforeRow`, `CountNeverAhead`, `PendingBounded` |
| `alert_pipeline_liveness` | daemon with 2 threads, GUI, 1 event | 119,763 | `LockReleased` |
| `containment_lease` | 2 restarts | 1,522,352 | `TypeOK`, `LeaseTellsTruth`, `IntentBeforeSignal` |
| `definition_release` | 2 processes, 3 versions, 4 builds | 227,962 | `TypeOK`, `PointersResolve`, `ActiveWasAccepted`, `ActiveNeverDropped` |
| `definition_scanner` | 1 process, 2 versions, 3 builds, scanner | 481,156 | `ScannerCatchesUp` |
| `work_scheduler` | 3 tasks, 2 of them with one key, budget 2, history 1 | 516,868 | `WithinBudget`, `KeyGivenBack`, `ShutdownReachesAll`, `QueuedIsStarted`, `ShutdownCompletes` |
| `service_watchdog` | 1 service, 3 requests, 2 of them read, 2 attempts in 3 ticks | 296,136 | `RecordedRepairsBounded`, `DownIsRepaired`, `RequestIsServed` |

Every module states the types of its variables; the type invariant is part of a run
where it depends on the logic of the module, and elsewhere documents the state.

Bounds and why they are enough:

* `Capacity = 2`, `MaxSeq = 3`: the ring fills, refuses, wraps and empties, with kernel
  drops before, between and after; one slot would make `head` constant.
* `MaxActive = 1`, `RetentionLimit = 1`, `NotificationCapacity = 2`,
  `ProtectedCapacity = 1`: overflow, compaction and saturation happen within three
  receipts; the threshold is the last receipt of the run. `MaxEvents` bounds the
  ledger. The power-of-ten rule beyond 1,000 is out of reach of these instances.
* Two processes and two threads in one of them are the least for each kind of
  interference: threads on one connection, and connections on one database. Event
  identifiers are interchangeable (symmetry) in `alert_pipeline`. The notification
  queue starts empty or full of entries of other alerts. The counters need no bound:
  an event is stored once, so `count` and `pending` are bounded by `Event`.
* `MaxCrashes = 2`: a crash during the recovery from a crash.
* `MaxVersion = 3`, `MaxBuild = 4`, `Retain = 2`: an active, a previous and a third
  release to prune, and one name used a second time. The processes are
  interchangeable (symmetry). The scanner needs one process, since `update.lock`
  serialises them, and one reused name.
* `MaxConcurrent = 2`, `MaxHistory = 1`, three tasks: the third task waits for a
  completion, and a completion prunes the record of a task that was cancelled and is
  still running.
* `MaxAttempts = 2`, `Window = 3`, `Suppression = 4`, `MaxLag = 1`: the suppression
  outlasts the window as in the code, and a run may take one tick. `ReadLimit = 2` and
  three requests: of two that are read together the last one counts, and the third is
  hidden. Services share that limit and the end of a run that an exception cuts short,
  which here may come at any step, so one service is enough.

Fairness. `SensorQueue`: weak fairness of a callback, a drain and a main-queue block
that have started (threads run), strong fairness of the two blocks that end a probe,
which libdispatch starts in the order of submission although heartbeats keep the
queue busy. No fairness for events or signals. `AlertPipeline`: a call in progress
takes its next step or raises an error that must come, because `_with_retry` makes at
most six attempts and `busy_timeout` is finite. No fairness for new events, failures
or crashes. `DefinitionScanner`: the scanner's thread polls; the updaters need not do
anything. `WorkScheduler`: a drain that is due goes on, and every pool thread gets the
lock in the end although others take it again and again (strong fairness); callables
return; `shutdown` ends its wait at its deadline and goes on to close the executor; nobody
has to schedule, cancel or shut down. `ServiceWatchdog`: time passes
and launchd starts the job that is due; runs may be cut short again and again, but not
always before the same step (strong fairness of the steps). `AlertStore`,
`ContainmentLease` and `DefinitionRelease` have no liveness properties.

Only `work_scheduler` disables the deadlock check: the tasks of the instance are
finitely many, and the scheduler rests when all are over or it is shut down.
Elsewhere a sensor that has exited stutters, or some step is always possible.

### Findings

Each run below checks one statement of the repository and finds it violated;
`PROJECT.json` quotes the statement and the lines.

| Run | Statement | What the code does |
|---|---|---|
| `alert_count_matches` | one transaction appends the receipt and updates the aggregate | a commit of another thread on the shared connection splits it; the run leaves out `mark_notification`, which nothing calls yet, so that the thread of the trace is one that stores monitor state |
| `containment_orphan` | no orphaned suspension | a crash or an unverified pause leaves a stopped process in a state that `reconcile` ignores |
| `definition_rollback_flag` | an activation sets `rollback_active` to false | `_update_source` saves its older copy of the document once more and restores the flag |

Observed without a run. The first five are stated as properties of the modules, which
TLC refutes:

* `AlertStore!ProtectedStaysRaw` ("... and protected records remain raw",
  `docs/alert_pipeline/ARCHITECTURE.md:9`): the compaction tests the protection of the
  new event, not of the receipt it clears;
* `ContainmentLease!MissingBecomesExited` ("Missing processes become
  `PROCESS_EXITED`", `docs/ANTI_RANSOMWARE_CONTAINMENT_MODEL.md:9`): from
  `LEASE_EXPIRED` this transition is not allowed and raises;
* `DefinitionScanner!GenerationTellsContent` (`definition_database.py:43`, read only
  from the atomically activated database): between the three reads of `load` a release
  may become active and be taken back; its definitions stay in use under the
  generation of the old one (`definition_database.py:88`);
* `WorkScheduler!DedupeExclusive` ("Scheduler enforces concurrency, cooldown, and
  dedupe.", `quality/performance_auditor.py:42`): the key is taken when a task starts
  (`work_scheduler.py:115`), so two queued tasks with one key run together;
* `ServiceWatchdog!RepairsBounded` ("Existing restart budgets and crash-loop
  suppression still apply.", `docs/SENSOR_HEALTH_ASSURANCE.md:12`): the attempts of a
  run are stored after its last step (`service_watchdog.py:573`), so a failed audit
  record, a timeout or a crash forgets them; `RecordedRepairsBounded` is what holds.

In the modules, without a property:

* periodic summaries of any priority use the whole notification capacity, the slots
  "reserved from ordinary low-priority use" (`docs/alert_pipeline/CONFIGURATION.md:3`)
  included (`resilient_store.py:398`); `ReserveLeft` states what `ingest` keeps;
* suppression and the storage quota overwrite the disposition that exempts a threshold,
  escalation or reopened receipt from compaction (`resilient_store.py:274-290`);
* a suppressed duplicate queues a periodic summary (`resilient_pipeline.py:97`);
* `reconcile` returns a `PAUSED` lease whose PID was reused as it is
  (`containment_orchestrator.py:79`), where the document asks for a recorded failure;
* the PID may be reused between the identity check and `kill`
  (`containment_boundary.c:92-94`); `LeaseTellsTruth` shows that the second check keeps
  this from being stored as a success;
* the custody entry of a transition is written in a second transaction
  (`containment_orchestrator.py:104`) and is missing after a crash between the two;
* an activation that the reload refuses has already overwritten the previous pointer
  with the active one, so that a later rollback changes nothing (`store.py:487`);
* a snapshot whose YARA rules do not compile is installed with no compiled rules under
  the new generation (`prototype_yara_scanner.py:93-97`);
* the history bound drops the record of a task that was cancelled while it runs or is
  queued: its key is never given back and its completion starts no other task
  (`work_scheduler.py:131`), or the drain ends with `KeyError` (line 107);
* a callable may be entered after `shutdown(cancel=True)`, or after `cancel`, by a thread
  that had looked at the token before (`work_scheduler.py:122-125`); it then finds the
  token set (`ShutdownReachesAll`), as the cooperative workers of the tests expect;
* a `submit` that raises leaves its key taken and the status `running` with no future
  (`work_scheduler.py:112-117`); a callable that ends with a `BaseException` leaves its key
  taken, starts no other task and costs the pool a thread (line 137). `KeyGivenBack` and
  `QueuedIsStarted` name these cases as exceptions;
* a future that the executor cancels turns the status `cancelled` into `failed`, and
  `shutdown(cancel=False)` leaves records at `queued`;
* a request for a service that is absent or rejected is never removed and counts
  against the limit of 32 files (`service_watchdog.py:592`); several requests for one
  service restart it once per run although it is healthy.

Elsewhere: `events_dropped_total` adds rejections and the gaps the same
rejections leave; an event that is already stored takes the fallback path when the
audit of the recovery, or the summary, fails; a failed `queue_periodic_summary` leaves
its transaction open; SIGTERM to a stopped process stays pending, so that `terminate`
of a paused lease usually ends in `TERMINATE_FAILED`; slots of the containment
watchdog never become empty again.

## 4. Proofs

Every invariant and every action property that a run checks, and the refinement of
`SensorChannel`, is proved with TLAPS for every value of the constants. The runs show
the same formulas on small instances, and showed the inductive invariants below on them
before they were proved.

What is assumed of the constants: `Capacity > 0`, any `MaxSeq` (`CapacityAssumption`,
`MaxSeqAssumption`); any fingerprints, kinds of report and limits of the store, with the
ranges the code gives them (the assumptions of `AlertStore`); a finite, nonempty set of
processes, any threads, events and capacities (`PipelineAssumption`); any `MaxCrashes`
(`CrashAssumption`); any processes, versions, builds and retention counts
(`ProcessAssumption`, `VersionAssumption`, `BuildAssumption`, `RetainAssumption`); any
tasks, keys, priorities, budgets and history bounds (`LimitAssumption`); any list of
distinct services, any budget, window and suppression, and runs shorter than the window
(`WatchdogAssumption`).

| Theorem | Statement | Inductive invariant |
|---|---|---|
| `SensorQueueProofs!TypeCorrect` | `Spec => []TypeOK` | itself; `msaa_ar_queue_push` relies on `count # Capacity` being tested in the same critical section |
| `NoWakeupIsLost` | `Spec => []NoLostWakeup` | `WakeupInv`: a set flag stands for a drain that exists or is being dispatched, and queued messages imply the flag or a callback before its compare-and-swap |
| `OneDrainQueued` | `Spec => []AtMostOneDrainQueued` | `SingleDrainInv`: the flag stands for one asynchronous drain, except after the final drain of the shutdown has cleared it under that drain; then no callback can set it again |
| `EventsAreConserved` | `Spec => []EventsConserved` | itself, with `TypeOK` |
| `LossesAreFlagged` | `Spec => []LossIsFlagged` | itself, with `TypeOK` |
| `SensorRingProofs!OwnedExactlyOnce` | `Spec => []MessageOwnedOnce` | `OrderInv`: the ring holds increasing sequence numbers, all below the one of the callback and above the one of the drain, so a message is in one place only |
| `NumbersAddUp` | `Spec => EveryNumberAccounted` | `OrderInv`: the drain meets numbers in increasing order, so no difference is counted twice |
| `ReportsNeverGoBack` | `Spec => ReportsMonotone` | `ReportCovered` and `SyncWaits`: what was read for a report lies between the last report and the counters; the block of `dispatch_sync` is in one place while the main queue waits for it |
| `ChannelImplemented` | `Spec => ImplementsChannel` | `OrderInv` and the types: every step maps to a step of `SensorChannel` or leaves its variables alone |
| `AlertStoreProofs!TypeCorrect` | `Spec => []TypeOK` | with `QueueFinite`: entries and audit records refer to stored receipts |
| `AggregateIsTrue` | `Spec => []AggregateMatchesLedger` | with `CountedWhenKnown`: an alert that exists has counted a receipt and all counters of one that does not are zero, so that the first receipt starts from nothing |
| `FirstAnnouncedOnce` | `Spec => []OneFirstNotification` | `FirstUnique`: stated of all entries, delivered ones included, and an entry implies the aggregate that forbids a second one |
| `NotableNeverLost`, `ReserveIsKept`, `FirstAndLatestKept` | `Spec => []NotableIsAccounted`, `[]ReserveLeft`, `[]FirstAndLatestRaw` | themselves, with the types |
| `LedgerOnlyGrows`, `ResolvedStays` | `Spec => LedgerAppendOnly`, `ResolvedUntilReopened` | the types |
| `ReceiptPrecedesRow` | `Spec => []ReceiptBeforeRow` | `Stored` and `Transactions`: a call that has left `ingest` left it by a commit that includes its receipt, or has put it into the buffer; what a process sees of the ledger shrinks only by a rollback, which no thread survives inside a transaction |
| `CountIsCovered` | `Spec => []CountNeverAhead` | `Covered`: the count a call is about to write, not only the stored one, is covered by the receipts the call sees |
| `QueueIsBounded` | `Spec => []PendingBounded` | `Room`: entries and the processes that have found room and not used it yet fit the bound together, in the committed and in the open tables |
| `LeaseTypes` | `Spec => []TypeOK` | `WorldTypes`, `CallTypes`: its two halves |
| `LeaseIsTruthful` | `Spec => []LeaseTellsTruth` | `LeaseInv`: what the next commit is going to claim holds already (`ClaimInv`), the request is stored before the boundary acts and what it has found so far still holds (`ActionInv`), and the caller's object and the row cannot diverge in a way that would store an old claim (`ObjectInv`) |
| `IntentIsDurable` | `Spec => []IntentBeforeSignal` | `IntentInv`: what `pause` has established on its way to the signal |
| `DefinitionProofs!TypeCorrect` | `Spec => []TypeOK` | `Inv`: the types are not inductive alone, because a version indexes the releases |
| `PointersAlwaysResolve` | `Spec => []PointersResolve` | `Inv`: the lock excludes all other operations (`Mutex`); from its publication until it becomes active no pointer names the new version (`Publishing`); the pointer kept for a restoration is as good as it was (`Restoring`) |
| `ActiveAlwaysAccepted` | `Spec => []ActiveWasAccepted` | `Inv` |
| `ActiveIsNeverDropped` | `Spec => ActiveNeverDropped` | `Inv` and `DropInv`: contents are new when they are staged, so what awaits its verdict was never accepted (`NewContent`, `Pending`), and a host with a previous release has an active one (`Reversible`) |
| `BudgetIsKept` | `Spec => []WithinBudget` | `BudgetInv`: unfinished futures are active ones, and those are finitely many |
| `KeysAreGivenBack` | `Spec => []KeyGivenBack` | `KeyInv`: a task that holds a key has been scheduled, so that no later insertion of its record makes the key count again; one whose `submit` raised or that crashed stays excepted |
| `ShutdownIsSeen` | `Spec => []ShutdownReachesAll` | `ShutInv`: all work that is not over has its token set, or `shutdown` finds it among the records, still running, and sets it; no drain submits after a shutdown |
| `RestartsAreBounded` | `Spec => []RecordedRepairsBounded` | `Inv` of `ServiceWatchdogProofs`, see below |

Each inductive step has one case per action or per group of actions with the same
effect. Some of the arguments:

* Refinement of the channel. `Contents` reads the ring from `head`; push appends and pop
  takes the first element for every capacity (`NextContentsIsSeq`), which needs that
  positions modulo `Capacity` do not collide. The rest is one case per action.
* Queue bound of the pipeline. Two processes may both find room before either inserts.
  `PendingBounded` alone is not inductive; `Room` counts entries and those promises
  together. A rollback gives up the promise of its process, and a process has one at
  most, because its threads share a lock.
* Restart budget. The count of restarts is not a variable of the code, so the invariant
  ties each restart of a run that was not lost to an attempt: the start of its run is in
  `state.json` if the run was recorded and in memory while a run is under way
  (`Remembered`), starts of one service differ (`StartsDiffer`), because a run restarts
  a service once (`LoopBehind`, distinct services) and runs begin in different intervals
  (`StartsInOrder`). The restarts map one-to-one into the pruned list that `run_once`
  compares with its limit, so there are at most as many.
* Definitions. The step of one process is looked at alone (`StepOwn`), because
  `OthersIdle` shows that all others are idle.
* Containment. The second half of `ObjectInv` is needed because a call that fails after
  its commit leaves the caller with an object older than the row.

Only model-checked: liveness, because fairness and `ENABLED` are outside this prover's
reach: `AcceptedIsDrained`, `ShutdownTerminates`, `ProbeTerminates`, `LockReleased`,
`ScannerCatchesUp`, `QueuedIsStarted`, `ShutdownCompletes`, `DownIsRepaired`,
`RequestIsServed`. `DefinitionScanner` has no other property, so nothing is proved about
it. The type invariants of `AlertPipeline` and `WorkScheduler` are theorems
(`TypeCorrect` in their proof modules) although no run lists them; that of
`ServiceWatchdog` is proved as far as the budget needs it (`RunTypes`).

## 5. Not modelled

Within the modelled components: hash chains, HMACs and digests (equality of contents is
what they stand for), JSON columns, metrics, schema migration, export and validation of
events; file formats and permissions of the health file; the encoding of alerts and
reports; the meta events for floods and clock rollback and the per-source windows of the
pipeline; per-source state, receipts and quarantine contents of the definitions; the
scan queue and local rules of the scanner; plists, signatures and the audit chain of the
watchdog.

Whole components: those marked `not_modelled` in `PROJECT.json`, with the reason there.
The modules cover a small part of the repository by lines, and cannot cover most of it:
the great majority of its lines are user interface panels, collectors and parsers of
command output, rule tables, report and export formats, migrations and tests, which
compute data from data within one call and keep no state whose order of changes could
go wrong. A model of them would repeat the code. What is modelled is chosen by where
order, failure and concurrency decide correctness.

## 6. Plan

Order of work, most important behaviour first:

1. Done: sensor event path; alert store and pipeline; containment lease; releases of
   threat definitions and their scanner; work scheduler; service watchdog; proofs of
   all their invariants, action properties and of the refinement.
2. Proofs: safety lemmas that the liveness arguments rest on (which step is possible
   while something waits), `TypeOK` of `ServiceWatchdog`, and an abstract specification
   of the budget or of the pipeline with its refinement.
3. `ContainmentWatchdog`: slots, deadlines and `tick` of `ar/containment_watchdog.c`,
   composed with `ContainmentLease` so that a suspension ends by the lease or by the
   watchdog.
4. `ContainmentJournal`: `NativeLeaseJournal`, the target registry and the custody
   chain with two appenders; refinement of an abstract prepared/closed lease.
5. Meta events and source windows in `AlertPipeline`; suppression rules with creation,
   revocation and expiry in front of `AlertStore`; delivery by the notifier.
6. IPC replay window, notifier channel, alert response queue; recovery budgets of the
   health manager; behaviour windows against a reference definition.
