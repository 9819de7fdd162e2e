# A TLA+ model of the task scheduler

This directory models the scheduler service of this repository: tasks are
registered over HTTP, become due, are queued by priority, leased to a worker,
executed, retried, dead-lettered or cancelled. The model follows the Go source
one critical section at a time; TLC checks it on small instances and TLAPS
proves its main safety properties for every instance.

## The system

Everything is in memory, in one process (`cmd/schedd/main.go`). Four kinds of
goroutine share the components: one **ticker** (`Scheduler.Tick`, then
`Manager.ReapExpired`, every 500 ms), **executors** (`Executor.RunNext`; main
starts one, the packages allow any number), the **heartbeat** of the process's
own worker, and one goroutine per **HTTP request**. Each component locks
itself; nothing locks two of them together, except that `Renew` reads the store
while it holds the lease table. So every operation that spans components is a
sequence of critical sections with other goroutines in between, and that is
where the difficult behaviour is.

| Component (source) | State | Operations | Correct when |
| --- | --- | --- | --- |
| Task store (`store/tasks.go`) | tasks, `byName`, `byTime` | Save, Get, MarkReady, Transition, SetNextRun, Retry, Delete, Reset, ScanDue | terminal states are final, the retry budget only shrinks, the indexes agree with the tasks |
| Ready queue, delayed queue (`queue`) | heaps, `present` | Push, Pop, PopDue, Remove | one entry per task, highest priority or earliest first, no Ready task is forgotten |
| Scheduler (`dispatch`) | `nextFire` | Track, RefreshCron, SetNextFire, Tick, TriggerNow, ScheduleRetry, Cancel | due tasks are enqueued, the fire index agrees with the store, removed tasks are forgotten |
| Lease manager (`lease`) | `leases`, `byTask` | Assign, Renew, Current, ByWorker, ReapExpired, Release | one owner per task, no Leased task is lost, no leftovers |
| Results (`execution`) | none | RecordResult | only the owner's result counts, every outcome is on record |
| Executor (`worker/executor.go`) | a local lease | RunNext | the lease is always released |
| Registry (`worker/registry.go`) | roster, heartbeats | Register, Heartbeat, Pick | a stale or missing worker loses no task |
| HTTP handlers (`api`) | none | RegisterTask, RegisterBatch, TriggerNow, Cancel, UpdateCron, RegisterWorker, Heartbeat, Snapshot, Restore, PurgeRecords | a request that fails half way leaves nothing behind |
| Cron (`cron`) | none | Parse, Next | Next is the least matching instant |
| Records, snapshots (`store`) | history | Append, PurgeBefore, Export, Import | every outcome has its record, in the service and in a snapshot |
| Audit, metrics, config, clock, idgen, validation | a bounded log, counters | | |

Who calls whom: the handlers call the store (register, update) and the
scheduler (trigger, cancel); Tick moves tasks from the fire index and the
delayed queue to the ready queue; Assign moves them from the ready queue to the
lease table; RecordResult looks at the lease table, writes records and the
store, and calls ScheduleRetry, which feeds the delayed queue; ReapExpired goes
from the lease table back to the ready queue; Export and Import go through the
store and the records only. `ScanDue` has no caller in the service (Tick finds due
tasks through its own `nextFire`); its index is kept by every writer of the store. `PROJECT.json` lists the hazards of these paths at
the lines where they bite.

## The modules

| Module | Models | Main correspondences |
| --- | --- | --- |
| `TaskModel` | `internal/model`, `config`, `clock` | states, `TaskRec`, the clock |
| `TaskStore` | `store/tasks.go`: states, versions, budgets | one operator per method, since each holds the mutex throughout |
| `Registry` | `worker/registry.go` | `order` and `beat`; the time compared is the caller's |
| `Queues` | `internal/queue` as its callers see it | `ready` is the key set of `present`, `delayed` a set of `[task, at]` |
| `Leases` | `lease/manager.go` | `leases`, `byTask`; identifiers are idgen's sequence numbers |
| `Dispatch` | `Scheduler.Tick`, `Manager.ReapExpired`, the ticker goroutine | `nextFire`; `tk` is the goroutine's locals |
| `Execution` | `RunNext`, `Assign`, `RecordResult`, `ScheduleRetry` | `ex[e]` is the locals of executor `e`, `records` counts per task and status |
| `Api` | the handlers, `TriggerNow`, `Cancel` | `cl[c]` is the locals of request slot `c` |
| `Schedd` | `cmd/schedd/main.go` | the composition, its fairness, the properties |
| `Bulk` | `RegisterBatch` on top of `Schedd` | `bt` is the handler's locals; adds Delete |
| `Snapshot` | `Export`, `Import`, loss and restart of the process, on top of `Schedd` | `sn[s]` is the locals of the Snapshot or Restore request in slot `s`, `files` the snapshots clients hold; `whole`, `torn` and `before` are history variables |
| `TaskLifecycle` | the abstract life of one task | implemented by `Schedd` |
| `Heaps`, `BinaryHeap` | the two queues as they are built, on container/heap | `entries`/`present`, `waiting`/`scheduled`; implements `Queues` |
| `Indexes` | `byName`, `byTime`, `ScanDue` | `byTime` counts the entries of each task under each instant |
| `Schedule` | `cron/parser.go` | parsed fields as sets, `Next` as an operator, the chain of fire times as a state machine |
| `MCSchedd`, `MCBulk`, `MCSnapshot`, `MCHeaps`, `MCIndexes`, `MCSchedule` | | instances for TLC |
| `TypeProofs` | | types; what each store operation and each step of a goroutine does, field by field |
| `FenceProofs` | | versions, leases and ownership |
| `LifecycleProofs` | | retry budgets, the refinement of `TaskLifecycle`, records |
| `LeaseProofs` | | the lease table, and what brings a Leased task back |
| `HandoverProofs` | | what brings a Ready task to an executor and a Pending one to the ticker; the retry delay |
| `IndexProofs` | | the secondary indexes |
| `BulkProofs` | | what the service keeps when tasks are deleted under it |
| `SnapshotProofs` | | types, ownership, the lease table and the history across restores and restarts |

`TaskModel`, `TaskStore`, `Registry`, `Queues` and `Leases` hold data and
critical sections; `Dispatch`, `Execution` and `Api` are kinds of goroutine over
them, each with a program counter whose values are explained at the top of the
module; `Schedd` interleaves them, `Bulk` adds the goroutine of one batch request,
and `Snapshot` those of any number of Snapshot and Restore requests. `Heaps`, `Indexes` and `Schedule` look inside one component
that the others see from outside. A definition whose comment begins "Mutant of"
is not part of the model: it is the form a plausible bug would give to the
definition it names, and putting it there makes TLC find the corresponding
property violated (the pairs are in `PROJECT.json`).

### Abstract specifications and refinements

- **`Schedd` implements `TaskLifecycle`.** The abstract module knows the state
  and the retry budget of each task and nothing of versions, leases, queues or
  the fire index: a task is taken only when Ready, comes back by expiry or at
  the price of a retry, and dies with no retry left. `Lifecycle` in `Schedd` is
  the refinement mapping; `ImplementsLifecycle` is checked with two executors
  (`Executors`), and `ImplementsFairLifecycle`, which adds that a task leaves
  every state that is not terminal, under fairness (`Progress`). UpdateCron is
  the abstract step `Amend`, which may write back an older budget.
- **`Heaps` implements `Queues`**, call by call (`ImplementsQueues`): the module
  `Schedd` is built on is what the heaps provide.

### What is abstracted

- A name, payload, handler or identifier is the identity of its task. `Priority`
  is fixed per task (no operation changes it). Durations are whole units.
- In `Queues`, entries of equal priority may be popped in any order; `Heaps`
  shows which comes first.
- The handler function is an arbitrary delay and an outcome. In the service
  `Schedule.Next` answers with any later instant of `CronGap`; what it really
  answers is in `Schedule`.
- An identifier that was removed is "gone" and not handed out again, as idgen's
  are not. Only a batch that is rolled back (`Bulk`), a Reset or a restart
  (`Snapshot`) removes a task; the branches of the other goroutines for an
  unknown task are in their modules, and these two compositions reach them.
- `Save` refuses a name that another task holds. `Indexes` has the names; in
  `Bulk` any task of a batch may be refused, in `Snapshot` Import may be refused
  when a task is stored that is not part of the snapshot.
- In `Snapshot` an Export or Import may start while others are under way, as many
  as there are slots, and any snapshot ever taken may be restored, an empty one
  included (it only resets the store). A snapshot is written once its last record
  was read. Identifiers of tasks and leases are not repeated after a restart
  (idgen mixes the time in).
- Instants in `Schedule` are minutes of UTC; the local zone is an offset,
  because Next takes years from the local time and candidates from UTC.
- `Indexes` leaves open whether a version or a budget lets a Retry through, so
  it allows more sequences of calls than the service makes.

### Which steps are merged, and why that loses nothing

Two consecutive calls are one action only when what happens between them cannot
be seen or is decided again:

- `ReapExpired`'s `Get`, comparison and `Transition`: the Transition repeats
  both tests with the same version.
- `Current` and `Append` in RecordResult: no other goroutine's decisions depend
  on the record, and Export reads it by itself.
- The handler's return and RecordResult's `Get`: the running handler may return
  at any time, so its return can be put next to the `Get`. `RunNext`'s own `Get`
  feeds the handler only, and without a task RecordResult's fails like it.
- `Pick` and storing the lease: Pick reads only the registry.
- Reading the clock and the next call: the time read may be arbitrarily old when
  it is used, and is. The registry is given times read earlier (`EnrollWorker`,
  `HeartbeatMark`, `ex[e].now`).

The reads that are acted upon in a later critical section, and are not decided
again, are separate steps: Tick's `Get` (`TickGet`) and MarkReady, the state in
TickEntry, TriggerGet, CancelGet, the copy in CronGet, the version in Finish,
the list in HeartbeatList, the task list and each record list in Export, each
Save and each Append in Import.

## What TLC checks

One task is enough for almost all properties, which speak of one task and the
goroutines around it; the interesting part is how the goroutines' steps
interleave. Two tasks are used where queues or loops hold two things.

| Run | Instance | Checks |
| --- | --- | --- |
| `Core` | 1 task, 1 executor, a worker on the roster and one that is not, 1 request slot, trigger, cancel, heartbeat, 1 retry, time 0..2 | TypeOK, ReadyIsCovered, LeasedIsCovered, LeaseTableIsSound, ActiveLeaseIsCurrent, OutcomeIsRecorded, RetryBudgetShrinks, TerminalIsFinal |
| `Cron` | a cron task, 2 request slots with update-cron and cancel, 1 retry, time 0..2 | OutcomesBacked, PendingIsTracked, TerminalIsFinal, OnlyCrossedUpdatesDiverge |
| `Executors` | 2 executors, 2 retries, leases that expire at the next instant, cancel, register-worker, time 0..2 | ExclusiveOwnership, VersionFence, LeaseFence, BackoffIsKept, ImplementsLifecycle |
| `Progress` | 2 tasks of different priority under fairness, 1 executor, 1 retry, cancel, time 0..1 | ReadyIsCovered, ImplementsFairLifecycle |
| `Bulk` | batches of up to 2 tasks, one of them a cron task, under fairness, 1 executor, 1 retry, leases that expire at the next instant, time 0..2 | NothingIsRevived, DeletedIsForgotten, EveryTaskSettles |
| `Snapshot` | 1 task with a retry, 2 slots, two exports, one import and one restart in any order and beside each other | SnapshotIsBacked, RestoreIsBacked |
| `Epochs` | a cron task with a retry, one export, one import, update-cron, cancel, time 0..1 | OnlyOldHoldersRevive |
| `Heaps` | 3 tasks, two of one priority, instants 0..2, any sequence of calls | PresentAgrees, ImplementsQueues, PopsInOrder |
| `Indexes` | 4 tasks, two of one name, instants 0..2, any sequence of calls | ScanDueIsExact, IndexIsBounded, NamesAgree |
| `Schedule` | expressions at the edges, 4 starting dates, zones -5 h, 0, +8 h, chains of 5 fire times | FieldsAreExact, ChainIsComplete |

What the properties say is written above each definition. The central ones:

- **ReadyIsCovered**: state and queues change under different locks, duplicates
  are skipped, entries are popped before the state is tested, and still a Ready
  task always has an entry or a goroutine about to push or take it.
- **LeasedIsCovered**: a Leased task is always bound to a lease of its version,
  in the table or in the reaper's hands, or is with the executor about to bind it.
- **ExclusiveOwnership**: a task's version fences out every executor that lost
  its lease. `Retry` never tests the state, so **TerminalIsFinal** rests on it.
- **BackoffIsKept**: `DelayedQueue.Push` keeps the earlier of two times, so a
  retry would come too early if an entry of an earlier attempt were left. None
  is, for a task nobody triggers: TickPopDue takes the entry before the task can
  run and fail again. With a trigger one is left and its earlier time wins, which
  is what Push's comment says; the property does not speak of that case.
- **PendingIsTracked**, **OnlyCrossedUpdatesDiverge**: store and fire index are
  written in two critical sections, and requests cross. A Pending task is in the
  index whatever crosses (UpdateCron after Cancel, Track after either). The time
  it has there may be wrong: two UpdateCron requests may save in one order and
  refresh in the other, and Tick then goes by the schedule saved first. The
  second property says that this is the only way.
- **OutcomesBacked**: RecordResult appends the record and changes the task in two
  critical sections, with cancels and updates in between; every retry that was
  spent and every final state has its records. `OutcomeIsRecorded` adds that a
  dead letter has spent its budget, which an update may break.
- **DeletedIsForgotten**: `Delete` leaves queues, leases and fire index alone,
  and yet nothing of a removed task stays there: Tick, Assign, the reaper and
  RecordResult each clean up when they meet it. Tick may write the next fire time
  of a cron task back after its removal, and ScheduleRetry an entry of the
  delayed queue; both are found and dropped later.
- **NothingIsRevived**: an executor may report a failure of a task that was
  deleted in the meantime. `Retry` tests that the task is stored and its version,
  never its state; a finished task is safe behind its version only.
- **SnapshotIsBacked**: Export reads tasks before records and RecordResult writes
  them in the other order, so a snapshot does not lack the record of a result it
  shows. Import does it the wrong way round: an Export that lists the tasks after
  its Saves and the records before its Appends, after a restart, takes finished
  tasks without their records. A snapshot is `whole` unless its task list was
  taken while an Import was at work or the store was out of step (`torn`); the
  property is about whole ones.
- **RestoreIsBacked**: when no Import is at work, the store has the records for
  every task, if every snapshot restored was whole and no Import gave up half-way.
- **OnlyOldHoldersRevive**: Reset restarts versions at 1, and an executor that
  took its task before it may hold the version a restored copy reaches later. The
  property says that nobody else revives a terminal task. The exception is
  real: an executor whose lease is for version 3 may find the restored copy
  cancelled at version 3, and its Retry makes that copy Ready.
- **ChainIsComplete**: no fire time is skipped, with two exceptions that are
  real as well: when the local zone is already in the next year while UTC is not,
  Next starts at that year; and an expression that matches no instant of the
  years searched gets an instant it does not match, eight years on.

### Bounds

`MaxTime` is the last instant; with RetryDelay and TTL of 0 or 1 it leaves room
for a lease to expire, be renewed and expire again and for a retry to become
due. `MaxVersion` stops two sources of endless versions, an assignment that
finds no worker (PickFails) and UpdateCron; everything else is bounded by the
retry budget, the clock and the task's lifecycle. A task is leased at version 3 for
the first time, so PickFails happens in `Core`, `Cron`, `Executors`, `Progress` and
`Bulk`, where `MaxVersion` is 4, with a task's first assignment; after that, and in
`Snapshot` and `Epochs`, where it is 2, an assignment waits for the heartbeat
instead. A failure that leaves a retry is reported only while that retry still
fits before `MaxTime`, so that the horizon does not strand it; one that leaves
none, and makes the task a dead letter, is always reported. `Client` bounds
requests in progress, `CronGap` the distance of fire times, `HeartbeatWindow` 0
makes a worker stale as soon as time passes.

`Executors` includes a second assignment of the same task while its first holder
is still running, the case the versions are for, and two failures, the least with
which a delayed entry could meet an older one. In `Cron` two slots suffice for
requests to cross, and two instants for them to save different times. `Bulk` has
a task removed while it is queued, leased, running, due for a retry or about to
get its next fire time. In `Snapshot` two exports and an import are enough for
an Export beside the Import of an earlier one, and one restart for a store whose
records are gone. Time stands still there, so that every due time is due at once and
no lease ever expires; nor does one in `Epochs`, where the cron task first runs at
the last instant. That the reaper, triggers and further Imports change nothing is
what the theorems of `SnapshotProofs` add. `Cron` and `Snapshot` declare their slots
symmetric; neither checks liveness, and no definition tells slots apart.

In `Heaps` three entries make a heap with two levels, where Fix
and Remove from the middle can go wrong. `Width` in `Schedule` is 8 bits, the
size at which the sum `v += step` overflows for steps TLC can enumerate; with
overflow the listed values are wrong, and FieldsAreExact exempts exactly that.
`MaxFires` ends the chain of fire times, so `Schedule` does not check for
deadlock; every other run does.

### Fairness

`FairSpec` assumes weak fairness of the passing of time, of the ticker, of each
executor, of the heartbeat goroutine, and of each handler once its request has
arrived; `BulkFairSpec` adds the batch handler. The Go scheduler runs every
goroutine that can run, no mutex is held across a blocking call, ticker,
executor and heartbeat loop for ever, and handlers do not wait for anything. It
includes that a task's handler function returns: nothing else ends its
execution, since `Timeout` is never enforced. No request is obliged to arrive.
Failing picks are finitely many (`MaxVersion`): eventually a worker is alive.

### Runs that find a disagreement

These runs state what a comment promises and TLC shows an execution of the code
that does not keep it; `PROJECT.json` has the quotes.

| Run | What happens |
| --- | --- |
| `StrandedByUpdate` | UpdateCron of a Leased task makes its lease stale: the result is refused, nothing returns the task, it is Leased for ever |
| `FiresOnce` | a cron task that succeeded never fires again |

Other limits show in what the properties assume; each restriction is needed.

- `ActiveLeaseIsCurrent`, and LeasedIsCovered with retries, need a single executor,
  as main starts: removing an old lease clears the `byTask` entry of a newer one,
  so with two executors the new holder's result looks stale, the refused holder
  releases its lease, and the task is Leased for ever.
- The fire index does not always agree with the store: two requests that cross
  are the exception OnlyCrossedUpdatesDiverge names, although UpdateCron's comment
  says that it refreshes the dispatch state.
- `RetryBudgetShrinks` needs no UpdateCron, whose Save writes back the budget of a
  copy read earlier and so may refund a retry; OutcomesBacked holds with it.
- `BackoffIsKept` needs tasks that nobody triggers by hand.
- SnapshotIsBacked and RestoreIsBacked are about whole snapshots (see above) and
  exempt an Import that ends early with an error: it leaves records out.
- A success can be on record for a task that was cancelled between RecordResult's
  Append and its Transition. `RegisterBatch` is called atomic in its comment, but
  its tasks may run before the batch is refused. `Pick` is called round-robin in
  its comment and always takes the first live worker. A restore does not track,
  queue or lease the tasks it brings back.

## What is proved

TLAPS proves what follows for every set of tasks, workers, executors, requests,
names and instants and every value of the tuning parameters, under
`ModelAssumption`, `RegistryAssumption`, `OpsAssumption`, `IndexesAssumption` and
`SnapshotAssumption` (the constants have their types) and `ExecutorAssumption`
(there are finitely many executors). The last column is what a theorem assumes
besides. `Spec` is the service, `BulkSpec` and `SnapshotSpec` the service with
batches that are rolled back and with restores and restarts.

| Theorem | States | Assumes |
| --- | --- | --- |
| `TypeProofs!TypeCorrect` | `Spec => []TypeOK` | |
| `FenceProofs!FenceIsInvariant` | `Spec => []FenceInv` | |
| `FenceProofs!HoldersAreFenced`, `LeasesAreFenced` | `Spec => []VersionFence`, `Spec => []LeaseFence` | |
| `FenceProofs!OwnershipIsExclusive` | `Spec => []ExclusiveOwnership` | |
| `FenceProofs!TerminalStatesAreFinal` | `Spec => TerminalIsFinal` | |
| `LifecycleProofs!LifecycleIsImplemented` | `Spec => ImplementsLifecycle` | |
| `LifecycleProofs!RetryBudgetOnlyShrinks` | `Spec => RetryBudgetShrinks` | `NoUpdates` |
| `LifecycleProofs!ResultsAreBacked` | `Spec => []OutcomesBacked` | |
| `LifecycleProofs!OutcomesAreRecorded` | `Spec => []OutcomeIsRecorded` | `NoUpdates` |
| `LeaseProofs!LeaseTableHasNoLeftovers` | `Spec => []LeaseTableIsSound` | |
| `LeaseProofs!ActiveLeasesAreCurrent` | `Spec => []ActiveLeaseIsCurrent` | `OneExecutor` |
| `LeaseProofs!LeasedTasksAreCovered` | `Spec => []LeasedIsCovered` | `OneExecutor`, `NoUpdates` |
| `HandoverProofs!ReadyTasksAreCovered` | `Spec => []ReadyIsCovered` | |
| `HandoverProofs!PendingTasksAreTracked` | `Spec => []PendingIsTracked` | |
| `HandoverProofs!UpdatesCrossOrAgree` | `Spec => OnlyCrossedUpdatesDiverge` | |
| `HandoverProofs!RetriesWaitTheirDelay` | `Spec => []BackoffIsKept` | `Undisturbed` |
| `IndexProofs!ScanDueMissesNothing` | `IndexesSpec => []ScanDueIsExact` | |
| `IndexProofs!IndexDoesNotGrow` | `IndexesSpec => []IndexIsBounded` | |
| `IndexProofs!NamesAreUnique` | `IndexesSpec => []NamesAgree` | |
| `BulkProofs!BulkTypeCorrect` | `BulkSpec => []TypeOK` | |
| `BulkProofs!BulkTableHasNoLeftovers` | `BulkSpec => []LeaseTableIsSound` | |
| `BulkProofs!BulkOwnershipIsExclusive` | `BulkSpec => []ExclusiveOwnership` | `NoUpdates` |
| `BulkProofs!FinishedAndDeletedStaySo` | `BulkSpec => NothingIsRevived` | `NoUpdates` |
| `BulkProofs!BulkReadyTasksAreCovered` | `BulkSpec => []ReadyIsCovered` | `NoUpdates` |
| `BulkProofs!BulkLeasedTasksAreCovered` | `BulkSpec => []LeasedIsCovered` | `OneExecutor`, `NoUpdates` |
| `SnapshotProofs!SnapshotTypeCorrect` | `SnapshotSpec => []TypeOK` | |
| `SnapshotProofs!OnlyOldHoldersCanRevive` | `SnapshotSpec => OnlyOldHoldersRevive` | |
| `SnapshotProofs!OwnershipIsExclusiveInEpoch` | `SnapshotSpec => []EpochOwnership` | |
| `SnapshotProofs!SnapshotTableHasNoLeftovers` | `SnapshotSpec => []LeaseTableIsSound` | |
| `SnapshotProofs!SnapshotsAreBacked` | `SnapshotSpec => []SnapshotIsBacked` | |
| `SnapshotProofs!RestoresAreBacked` | `SnapshotSpec => []RestoreIsBacked` | |

The additional assumptions restrict the use of the service, not its parameters:

- **`NoUpdates`**: nobody calls UpdateCron, or there are no cron tasks. UpdateCron
  writes back a budget it read earlier, so a budget can grow, and it moves the
  version of a Leased task away from its lease (`StrandedByUpdate`). In `Bulk` it
  may even put the copy of a task back that was deleted since it was read, and
  with it versions that start over.
- **`OneExecutor`**: as `cmd/schedd` starts. With two, an old lease that is
  removed takes the `byTask` entry of a newer one with it.
- **`Undisturbed`**: no TriggerNow and no cron tasks. A triggered task leaves a
  delayed entry behind, which keeps its earlier time; a cron task's next fire
  time replaces the run time Retry gave it.

The runs that check these properties satisfy them: `Core` and `Progress` have one
executor and no cron update, `Executors` no trigger and no cron task, `Bulk` no
cron update.

**Types.** TypeOK is not inductive: a push uses the local task variable, so
`TypeInv` adds that it is set wherever the program counter leads to its use, and
likewise the local worker variable of the worker requests. It holds whether tasks
are removed or not, so that `Bulk` and `Snapshot` rest on it as well.

**Fence.** ExclusiveOwnership is not inductive either. `FenceInv` adds

- `VersionFence`: a holder's version is at most the task's; if equal, the task
  is Leased; two holders of a task have different versions;
- `LeaseFence`: lease identifiers are fresh, and the lease a holder names was
  made for its task and version, so what RecordResult compares is that version;
- `CancelOK`: the task of a request that is cleaning up after Cancel is canceled,
  or was removed since;
- `Fresh`: a task that is not in the store has version 0;
- `HoldersTook`: whoever holds a task has a version greater than 0;
- `NoneGone`: `Schedd` by itself never removes a task.

`VersionsAdvance` shows that no step takes a version back and none changes state
or budget under an unchanged version. So a step of anyone else can only take the
fence's equality away, and the one step that creates a holder, Assign's
Transition, gives it a version greater than every other holder's. The result
that RecordResult applies is for the holder's own version (`LeaseFence`), hence
for a Leased task (`VersionFence`): that is why `Retry`, which tests no state,
cannot revive a terminal task. UpdateCron is covered by the theorems too: it
changes versions, not states.

**Lifecycle.** `BudgetInv` adds to `FenceInv` what RecordResult and UpdateCron
carry in local variables: the budget RecordResult read of a stored task is that
task's as long as the version it read is (`SeenOK`), and no budget, stored or
copied, exceeds MaxRetries. With it every step of every goroutine is a move of `TaskLifecycle` or
leaves states and budgets alone: a task is declared dead only with an empty
budget, although that budget was read several critical sections earlier. From
the same step lemma comes RetryBudgetShrinks, where Amend is excluded.

**Records.** OutcomesBacked speaks of stored tasks, but the record is appended
one step before the task changes and possibly for a task that is cancelled in
between. `ResultsInv` adds that a result about to be applied to the version it
was checked for has its record already, one more than the task shows so far
(`AppliedOK`), and that the budget UpdateCron is about to write back is backed as
well (`CopiesBacked`). NoUpdates is needed only for what OutcomeIsRecorded adds,
that a dead task has an empty budget (`DeadSpent`).

**Lease table.** `TableInv` states that identifiers are unique, that every lease
is named by an executor that will release it, that `byTask` points to leases of
the right task and that an executor has no lease before BindLease. Each of the
four ways a lease goes (Release, Renew of a stale one, ReapExpired, and the
replacement by a longer one) keeps it, for any number of executors. The converse,
that a lease in the table is the one byTask names (`Indexed`), is shown for a
single executor.

**Leased tasks.** LeasedIsCovered needs three facts more (`CoverInv`): the
reaper has leases in hand only in its own loop, RecordResult reads a version no
older than the one it took, and a lease about to be released is for a version
its task has left, or whose task is removed. The last one is the point: Release
never removes the lease a Leased task still depends on.

**Hand-over.** ReadyIsCovered is preserved together with FenceInv. Each kind of
goroutine has a lemma that what it takes out of a queue or makes Ready stays in
its hands until it is pushed; Cancel's removals need `CancelOK`, as they may
remove entries of cancelled tasks only.

For the fire index `FireInv` adds that only registered tasks are in it, that a
handler writes it for a registered task and that Tick gives a next fire time to
tasks that are no longer Pending. Nothing leads back to Pending, so a step can take
PendingIsTracked away only by removing an entry: Tick drops those of tasks the store
does not know, Cancel that of a task it has cancelled. The same invariant gives
OnlyCrossedUpdatesDiverge: while a task is Pending its entry is written by Track and
RefreshCron only, with the time the handler saved, and a Save that changes the time
in the store is followed by its own handler's update.

**Backoff.** DelayedQueue.Push keeps the earlier time of an entry it finds, so
BackoffIsKept rests on there being none. `PlaceOK` says that a task that is not
Ready (or terminal) is nowhere between Retry or MarkReady and Assign, and that a
Ready task is in exactly one place there: in one of the queues, in the ticker's
hand or list, or with one executor; and that wherever it waits, it waits for the
time Retry gave it. The undo of Assign when no worker is alive could put a task
in a second place; `PickOK` and `LeasesBehind` exclude it, as nobody can have a
lease for a version whose lease is not yet stored. The proof needs no bound on
the number of executors, so the property is stronger than the run shows.

**Indexes.** `IndexInv` adds to IndexIsBounded that a Pending task has exactly one
entry, under its own run time. Nothing of the kind holds of Ready tasks, which
indexTime indexes as well: Transition brings one back from Leased without an
entry. It is enough, since ScanDue returns Pending tasks only and no method makes
a task Pending again.

**Removed tasks.** The fence as it stands fails when a task is deleted: its
version falls to 0 below the one its holder took. `HoldInv` keeps what is left
of `FenceInv`: the fence among the executors whose task is stored
(`StoredFence`), with `HoldersTook` in place of the rest. The step lemmas of the
fence, the lease table, the hand-over and the leased tasks are proved from
`HoldInv` and the fact that no step brings a removed task back (`GoneStays`); in
`Schedd` both follow from `FenceInv` at once. In `BulkProofs`, `BatchFacts` says
what the batch handler does to the rest of the service: a task is saved for the
first time or deleted, and queues, leases, executors and ticker see nothing of
it (`BatchTouches`). `HoldInv` survives that, and `GoneStays` follows from it:
MarkReady and Transition refuse a task without a state they can leave, Retry a
task that is not stored, and with `NoUpdates` nobody has a copy to
save (`NoSaves`). The lease table needs none of this, only that leases and
executors are left alone.

**Epochs.** A Reset starts versions over while executors go on with what they
took (a restart ends them too). `EpochInv` keeps the fence among the executors
outside `before`, the ones that took their task since; the step lemmas of the
fence are stated for any set of executors (`FenceAmong`), so the same proofs
serve. The lease a holder names still carries the version it took, whatever
became of the task (`LeaseFence`). OnlyOldHoldersRevive follows as
TerminalIsFinal does.

**History.** The snapshot properties compare counts: a task that lost k retries
has k failures on record, a dead one more than its whole budget, a succeeded one
a success (`Vouch`). Two things stand in the way of an inductive statement. Several
executors may have appended a failure of the same task and not yet applied it:
`Awaiting` is the set of them, and only the failures beyond its cardinality have
been paid for (`Settled`); ApplyResult pays for exactly one. And Import saves
the tasks before it appends their records. The account of a task is therefore kept
per slot: `Failures(id)` and `Successes(id)` give, for each slot, the records in the
store plus those the Import in that slot has still to append, and a task is shown if
some slot vouches for it (`SomeVouch`). Sums over slots are not needed, as each
Import brings the whole history of its snapshot itself. These accounts never shrink
(`AccountsGrow`), not even by a Reset, which leaves the records alone, or by the end
of another Import; only a refused restore takes from them, and a restart, which
leaves nothing to show. A refused restore and that of a snapshot that was not
whole are remembered in `torn`. So
whoever read a task's state or budget earlier still has the records to show for it
when it is used: `HistoryInv` says so of the store, of UpdateCron's copy, of what
RecordResult read and of what Import is about to save as long as nothing is torn,
and of Export's whole lists and the whole files (`ListedShown`, `FilesShown`)
always. It holds with any number of executors, requests, Exports and Imports.

TLC checked the strengthenings above as invariants of small instances before they
were proved.

Only model-checked:

- liveness (`ImplementsFairLifecycle`, `EveryTaskSettles`, `DeletedIsForgotten`):
  fairness and ENABLED are out of the prover's reach;
- `Heaps` and `Schedule` (PresentAgrees, ImplementsQueues, PopsInOrder,
  FieldsAreExact, ChainIsComplete): they rest on RECURSIVE operators, whose
  values for every input would take induction over data.

## Not modelled, and the plan

- **PurgeRecords**, `List`'s paging: they remove or select history; a purge
  withdraws by design what OutcomeIsRecorded says.
- **SetState** and `NextCron` are called by no part of the service; a rename is
  made by no handler, although Save would accept one (and would leave the old
  name in `byName`).
- **Validation**, JSON and HTTP decoding: they reject requests before the first
  change. **Audit log and metrics**: nothing reads them to decide anything; the
  log's bound is one slice expression in one critical section.
- The vendored hash, the test harness, and orderly shutdown (nothing is
  persisted, so it loses what the restart in `Snapshot` loses).

Left to prove, without new model: LeasedIsCovered for any number of executors when
no task is retried, and that a Pending task is tracked in `Bulk` and `Snapshot`,
which needs the property to name the batch handler's own hand-over and to exempt
the tasks a restore brings back.
