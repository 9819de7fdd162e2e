------------------------------- MODULE Schedd -------------------------------
(***************************************************************************)
(* The scheduler service as cmd/schedd/main.go wires it: one ticker        *)
(* goroutine (Dispatch), the executor goroutines (Execution), the worker's *)
(* heartbeat goroutine (Registry) and the goroutines serving HTTP requests *)
(* (Api), interleaved at the granularity of the critical sections of       *)
(* TaskStore, Queues, Leases and Registry.                                 *)
(***************************************************************************)
EXTENDS Api, Execution

vars == <<clock, tasks, queueVars, leaseVars, registryVars, nextFire, tk, ex, records, cl>>

Init ==
  /\ InitClock
  /\ InitStore
  /\ InitQueues
  /\ InitLeases
  /\ InitRegistry
  /\ InitDispatch
  /\ InitExecution
  /\ InitApi

TimePasses ==
  /\ Advance
  /\ UNCHANGED <<tasks, queueVars, leaseVars, registryVars, nextFire, tk, ex, records, cl>>

TickerRuns == Ticker /\ UNCHANGED <<clock, registryVars, ex, records, cl>>

ExecutorRuns(e) == ExecutorStep(e) /\ UNCHANGED <<clock, registryVars, nextFire, tk, cl>>

WorkerBeats ==
  /\ HomeHeartbeat
  /\ UNCHANGED <<clock, tasks, queueVars, leaseVars, nextFire, tk, ex, records, cl>>

RequestArrives(c) == Request(c) /\ UNCHANGED <<clock, tk, ex, records>>

HandlerRuns(c) == Handle(c) /\ UNCHANGED <<clock, tk, ex, records>>

Next ==
  \/ TimePasses
  \/ TickerRuns
  \/ \E e \in Executor : ExecutorRuns(e)
  \/ WorkerBeats
  \/ \E c \in Client : RequestArrives(c)
  \/ \E c \in Client : HandlerRuns(c)

Spec == Init /\ [][Next]_vars

(***************************************************************************)
(* Goroutines that can run do run, time passes, and a task's handler       *)
(* function returns.  No request is ever obliged to arrive.                *)
(***************************************************************************)
Fairness ==
  /\ WF_vars(TimePasses)
  /\ WF_vars(TickerRuns)
  /\ \A e \in Executor : WF_vars(ExecutorRuns(e))
  /\ WF_vars(WorkerBeats)
  /\ \A c \in Client : WF_vars(HandlerRuns(c))

FairSpec == Spec /\ Fairness

-----------------------------------------------------------------------------

\* Every variable holds values of the Go types it stands for.  In particular
\* no local "no task" value reaches a queue, no retry budget is negative, and
\* every lease in the table carries an identifier idgen has issued.
TypeOK ==
  /\ clock \in Time
  /\ tasks \in [Task -> TaskRec]
  /\ ready \in SUBSET Task
  /\ delayed \in SUBSET DelayedEntry
  /\ leaseSeq \in Nat
  /\ leases \in SUBSET Lease
  /\ byTask \in [Task -> Nat]
  /\ order \in Seq(Worker)
  /\ beat \in [Worker -> Time]
  /\ nextFire \in [Task -> Time \cup {Untracked}]
  /\ tk \in TickerLocal
  /\ ex \in [Executor -> ExecutorLocal]
  /\ records \in [Task -> [Status -> Nat]]
  /\ cl \in [Client -> ClientLocal]

(***************************************************************************)
(* Ownership.  An executor owns a task from the moment TakeReady leased it *)
(* until its result is applied, as long as the version it leased is still  *)
(* the task's version.                                                     *)
(***************************************************************************)
HoldsVersion(e) == ex[e].pc \in {"picking", "running", "check", "apply"}

Owns(e, id) ==
  /\ HoldsVersion(e)
  /\ ex[e].task = id
  /\ ex[e].version = tasks[id].version

\* Two executors never own the same task, and an owned task is Leased: the
\* version carried by a lease fences out every holder whose lease was reaped,
\* cancelled or overtaken.  Retry relies on it, since it never tests State.
ExclusiveOwnership ==
  \A e \in Executor, id \in Task :
    Owns(e, id) => /\ tasks[id].state = "leased"
                   /\ \A f \in Executor : Owns(f, id) => f = e

\* Why: a holder's version never runs ahead of the task's, an equal version
\* means the task is Leased, and no two holders of a task share a version.
VersionFence ==
  \A e \in Executor :
    HoldsVersion(e) =>
      /\ ex[e].version <= tasks[ex[e].task].version
      /\ ex[e].version = tasks[ex[e].task].version => tasks[ex[e].task].state = "leased"
      /\ \A f \in Executor \ {e} :
           HoldsVersion(f) /\ ex[f].task = ex[e].task => ex[f].version # ex[e].version

\* The lease an executor holds, wherever the table or the reaper has it, was
\* made for the task and the version that executor leased; a result that has
\* passed the check of RecordResult is for that version too.
LeaseFence ==
  /\ \A l \in leases : l.id <= leaseSeq
  /\ \A e \in Executor :
       /\ ex[e].lease <= leaseSeq
       /\ ex[e].pc \in {"running", "check", "apply"} =>
            \A l \in leases : l.id = ex[e].lease =>
              l.task = ex[e].task /\ l.version = ex[e].version
       /\ ex[e].pc = "apply" => ex[e].seen = ex[e].version

\* A task that succeeded, died or was cancelled never leaves that state: no
\* late result, expired lease, trigger, tick or cron update revives it.
TerminalIsFinal ==
  [][\A id \in Task :
       tasks[id].state \in Terminal => tasks'[id].state = tasks[id].state]_vars

(***************************************************************************)
(* Hand-over between the store and the queues.                             *)
(***************************************************************************)
\* Some goroutine has the task in hand and is about to push it.
PushPending(id) ==
  \/ tk.pc \in {"push", "pushEntry", "pushReaped"} /\ tk.cur = id
  \/ tk.pc \in {"entries", "pushEntry"} /\ id \in tk.todo
  \/ \E e \in Executor : ex[e].pc \in {"popped", "repush", "schedule"} /\ ex[e].task = id
  \/ \E c \in Client : cl[c].pc = "push" /\ cl[c].task = id

\* A Ready task is never forgotten.  State and queues change under different
\* locks, entries are popped before the state is tested, duplicates are
\* skipped and stale entries dropped, yet a task that is Ready always has an
\* entry in one of the queues or a goroutine about to push or take it.
ReadyIsCovered ==
  \A id \in Task :
    tasks[id].state = "ready" =>
      id \in ready \/ PushPending(id) \/ \E entry \in delayed : entry.task = id

\* A Leased task can still come back: a lease made for its version is in the
\* table or in the reaper's hands, or the executor that took it is about to
\* store that lease.  A Leased task with none of these is lost, for
\* ReapExpired only looks at leases.
LeasedIsCovered ==
  \A id \in Task :
    tasks[id].state = "leased" =>
      \/ \E e \in Executor : Owns(e, id) /\ ex[e].pc = "picking"
      \/ \E l \in leases \cup tk.expired : l.task = id /\ l.version = tasks[id].version

\* The lease table has no leftovers: every lease belongs to an executor that
\* will release it, and byTask never points to a lease of another task or to
\* one that is gone.  Renew, Release and ReapExpired all delete from both maps.
LeaseTableIsSound ==
  /\ \A l \in leases :
       \E e \in Executor : ex[e].lease = l.id /\ ex[e].task = l.task
  /\ \A id \in Task :
       byTask[id] # NoLease => \E l \in leases : l.id = byTask[id] /\ l.task = id

\* A lease still valid for its task is the one Current returns, so that its
\* holder's result will be accepted.
ActiveLeaseIsCurrent ==
  \A l \in leases :
    l.version = tasks[l.task].version => IsCurrent(l.task, l.id, l.version)

\* A handler between its Save and its update of the fire index.
Tracking(c, id) == cl[c].pc \in {"track", "refresh"} /\ cl[c].task = id

\* A Pending task is in the fire index, or a handler is about to put it there:
\* whatever requests cross, Tick will come upon it.  Cancel takes a task out of
\* the index, so it must not get there with a task that another request saved
\* after Cancel had read it.
PendingIsTracked ==
  \A id \in Task :
    tasks[id].state = "pending" =>
      nextFire[id] # Untracked \/ \E c \in Client : Tracking(c, id)

\* The fire time of a Pending task is neither the one in the store nor on its
\* way from there.
Diverged(id) ==
  /\ tasks[id].state = "pending"
  /\ nextFire[id] # tasks[id].nextRunAt
  /\ \A c \in Client : Tracking(c, id) => cl[c].at # tasks[id].nextRunAt

\* Only crossed requests drive store and fire index apart: a handler that writes
\* the fire time it saved although another has saved a different one since.
OnlyCrossedUpdatesDiverge ==
  [][\A id \in Task :
       Diverged(id)' /\ ~Diverged(id) =>
         \E c \in Client :
           /\ Tracking(c, id) /\ cl[c].at # tasks[id].nextRunAt
           /\ nextFire'[id] = cl[c].at]_vars

(***************************************************************************)
(* Results.                                                                *)
(***************************************************************************)
Consumed(id) == MaxRetries - tasks[id].retriesLeft

\* Every retry consumed and every final state is backed by a record: a failure
\* per consumed retry, more failures than the whole budget for a dead letter, a
\* success for the succeeded task.  RecordResult appends the record and changes
\* the task in two critical sections, with cancels and updates in between.
OutcomesBacked ==
  \A id \in Task :
    /\ records[id]["failure"] >= Consumed(id)
    /\ tasks[id].state = "dead" => records[id]["failure"] > MaxRetries
    /\ tasks[id].state = "succeeded" => records[id]["success"] > 0

\* And a dead letter is reached with the budget spent.
OutcomeIsRecorded ==
  OutcomesBacked /\ \A id \in Task : tasks[id].state = "dead" => tasks[id].retriesLeft = 0

\* Only a retry spends from the retry budget, one at a time and in the step
\* that makes a leased task Ready, and nothing ever refunds it.
RetryBudgetShrinks ==
  [][\A id \in Task :
       \/ tasks'[id].retriesLeft = tasks[id].retriesLeft
       \/ /\ tasks'[id].retriesLeft = tasks[id].retriesLeft - 1
          /\ tasks[id].state = "leased" /\ tasks'[id].state = "ready"]_vars

\* A failed task waits out its retry delay: it has no entry in the delayed
\* queue that falls due before the run time its last Retry gave it.
BackoffIsKept ==
  \A id \in Task, entry \in delayed :
    entry.task = id /\ tasks[id].state = "ready" =>
      \/ entry.at = tasks[id].nextRunAt
      \/ \E e \in Executor : ex[e].pc = "schedule" /\ ex[e].task = id

(***************************************************************************)
(* The lifecycle of module TaskLifecycle is implemented: hidden behind     *)
(* state and retry budget, every step of every goroutine is a step of that *)
(* lifecycle or leaves it alone.                                           *)
(***************************************************************************)
Lifecycle == INSTANCE TaskLifecycle
  WITH life <- [id \in Task |-> [state |-> tasks[id].state, retriesLeft |-> tasks[id].retriesLeft]]

\* Several stale copies, popped entries and late results may be in flight for
\* one task, and what the store shows of it is still one orderly life: taken
\* only when ready, retried at the price of the budget, dead with none left.
ImplementsLifecycle == Lifecycle!Spec

\* And with goroutines that run, that life goes on.
ImplementsFairLifecycle == Lifecycle!FairSpec

(***************************************************************************)
(* Progress.                                                               *)
(***************************************************************************)
\* A lease is held for a bounded window: a Leased task eventually moves on.
LeaseIsBounded ==
  \A id \in Task : tasks[id].state = "leased" ~> tasks[id].state # "leased"

\* Every registered task is eventually settled, or removed.
EveryTaskSettles ==
  \A id \in Task : tasks[id].state = "pending" ~> tasks[id].state \in Terminal \cup Absent

\* A cron task whose next fire time has come is enqueued (again).
Fired(id) == tasks[id].state \in {"ready", "dead", "canceled"}

CronFires ==
  \A id \in CronTask :
    nextFire[id] # Untracked /\ nextFire[id] <= clock ~> Fired(id)
=============================================================================
