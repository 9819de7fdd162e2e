----------------------------- MODULE Execution -----------------------------
(***************************************************************************)
(* The executor goroutines: Executor.RunNext (internal/worker/executor.go) *)
(* calling Manager.Assign (internal/lease/manager.go) and                  *)
(* Manager.RecordResult (internal/execution/manager.go).  cmd/schedd runs  *)
(* one such goroutine; nothing in the packages limits them to one.         *)
(*                                                                         *)
(* ex[e].pc  "idle"      between two calls of RunNext                      *)
(*           "popped"    Assign has popped ex[e].task                      *)
(*           "again"     the popped task was not Ready: Assign's loop      *)
(*           "picking"   the task is Leased, no worker and no lease yet    *)
(*           "repush"    no worker was alive, ready.Push is next           *)
(*           "running"   the handler runs under ex[e].lease                *)
(*           "check"     RecordResult has read the task (ex[e].seen, .left)*)
(*           "apply"     the lease was current and the record is stored    *)
(*           "schedule"  Retry succeeded, ScheduleRetry is next            *)
(*           "release"   Release is next, whatever the outcome             *)
(***************************************************************************)
EXTENDS Leases, Queues

CONSTANT Executor

\* A process has started finitely many goroutines.
ASSUME ExecutorAssumption == IsFiniteSet(Executor)

VARIABLES
  ex,        \* local state of each executor goroutine
  records    \* RecordStore: per task, how many records of each status

ExecutorPc == {"idle", "popped", "again", "picking", "repush", "running", "check",
               "apply", "schedule", "release"}

Status == {"success", "failure"}

ExecutorLocal == [pc : ExecutorPc, now : Time, task : Task \cup {NoTask}, version : Nat,
                  lease : Nat, status : Status, seen : Nat, left : Nat]

IdleExecutor == [pc |-> "idle", now |-> 0, task |-> NoTask, version |-> 0,
                 lease |-> NoLease, status |-> "success", seen |-> 0, left |-> 0]

InitExecution ==
  /\ ex = [e \in Executor |-> IdleExecutor]
  /\ records = [id \in Task |-> [s \in Status |-> 0]]

ToIdle(e) == ex' = [ex EXCEPT ![e] = IdleExecutor]

ToRelease(e) ==
  ex' = [ex EXCEPT ![e] = [IdleExecutor EXCEPT !.pc = "release", !.task = ex[e].task,
                                               !.lease = ex[e].lease]]

(***************************************************************************)
(* Assign.  "now" is read once, when RunNext starts.                       *)
(***************************************************************************)
Pop(e) ==
  /\ ex[e].pc \in {"idle", "again"}
  /\ \E id \in ready :
       /\ PopReady(id)
       /\ ex' = [ex EXCEPT ![e] = [@ EXCEPT !.pc = "popped", !.task = id,
                                     !.now = IF ex[e].pc = "idle" THEN clock ELSE ex[e].now]]
  /\ UNCHANGED <<tasks, delayed, leaseVars, records>>

PopNothing(e) ==
  /\ ex[e].pc = "again"
  /\ ready = {}
  /\ ToIdle(e)
  /\ UNCHANGED <<tasks, queueVars, leaseVars, records>>

\* Mutant of TakeReady: the outcome of the Transition is not looked at.
TakeReadyUnchecked(e) ==
  /\ ex[e].pc = "popped"
  /\ \/ Transition(ex[e].task, "ready", "leased", AnyVersion)
     \/ /\ ~CanTransition(ex[e].task, "ready", AnyVersion)
        /\ UNCHANGED tasks
  /\ ex' = [ex EXCEPT ![e].pc = "picking", ![e].version = tasks'[ex[e].task].version]
  /\ UNCHANGED <<queueVars, leaseVars, records>>

TakeReady(e) ==
  /\ ex[e].pc = "popped"
  /\ \/ /\ Transition(ex[e].task, "ready", "leased", AnyVersion)
        /\ ex' = [ex EXCEPT ![e].pc = "picking", ![e].version = tasks'[ex[e].task].version]
     \/ /\ ~CanTransition(ex[e].task, "ready", AnyVersion)
        /\ tasks[ex[e].task].state \notin Absent
        /\ ex' = [ex EXCEPT ![e].pc = "again", ![e].task = NoTask]
        /\ UNCHANGED tasks
     \/ /\ tasks[ex[e].task].state \in Absent
        /\ ToIdle(e)
        /\ UNCHANGED tasks
  /\ UNCHANGED <<queueVars, leaseVars, records>>

\* Pick finds a live worker; the lease is stored and the handler starts.
BindLease(e) ==
  /\ ex[e].pc = "picking"
  /\ \E w \in Worker :
       /\ Pick(w, ex[e].now)
       /\ Bind(ex[e].task, w, ex[e].version, ex[e].now)
  /\ ex' = [ex EXCEPT ![e] = [@ EXCEPT !.pc = "running", !.lease = leaseSeq', !.now = 0]]
  /\ UNCHANGED <<tasks, queueVars, records>>

\* Pick finds no live worker: the result of undoing the Transition is ignored.
PickFails(e) ==
  /\ ex[e].pc = "picking"
  /\ NoneLive(ex[e].now)
  /\ tasks[ex[e].task].version < MaxVersion
  /\ \/ Transition(ex[e].task, "leased", "ready", ex[e].version)
     \/ /\ ~CanTransition(ex[e].task, "leased", ex[e].version)
        /\ UNCHANGED tasks
  /\ ex' = [ex EXCEPT ![e].pc = "repush"]
  /\ UNCHANGED <<queueVars, leaseVars, records>>

\* Mutant of Repush: the local task is cleared first and pushed afterwards.
RepushCleared(e) ==
  /\ ex[e].pc = "repush"
  /\ ToIdle(e)
  /\ PushReady(ex'[e].task)
  /\ UNCHANGED <<tasks, delayed, leaseVars, records>>

Repush(e) ==
  /\ ex[e].pc = "repush"
  /\ PushReady(ex[e].task)
  /\ ToIdle(e)
  /\ UNCHANGED <<tasks, delayed, leaseVars, records>>

(***************************************************************************)
(* RecordResult.  The handler returns with some outcome, and the task is   *)
(* read; without a task there is no record.  A failure that leaves a retry *)
(* is only reported while that retry still fits before MaxTime.            *)
(***************************************************************************)
Finish(e) ==
  /\ ex[e].pc = "running"
  /\ \/ /\ tasks[ex[e].task].state \notin Absent
        /\ \E status \in Status :
             /\ status = "failure" /\ tasks[ex[e].task].retriesLeft > 0 =>
                  clock + RetryDelay <= MaxTime
             /\ ex' = [ex EXCEPT ![e] = [@ EXCEPT !.pc = "check", !.status = status,
                                           !.now = clock,
                                           !.seen = tasks[ex[e].task].version,
                                           !.left = tasks[ex[e].task].retriesLeft]]
     \/ /\ tasks[ex[e].task].state \in Absent
        /\ ToRelease(e)
  /\ UNCHANGED <<tasks, queueVars, leaseVars, records>>

\* Current against the version read; the record is appended before the task
\* changes.  Only this goroutine sees the record in between.
CheckLease(e) ==
  /\ ex[e].pc = "check"
  /\ \/ /\ IsCurrent(ex[e].task, ex[e].lease, ex[e].seen)
        /\ records' = [records EXCEPT ![ex[e].task][ex[e].status] = @ + 1]
        /\ ex' = [ex EXCEPT ![e].pc = "apply"]
     \/ /\ ~IsCurrent(ex[e].task, ex[e].lease, ex[e].seen)
        /\ ToRelease(e)
        /\ UNCHANGED records
  /\ UNCHANGED <<tasks, queueVars, leaseVars>>

\* Mutant of ApplyFinal: a lost race returns without releasing the lease.
ApplyFinalLeaks(e, to) ==
  \/ /\ Transition(ex[e].task, "leased", to, ex[e].seen)
     /\ ToRelease(e)
  \/ /\ ~CanTransition(ex[e].task, "leased", ex[e].seen)
     /\ ToIdle(e)
     /\ UNCHANGED tasks

ApplyFinal(e, to) ==
  /\ \/ Transition(ex[e].task, "leased", to, ex[e].seen)
     \/ /\ ~CanTransition(ex[e].task, "leased", ex[e].seen)
        /\ UNCHANGED tasks
  /\ ToRelease(e)

ApplyRetry(e) ==
  \/ /\ Retry(ex[e].task, ex[e].now + RetryDelay, ex[e].seen)
     /\ ex' = [ex EXCEPT ![e].pc = "schedule"]
  \/ /\ ~CanRetry(ex[e].task, ex[e].seen)
     /\ ToRelease(e)
     /\ UNCHANGED tasks

\* Mutant of ApplyResult: off by one, the last retry is never used.
ApplyResultEarlyDead(e) ==
  /\ ex[e].pc = "apply"
  /\ \/ ex[e].status = "success" /\ ApplyFinal(e, "succeeded")
     \/ ex[e].status = "failure" /\ ex[e].left > 1 /\ ApplyRetry(e)
     \/ ex[e].status = "failure" /\ ex[e].left <= 1 /\ ApplyFinal(e, "dead")
  /\ UNCHANGED <<queueVars, leaseVars, records>>

ApplyResult(e) ==
  /\ ex[e].pc = "apply"
  /\ \/ ex[e].status = "success" /\ ApplyFinal(e, "succeeded")
     \/ ex[e].status = "failure" /\ ex[e].left > 0 /\ ApplyRetry(e)
     \/ ex[e].status = "failure" /\ ex[e].left <= 0 /\ ApplyFinal(e, "dead")
  /\ UNCHANGED <<queueVars, leaseVars, records>>

\* Mutant of ScheduleRetry: the entry is due at once.
ScheduleRetryAtOnce(e) ==
  /\ ex[e].pc = "schedule"
  /\ PushDelayed(ex[e].task, ex[e].now)
  /\ ToRelease(e)
  /\ UNCHANGED <<tasks, ready, leaseVars, records>>

ScheduleRetry(e) ==
  /\ ex[e].pc = "schedule"
  /\ PushDelayed(ex[e].task, ex[e].now + RetryDelay)
  /\ ToRelease(e)
  /\ UNCHANGED <<tasks, ready, leaseVars, records>>

\* Release by RecordResult on the paths that changed the task, by RunNext on
\* the paths that returned an error.
ReleaseLease(e) ==
  /\ ex[e].pc = "release"
  /\ Release(ex[e].lease)
  /\ ToIdle(e)
  /\ UNCHANGED <<tasks, queueVars, records>>

ExecutorStep(e) ==
  \/ Pop(e)
  \/ PopNothing(e)
  \/ TakeReady(e)
  \/ BindLease(e)
  \/ PickFails(e)
  \/ Repush(e)
  \/ Finish(e)
  \/ CheckLease(e)
  \/ ApplyResult(e)
  \/ ScheduleRetry(e)
  \/ ReleaseLease(e)
=============================================================================
