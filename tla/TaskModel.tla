----------------------------- MODULE TaskModel -----------------------------
(***************************************************************************)
(* The domain of the scheduler: task identifiers and lifecycle states      *)
(* (internal/model/task.go), the tuning parameters (internal/config), and  *)
(* the wall clock every component reads (internal/clock).  A string, a     *)
(* payload or a name is abstracted to the identity of its task; durations  *)
(* are whole units of model time.                                          *)
(***************************************************************************)
EXTENDS Integers, FiniteSets

CONSTANTS
  Task,         \* identifiers idgen hands out to registered tasks
  CronTask,     \* those registered with Trigger.Kind = "cron"
  NoTask,       \* stands for an unset task identifier in a local variable
  Priority,     \* Task -> Nat; no operation changes a task's priority
  MaxRetries,   \* MaxRetries every task is registered with
  RetryDelay,   \* cfg.RetryDelay
  TTL,          \* cfg.LeaseTTL
  CronGap,      \* distances schedule.Next may return, all strictly positive
  MaxTime,      \* bound: last instant of model time
  MaxVersion    \* bound: no unbounded source of versions acts beyond it

ASSUME ModelAssumption ==
  /\ CronTask \subseteq Task
  /\ NoTask \notin Task
  /\ Priority \in [Task -> Nat]
  /\ MaxRetries \in Nat
  /\ RetryDelay \in Nat
  /\ TTL \in Nat
  /\ CronGap \subseteq Nat \ {0}
  /\ MaxTime \in Nat
  /\ MaxVersion \in Nat

VARIABLE clock

-----------------------------------------------------------------------------

\* "none" is an identifier that has not been handed out, "gone" one whose task
\* was removed from the store; the others are the states of model.TaskState.
TaskState == {"none", "gone", "pending", "ready", "leased", "succeeded", "dead", "canceled"}

\* Identifiers for which the store answers ErrNotFound.
Absent == {"none", "gone"}

\* States Scheduler.Cancel refuses to leave.
Terminal == {"succeeded", "dead", "canceled"}

Time == Nat

TaskRec == [state : TaskState, version : Nat, retriesLeft : Nat, nextRunAt : Time]

\* The instants a cron schedule may name as the next fire time after "now".
CronNext(now) == {now + gap : gap \in CronGap}

InitClock == clock = 0

\* The passing of wall time, up to the horizon of the model.
Advance ==
  /\ clock < MaxTime
  /\ clock' = clock + 1
=============================================================================
