----------------------------- MODULE TaskStore -----------------------------
(***************************************************************************)
(* The in-memory task repository, internal/store/tasks.go.  Every method   *)
(* holds TaskStore.mu from start to end, so each operator below is one     *)
(* critical section: its guard, and the update of the task it names.  The  *)
(* secondary indexes byName and byTime are not read by the components      *)
(* composed here; module Indexes models them.                              *)
(***************************************************************************)
EXTENDS TaskModel

VARIABLE tasks

AnyVersion == -1

InitStore ==
  tasks = [id \in Task |-> [state |-> "none", version |-> 0,
                            retriesLeft |-> MaxRetries, nextRunAt |-> 0]]

\* Mutant of Enter: the state changes and the version does not.
EnterSameVersion(id, to) == tasks' = [tasks EXCEPT ![id].state = to]

\* Every guarded state change assigns State and increments Version.
Enter(id, to) ==
  tasks' = [tasks EXCEPT ![id] = [state |-> to, version |-> @.version + 1,
                                  retriesLeft |-> @.retriesLeft,
                                  nextRunAt |-> @.nextRunAt]]

\* Save of a task the store does not hold yet.
Insert(id, at) ==
  /\ tasks[id].state = "none"
  /\ tasks' = [tasks EXCEPT ![id] = [state |-> "pending", version |-> 1,
                                     retriesLeft |-> MaxRetries, nextRunAt |-> at]]

\* Mutant of Overwrite: the caller's copy brings a state along.
OverwriteRearms(id, retries, at) ==
  /\ tasks[id].state \notin Absent \cup {"canceled"}
  /\ tasks' = [tasks EXCEPT ![id] = [state |-> "pending", version |-> @.version + 1,
                                     retriesLeft |-> retries, nextRunAt |-> at]]

\* Save of a task the store holds: the caller's copy wins over the stored
\* retry budget and run time, the stored State stays, Version moves on.
Overwrite(id, retries, at) ==
  /\ tasks[id].state \notin Absent \cup {"canceled"}
  /\ tasks' = [tasks EXCEPT ![id] = [state |-> @.state, version |-> @.version + 1,
                                     retriesLeft |-> retries, nextRunAt |-> at]]

\* Save of a copy of a task that was removed since the copy was taken: the
\* copy is stored with the state it carries, and its versions start over.
InsertCopy(id, state, retries, at) ==
  /\ tasks[id].state = "gone"
  /\ tasks' = [tasks EXCEPT ![id] = [state |-> state, version |-> 1,
                                     retriesLeft |-> retries, nextRunAt |-> at]]

MarkReady(id) ==
  /\ tasks[id].state = "pending"
  /\ Enter(id, "ready")

\* Mutant of CanTransition: the version is compared, the state is not.
CanTransitionByVersion(id, from, expected) ==
  expected >= 0 => tasks[id].version = expected

CanTransition(id, from, expected) ==
  /\ tasks[id].state = from
  /\ expected >= 0 => tasks[id].version = expected

Transition(id, from, to, expected) ==
  /\ CanTransition(id, from, expected)
  /\ Enter(id, to)

SetNextRun(id, next) ==
  /\ tasks[id].state \notin Absent
  /\ tasks' = [tasks EXCEPT ![id].nextRunAt = next]

\* Mutant of CanRetry: a stale result may consume a retry.
CanRetryAnyVersion(id, expected) ==
  /\ tasks[id].state \notin Absent
  /\ tasks[id].retriesLeft > 0

\* Retry looks at existence, version and budget, never at which State it is.
CanRetry(id, expected) ==
  /\ tasks[id].state \notin Absent
  /\ tasks[id].version = expected
  /\ tasks[id].retriesLeft > 0

Retry(id, next, expected) ==
  /\ CanRetry(id, expected)
  /\ tasks' = [tasks EXCEPT ![id] = [state |-> "ready", version |-> @.version + 1,
                                     retriesLeft |-> @.retriesLeft - 1,
                                     nextRunAt |-> next]]

\* What remains of a removed task: its identifier is not handed out again.
GoneTask == [state |-> "gone", version |-> 0, retriesLeft |-> MaxRetries, nextRunAt |-> 0]

Delete(id) ==
  /\ tasks[id].state \notin Absent
  /\ tasks' = [tasks EXCEPT ![id] = GoneTask]
=============================================================================
