------------------------------ MODULE Indexes ------------------------------
(***************************************************************************)
(* The secondary indexes of internal/store/tasks.go: byName, which keeps   *)
(* names unique, and byTime, which ScanDue reads.  Each method holds       *)
(* TaskStore.mu throughout; what it does to versions and retry budgets is  *)
(* in module TaskStore, and here its outcome is left open where those      *)
(* decide.  A task keeps the name it was built with.  The order of the     *)
(* identifiers under one key is not kept: ScanDue, the only reader, sorts  *)
(* what it returns by priority.                                            *)
(***************************************************************************)
EXTENDS Naturals

CONSTANTS
  Task, NoTask,
  NameOf,      \* the name each task is built with
  MaxTime      \* bound: the last instant a task may be due at

ASSUME IndexesAssumption == NoTask \notin Task /\ MaxTime \in Nat

VARIABLES
  store,      \* TaskStore.tasks: task -> [state, nextRunAt]
  byName,     \* name -> identifier of the task that holds it, or NoTask
  byTime      \* NextRunAt -> task -> how many entries it has under that key

indexVars == <<store, byName, byTime>>

Names == {NameOf[id] : id \in Task}

Instants == 0..MaxTime

\* The states of model.TaskState.
TaskState == {"pending", "ready", "leased", "succeeded", "dead", "canceled"}

NotStored == [state |-> "none", nextRunAt |-> 0]

Empty == [at \in Instants |-> [id \in Task |-> 0]]

IndexesInit ==
  /\ store = [id \in Task |-> NotStored]
  /\ byName = [n \in Names |-> NoTask]
  /\ byTime = Empty

Stored(id) == store[id].state # "none"

(***************************************************************************)
(* indexTime and reindexTime, for the copy of the task given.              *)
(***************************************************************************)
Added(index, id, copy) ==
  IF copy.state \in {"pending", "ready"}
    THEN [index EXCEPT ![copy.nextRunAt][id] = @ + 1] ELSE index

Without(index, id) ==
  [at \in Instants |-> [index[at] EXCEPT ![id] = 0]]

\* Mutant of Reindexed: the old entries stay.
ReindexedAdding(id, copy) == Added(byTime, id, copy)

Reindexed(id, copy) == Added(Without(byTime, id), id, copy)

(***************************************************************************)
(* The methods.                                                            *)
(***************************************************************************)
\* A task that is not stored comes with whatever state its copy has: a new
\* one is Pending, a snapshot's or an updated copy's may be any.
SaveNew(id, state, at) ==
  LET copy == [state |-> state, nextRunAt |-> at]
  IN  /\ ~Stored(id)
      /\ byName[NameOf[id]] \in {NoTask, id}
      /\ store' = [store EXCEPT ![id] = copy]
      /\ byName' = [byName EXCEPT ![NameOf[id]] = id]
      /\ byTime' = Added(byTime, id, copy)

SaveOver(id, at) ==
  LET copy == [store[id] EXCEPT !.nextRunAt = at]
  IN  /\ Stored(id) /\ store[id].state # "canceled"
      /\ byName[NameOf[id]] \in {NoTask, id}
      /\ store' = [store EXCEPT ![id] = copy]
      /\ byTime' = Reindexed(id, copy)
      /\ UNCHANGED byName

\* MarkReady and Transition leave the index as it is.
Transition(id, from, to) ==
  /\ store[id].state = from
  /\ store' = [store EXCEPT ![id].state = to]
  /\ UNCHANGED <<byName, byTime>>

Transitions ==
  {<<"pending", "ready">>, <<"ready", "leased">>, <<"leased", "ready">>,
   <<"leased", "succeeded">>, <<"leased", "dead">>, <<"pending", "canceled">>,
   <<"ready", "canceled">>, <<"leased", "canceled">>}

\* Mutant of SetNextRun: the index is not brought up to date.
SetNextRunOnly(id, at) ==
  /\ Stored(id)
  /\ store' = [store EXCEPT ![id].nextRunAt = at]
  /\ UNCHANGED <<byName, byTime>>

SetNextRun(id, at) ==
  LET copy == [store[id] EXCEPT !.nextRunAt = at]
  IN  /\ Stored(id)
      /\ store' = [store EXCEPT ![id] = copy]
      /\ byTime' = Reindexed(id, copy)
      /\ UNCHANGED byName

\* Retry asks for the version and the budget, never for the state.
Retry(id, at) ==
  LET copy == [state |-> "ready", nextRunAt |-> at]
  IN  /\ Stored(id)
      /\ store' = [store EXCEPT ![id] = copy]
      /\ byTime' = Reindexed(id, copy)
      /\ UNCHANGED byName

\* Mutant of Delete: the name stays taken.
DeleteKeepsName(id) ==
  /\ Stored(id)
  /\ store' = [store EXCEPT ![id] = NotStored]
  /\ byTime' = Without(byTime, id)
  /\ UNCHANGED byName

Delete(id) ==
  /\ Stored(id)
  /\ store' = [store EXCEPT ![id] = NotStored]
  /\ byName' = [byName EXCEPT ![NameOf[id]] = NoTask]
  /\ byTime' = Without(byTime, id)

Reset ==
  /\ store' = [id \in Task |-> NotStored]
  /\ byName' = [n \in Names |-> NoTask]
  /\ byTime' = Empty

IndexesNext ==
  \/ \E id \in Task, state \in TaskState, at \in Instants : SaveNew(id, state, at)
  \/ \E id \in Task, at \in Instants : SaveOver(id, at)
  \/ \E id \in Task, t \in Transitions : Transition(id, t[1], t[2])
  \/ \E id \in Task, at \in Instants : SetNextRun(id, at)
  \/ \E id \in Task, at \in Instants : Retry(id, at)
  \/ \E id \in Task : Delete(id)
  \/ Reset

IndexesSpec == IndexesInit /\ [][IndexesNext]_indexVars

-----------------------------------------------------------------------------

\* ScanDue at now: the keys under which it returns the task.
Scanned(id, now) ==
  {at \in Instants : /\ at <= now /\ byTime[at][id] > 0
                     /\ store[id].state = "pending" /\ store[id].nextRunAt <= now}

Due(now) == {id \in Task : store[id].state = "pending" /\ store[id].nextRunAt <= now}

\* ScanDue returns every Pending task whose time has come, and returns it once,
\* although it reads an index that only some methods keep up to date: entries
\* of tasks that moved on, were rescheduled or came back by a Retry or a
\* restore are either gone from it or filtered out.
ScanDueIsExact ==
  \A id \in Task, now \in Instants :
    /\ id \in Due(now) <=> Scanned(id, now) # {}
    /\ \A at, other \in Scanned(id, now) : at = other /\ byTime[at][id] = 1

\* The index does not grow: a task has at most one entry, a removed task none.
IndexIsBounded ==
  \A id \in Task, at, other \in Instants :
    byTime[at][id] > 0 =>
      /\ Stored(id)
      /\ byTime[at][id] = 1
      /\ byTime[other][id] > 0 => other = at

\* A name belongs to exactly the stored task that carries it: no two tasks of
\* one name are stored, and the name of a removed task is free again.
NamesAgree ==
  \A n \in Names :
    {id \in Task : Stored(id) /\ NameOf[id] = n} = {byName[n]} \ {NoTask}
=============================================================================
