-------------------------------- MODULE Bulk --------------------------------
(***************************************************************************)
(* RegisterBatch of internal/api/handlers.go on top of the service: the    *)
(* tasks of a batch are saved and tracked one by one while the scheduler   *)
(* already works on them, and a task the store refuses makes the handler   *)
(* delete those it has saved.  The store refuses a task whose name another *)
(* task holds; names are abstracted, so any task may be refused.           *)
(*                                                                         *)
(* bt.pc  "idle"    no batch in progress                                   *)
(*        "save"    bt.todo holds the tasks that are not saved yet         *)
(*        "track"   bt.cur is saved, Scheduler.Track is next               *)
(*        "undo"    a task was refused: bt.saved holds what is to delete   *)
(***************************************************************************)
EXTENDS Schedd

VARIABLE bt

IdleBatch == [pc |-> "idle", now |-> 0, todo |-> {}, saved |-> {}, cur |-> NoTask, at |-> 0]

bulkVars == <<vars, bt>>

BulkInit == Init /\ bt = IdleBatch

\* The whole batch is built, with identifiers and first run times as of now,
\* before the first task is saved.
BatchBegin(batch) ==
  /\ bt = IdleBatch
  /\ batch # {}
  /\ \A id \in batch : tasks[id].state = "none"
  /\ bt' = [bt EXCEPT !.pc = "save", !.now = clock, !.todo = batch]
  /\ UNCHANGED vars

BatchSave(id) ==
  /\ bt.pc = "save" /\ id \in bt.todo
  /\ \E at \in 0..MaxTime :
       /\ at \in FirstRun(id, bt.now)
       /\ Insert(id, at)
       /\ bt' = [bt EXCEPT !.pc = "track", !.todo = @ \ {id}, !.saved = @ \cup {id},
                           !.cur = id, !.at = at]
  /\ UNCHANGED <<clock, queueVars, leaseVars, registryVars, nextFire, tk, ex, records, cl>>

BatchTrack ==
  /\ bt.pc = "track"
  /\ SetNextFire(bt.cur, bt.at)
  /\ bt' = IF bt.todo = {} THEN IdleBatch
                           ELSE [bt EXCEPT !.pc = "save", !.cur = NoTask, !.at = 0]
  /\ UNCHANGED <<clock, tasks, queueVars, leaseVars, registryVars, tk, ex, records, cl>>

BatchRefused ==
  /\ bt.pc = "save"
  /\ bt' = [IdleBatch EXCEPT !.pc = "undo", !.saved = bt.saved]
  /\ UNCHANGED vars

\* Deleting the tasks touches nothing but the store.
BatchUndo(id) ==
  /\ bt.pc = "undo" /\ id \in bt.saved
  /\ Delete(id)
  /\ bt' = [bt EXCEPT !.saved = @ \ {id}]
  /\ UNCHANGED <<clock, queueVars, leaseVars, registryVars, nextFire, tk, ex, records, cl>>

BatchFails ==
  /\ bt.pc = "undo" /\ bt.saved = {}
  /\ bt' = IdleBatch
  /\ UNCHANGED vars

BatchStep ==
  \/ \E id \in bt.todo : BatchSave(id)
  \/ BatchTrack
  \/ BatchRefused
  \/ \E id \in bt.saved : BatchUndo(id)
  \/ BatchFails

BulkNext ==
  \/ Next /\ UNCHANGED bt
  \/ \E batch \in SUBSET Task : BatchBegin(batch)
  \/ BatchStep

BulkSpec == BulkInit /\ [][BulkNext]_bulkVars

\* The fairness of the service, and the batch handler runs to its end.
BulkFairSpec ==
  /\ BulkSpec
  /\ WF_bulkVars(TimePasses /\ UNCHANGED bt)
  /\ WF_bulkVars(TickerRuns /\ UNCHANGED bt)
  /\ \A e \in Executor : WF_bulkVars(ExecutorRuns(e) /\ UNCHANGED bt)
  /\ WF_bulkVars(WorkerBeats /\ UNCHANGED bt)
  /\ \A c \in Client : WF_bulkVars(HandlerRuns(c) /\ UNCHANGED bt)
  /\ WF_bulkVars(BatchStep)

-----------------------------------------------------------------------------

\* Nothing refers to the task any more: no queue entry, no lease, and no entry
\* of the fire index that could still come due.
Forgotten(id) ==
  /\ id \notin ready
  /\ \A entry \in delayed : entry.task # id
  /\ \A l \in leases : l.task # id
  /\ byTask[id] = NoLease
  /\ nextFire[id] \notin 0..MaxTime

\* A finished task is left only by its deletion, and a deleted task does not come
\* back: a late result, a reaped lease or a queue entry that outlives the task
\* finds nothing to change.  Retry tests that the task is stored and its version,
\* never its state, so that a finished task is safe only behind its version.
NothingIsRevived ==
  [][\A id \in Task :
       tasks[id].state \in Terminal \cup {"gone"} =>
         tasks'[id].state \in {tasks[id].state, "gone"}]_tasks

\* A task that is deleted while it is queued, leased, running or about to be
\* retried is eventually forgotten everywhere: Delete leaves queues, leases and
\* fire index alone, and Tick, Assign and RecordResult each clean up when they
\* meet a task the store does not know.
DeletedIsForgotten ==
  \A id \in Task : <>[](tasks[id].state = "gone" => Forgotten(id))
=============================================================================
