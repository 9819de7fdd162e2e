------------------------------ MODULE Snapshot ------------------------------
(***************************************************************************)
(* Export and Import of internal/store/snapshot.go on top of the service,  *)
(* and the loss of the process: everything cmd/schedd holds is in memory,  *)
(* so a snapshot a client has kept is all that survives a restart.  Both   *)
(* handlers work while ticker, executors and the other handlers run, and   *)
(* nothing keeps them from running beside each other: a Slot is one        *)
(* Snapshot or Restore request, and their number bounds how many of them   *)
(* are in progress at once.                                                *)
(*                                                                         *)
(* sn[s].pc  "idle"     no request in progress                             *)
(*           "collect"  Export has listed the tasks (.tasks); the records  *)
(*                      of the tasks in .todo are still to be listed       *)
(*           "save"     Import has reset the store; of the snapshot it     *)
(*                      restores (.tasks, .records) .todo is still to save *)
(*           "append"   Import has saved the tasks; .records is what is    *)
(*                      still to be appended                               *)
(***************************************************************************)
EXTENDS Schedd

CONSTANTS
  Slot,         \* slots for Snapshot and Restore requests
  MaxCalls      \* bound: how often "export", "import" and "restart" may happen

ASSUME SnapshotAssumption ==
  /\ Slot # {}
  /\ MaxCalls \in [{"export", "import", "restart"} -> Nat]

VARIABLES
  sn,       \* local state of the Snapshot or Restore handler in each slot
  files,    \* the snapshots clients have received; .whole is history
  torn,     \* history: some task may have been saved for good without its records
  before,   \* history: executors that took their task before the last Reset
  calls     \* how many exports, imports and restarts there were

snapVars == <<sn, files, torn, before, calls>>

NoRecords == [id \in Task |-> [s \in Status |-> 0]]
NoTasks == [id \in Task |-> GoneTask]

IdleSnapshot == [pc |-> "idle", todo |-> {}, tasks |-> NoTasks, records |-> NoRecords, whole |-> TRUE]

SnapshotInit ==
  /\ Init
  /\ sn = [s \in Slot |-> IdleSnapshot]
  /\ files = {}
  /\ torn = FALSE
  /\ before = {}
  /\ calls = [c \in DOMAIN MaxCalls |-> 0]

Present(copies) == {id \in Task : copies[id].state \notin Absent}

Call(c) == calls[c] < MaxCalls[c] /\ calls' = [calls EXCEPT ![c] = @ + 1]

StillHolding == {e \in before : HoldsVersion(e)'}

Importing(s) == sn[s].pc \in {"save", "append"}

SlotDone(s) == sn' = [sn EXCEPT ![s] = IdleSnapshot]

\* Tasks and records may be out of step: an Import has saved tasks and not yet
\* appended their records, or never will.
OutOfStep == torn \/ \E s \in Slot : Importing(s)

(***************************************************************************)
(* Export: the task list is one critical section, the records of each      *)
(* task another.                                                           *)
(***************************************************************************)
ExportTasks(s) ==
  /\ sn[s].pc = "idle"
  /\ Call("export")
  /\ sn' = [sn EXCEPT ![s] = [@ EXCEPT !.pc = "collect", !.todo = Present(tasks),
                                 !.tasks = [id \in Task |-> IF id \in Present(tasks) THEN tasks[id]
                                                                                     ELSE GoneTask],
                                 !.whole = ~OutOfStep]]
  /\ UNCHANGED <<vars, files, torn, before>>

ExportRecords(s, id) ==
  /\ sn[s].pc = "collect" /\ id \in sn[s].todo
  /\ sn' = [sn EXCEPT ![s].todo = @ \ {id}, ![s].records[id] = records[id]]
  /\ UNCHANGED <<vars, files, torn, before, calls>>

\* Mutant of ExportWrite: the tasks are listed after the records.
ExportWriteTasksLate(s) ==
  /\ sn[s].pc = "collect" /\ sn[s].todo = {}
  /\ files' = files \cup {[tasks |-> tasks, records |-> sn[s].records, whole |-> sn[s].whole]}
  /\ SlotDone(s)
  /\ UNCHANGED <<vars, torn, before, calls>>

ExportWrite(s) ==
  /\ sn[s].pc = "collect" /\ sn[s].todo = {}
  /\ files' = files \cup {[tasks |-> sn[s].tasks, records |-> sn[s].records, whole |-> sn[s].whole]}
  /\ SlotDone(s)
  /\ UNCHANGED <<vars, torn, before, calls>>

(***************************************************************************)
(* Import: Reset, then one Save per task, then one Append per record.      *)
(* Queues, leases, fire index and old records stay as they are.            *)
(***************************************************************************)
ImportReset(s, file) ==
  /\ sn[s].pc = "idle"
  /\ Call("import")
  /\ tasks' = [id \in Task |-> IF id \in Present(tasks) THEN GoneTask ELSE tasks[id]]
  /\ sn' = [sn EXCEPT ![s] = [@ EXCEPT !.pc = IF Present(file.tasks) = {} THEN "append" ELSE "save",
                                 !.todo = Present(file.tasks),
                                 !.tasks = file.tasks, !.records = file.records]]
  /\ before' = {e \in Executor : HoldsVersion(e)}
  /\ torn' = (torn \/ ~file.whole)
  /\ UNCHANGED <<clock, queueVars, leaseVars, registryVars, nextFire, tk, ex, records, cl, files>>

ImportSave(s, id) ==
  /\ sn[s].pc = "save" /\ id \in sn[s].todo
  /\ LET copy == sn[s].tasks[id]
     IN  \/ Overwrite(id, copy.retriesLeft, copy.nextRunAt)
         \/ InsertCopy(id, copy.state, copy.retriesLeft, copy.nextRunAt)
  /\ sn' = [sn EXCEPT ![s].todo = @ \ {id},
                      ![s].pc = IF sn[s].todo = {id} THEN "append" ELSE "save"]
  /\ UNCHANGED <<clock, queueVars, leaseVars, registryVars, nextFire, tk, ex, records, cl,
                 files, torn, before, calls>>

\* Save refuses a task that was put back and is canceled, and one whose name
\* a task from elsewhere has taken since the Reset: Import returns at once.
ImportRefused(s, id) ==
  /\ sn[s].pc = "save" /\ id \in sn[s].todo
  /\ \/ tasks[id].state = "canceled"
     \/ Present(tasks) \ Present(sn[s].tasks) # {}
  /\ SlotDone(s)
  /\ torn' = TRUE
  /\ UNCHANGED <<vars, files, before, calls>>

ImportAppend(s, id, status) ==
  /\ sn[s].pc = "append" /\ sn[s].records[id][status] > 0
  /\ records' = [records EXCEPT ![id][status] = @ + 1]
  /\ sn' = [sn EXCEPT ![s].records[id][status] = @ - 1]
  /\ UNCHANGED <<clock, tasks, queueVars, leaseVars, registryVars, nextFire, tk, ex, cl,
                 files, torn, before, calls>>

\* Mutant of ImportDone: the loop may end before every record is appended.
ImportDoneEarly(s) ==
  /\ sn[s].pc = "append"
  /\ SlotDone(s)
  /\ UNCHANGED <<vars, files, torn, before, calls>>

ImportDone(s) ==
  /\ sn[s].pc = "append" /\ sn[s].records = NoRecords
  /\ SlotDone(s)
  /\ UNCHANGED <<vars, files, torn, before, calls>>

(***************************************************************************)
(* The process ends and is started again.  Identifiers of tasks and leases *)
(* are not handed out twice; the snapshots are in the clients' hands.      *)
(***************************************************************************)
Restart ==
  /\ Call("restart")
  /\ tasks' = [id \in Task |-> IF id \in Present(tasks) THEN GoneTask ELSE tasks[id]]
  /\ ready' = {} /\ delayed' = {}
  /\ leases' = {} /\ byTask' = [id \in Task |-> NoLease]
  /\ order' = <<HomeWorker>> /\ beat' = [w \in Worker |-> IF w = HomeWorker THEN clock ELSE 0]
  /\ nextFire' = [id \in Task |-> Untracked]
  /\ tk' = IdleTicker
  /\ ex' = [e \in Executor |-> IdleExecutor]
  /\ records' = NoRecords
  /\ cl' = [c \in Client |-> IdleClient]
  /\ sn' = [s \in Slot |-> IdleSnapshot]
  /\ torn' = FALSE
  /\ before' = {}
  /\ UNCHANGED <<clock, leaseSeq, files>>

SnapshotStep(s) ==
  \/ ExportTasks(s)
  \/ \E id \in sn[s].todo : ExportRecords(s, id)
  \/ ExportWrite(s)
  \/ \E file \in files : ImportReset(s, file)
  \/ \E id \in sn[s].todo : ImportSave(s, id)
  \/ \E id \in sn[s].todo : ImportRefused(s, id)
  \/ \E id \in Task, status \in Status : ImportAppend(s, id, status)
  \/ ImportDone(s)

ServiceRuns == Next /\ before' = StillHolding /\ UNCHANGED <<sn, files, torn, calls>>

SnapshotNext ==
  \/ ServiceRuns
  \/ \E s \in Slot : SnapshotStep(s)
  \/ Restart

SnapshotSpec == SnapshotInit /\ [][SnapshotNext]_<<vars, snapVars>>
-----------------------------------------------------------------------------

\* The records hold what the tasks say about themselves: a failure per retry
\* consumed and one more for a dead letter, a success for a succeeded task.
Backed(copies, history) ==
  \A id \in Present(copies) :
    /\ history[id]["failure"] >= MaxRetries - copies[id].retriesLeft
    /\ copies[id].state = "dead" => history[id]["failure"] > MaxRetries
    /\ copies[id].state = "succeeded" => history[id]["success"] > 0

\* A snapshot is consistent although Export takes it in many critical sections
\* while executors record results and Imports come and go: it lists the tasks
\* before the records, and RecordResult stores the record before it changes the
\* task.  What is whole is decided when the tasks are listed; an Import does the
\* reverse, so a list taken between its Saves and its Appends is not.
SnapshotIsBacked == \A file \in files : file.whole => Backed(file.tasks, file.records)

\* When no Import is at work, no task lacks its history: restores of whole
\* snapshots that ran to their end, into a running service or after a restart and
\* beside other restores, leave tasks and records in step again.
RestoreIsBacked == ~OutOfStep => Backed(tasks, records)

\* A task leaves a terminal state only by being removed from the store, except
\* through an executor that took the task before the last Reset: versions start
\* at 1 again with each restored copy, so the fence of versions holds only
\* between executors of the same epoch.
OnlyOldHoldersRevive ==
  [][\A id \in Task :
       tasks[id].state \in Terminal =>
         \/ tasks'[id].state \in {tasks[id].state, "gone"}
         \/ \E e \in before : ex[e].pc = "apply" /\ ex[e].task = id]_<<vars, snapVars>>
=============================================================================
