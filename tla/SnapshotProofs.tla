--------------------------- MODULE SnapshotProofs ---------------------------
(***************************************************************************)
(* Snapshots, restores and restarts while the service runs: type           *)
(* correctness, which executors can still revive a task, and that no       *)
(* snapshot and no restore loses the records a task's state rests on.      *)
(***************************************************************************)
EXTENDS Snapshot, LeaseProofs, FiniteSetTheorems

(***************************************************************************)
(* Types.                                                                  *)
(***************************************************************************)
RecordTable == [Task -> [Status -> Nat]]

SnapshotLocal == [pc : {"idle", "collect", "save", "append"}, todo : SUBSET Task,
                  tasks : [Task -> TaskRec], records : RecordTable, whole : BOOLEAN]

SnapshotFile == [tasks : [Task -> TaskRec], records : RecordTable, whole : BOOLEAN]

\* A handler works through the tasks of the snapshot it takes or restores.
SnapshotOK ==
  /\ sn \in [Slot -> SnapshotLocal]
  /\ files \subseteq SnapshotFile
  /\ torn \in BOOLEAN
  /\ before \in SUBSET Executor
  /\ \A s \in Slot : sn[s].pc \in {"collect", "save"} => sn[s].todo \subseteq Present(sn[s].tasks)

SnapTypeInv == TypeInv /\ SnapshotOK

OtherSlots(s) == \A r \in Slot \ {s} : sn'[r] = sn[r]

\* What is left of a removed task is a record of the store.
LEMMA GoneType == GoneTask \in TaskRec /\ NoTasks \in [Task -> TaskRec]
BY ModelAssumption DEF GoneTask, NoTasks, TaskRec, TaskState, Time

\* No task has a record when the process starts.
LEMMA NoRecordsType == NoRecords \in RecordTable
BY DEF NoRecords, RecordTable

\* Between two calls a handler holds nothing.
LEMMA IdleSnapshotFacts ==
  /\ IdleSnapshot \in SnapshotLocal
  /\ IdleSnapshot.pc = "idle" /\ IdleSnapshot.todo = {}
BY GoneType, NoRecordsType DEF IdleSnapshot, SnapshotLocal

\* The process starts with no handler at work, and no client has a snapshot.
LEMMA SnapTypeInit == SnapshotInit => SnapTypeInv
<1> SUFFICES ASSUME SnapshotInit PROVE SnapTypeInv
  OBVIOUS
<1>1. /\ sn = [s \in Slot |-> IdleSnapshot] /\ before = {} /\ files = {} /\ torn = FALSE
      /\ TypeInv
  BY TypeInit DEF SnapshotInit
<1>2. QED
  BY <1>1, IdleSnapshotFacts DEF SnapTypeInv, SnapshotOK


(***************************************************************************)
(* What one step of a Snapshot or Restore handler does to the variables it *)
(* updates, field by field.                                                *)
(***************************************************************************)
\* A handler that is done, or gives up, leaves its slot idle.
LEMMA SlotDoneFacts ==
  ASSUME SnapshotOK, NEW s \in Slot, SlotDone(s)
  PROVE  /\ sn' \in [Slot -> SnapshotLocal] /\ OtherSlots(s)
         /\ sn'[s].pc = "idle"
<1>1. sn'[s] = IdleSnapshot /\ OtherSlots(s) /\ sn' \in [Slot -> SnapshotLocal]
  BY IdleSnapshotFacts DEF SlotDone, SnapshotOK, OtherSlots
<1>2. QED
  BY <1>1, IdleSnapshotFacts

\* Export has listed the stored tasks and is about to list their records.
LEMMA ExportTasksFacts ==
  ASSUME TypeInv, SnapshotOK, NEW s \in Slot, ExportTasks(s)
  PROVE  /\ sn' \in [Slot -> SnapshotLocal] /\ OtherSlots(s)
         /\ sn[s].pc = "idle" /\ sn'[s].pc = "collect"
         /\ sn'[s].todo = Present(tasks) /\ sn'[s].whole = ~OutOfStep
         /\ \A id \in Task :
              sn'[s].tasks[id] = IF id \in Present(tasks) THEN tasks[id] ELSE GoneTask
<1> DEFINE listed == [id \in Task |-> IF id \in Present(tasks) THEN tasks[id] ELSE GoneTask]
           todo == Present(tasks)
           w == ~OutOfStep
           l == [sn[s] EXCEPT !.pc = "collect", !.todo = todo, !.tasks = listed, !.whole = w]
<1>1. listed \in [Task -> TaskRec] /\ todo \in SUBSET Task /\ w \in BOOLEAN
  BY GoneType DEF TypeInv, StoreOK, Present, OutOfStep, SnapshotOK
<1>2. sn[s].pc = "idle" /\ sn' = [sn EXCEPT ![s] = l] /\ sn[s] \in SnapshotLocal
  BY DEF ExportTasks, SnapshotOK
<1> HIDE DEF listed, todo, w
<1>3. /\ l.pc = "collect" /\ l.todo = todo /\ l.tasks = listed /\ l.whole = w
      /\ l \in SnapshotLocal
  BY <1>1, <1>2 DEF SnapshotLocal
<1> HIDE DEF l
<1>4. sn'[s] = l /\ sn' \in [Slot -> SnapshotLocal] /\ OtherSlots(s)
  BY <1>2, <1>3 DEF SnapshotOK, OtherSlots
<1>5. QED
  BY <1>2, <1>3, <1>4 DEF listed, todo, w

\* Export has listed the records of one more task.
LEMMA ExportRecordsFacts ==
  ASSUME RecordsOK, SnapshotOK, NEW s \in Slot, NEW id \in sn[s].todo, ExportRecords(s, id)
  PROVE  /\ sn' \in [Slot -> SnapshotLocal] /\ OtherSlots(s)
         /\ sn[s].pc = "collect" /\ sn'[s].pc = "collect" /\ id \in Task
         /\ sn'[s].todo = sn[s].todo \ {id} /\ sn'[s].tasks = sn[s].tasks
         /\ sn'[s].whole = sn[s].whole
         /\ sn'[s].records = [sn[s].records EXCEPT ![id] = records[id]]
<1> DEFINE r == records[id]
           l == [sn[s] EXCEPT !.todo = sn[s].todo \ {id}, !.records[id] = r]
<1>1. id \in Task /\ r \in [Status -> Nat] /\ sn[s] \in SnapshotLocal
  BY DEF SnapshotOK, SnapshotLocal, RecordsOK
<1>2. sn[s].pc = "collect" /\ sn' = [sn EXCEPT ![s] = l]
  BY <1>1 DEF ExportRecords, SnapshotOK
<1> HIDE DEF r
<1>3. /\ l.pc = "collect" /\ l.todo = sn[s].todo \ {id} /\ l.tasks = sn[s].tasks
      /\ l.whole = sn[s].whole /\ l.records = [sn[s].records EXCEPT ![id] = r]
      /\ l \in SnapshotLocal
  BY <1>1, <1>2 DEF SnapshotLocal, RecordTable
<1> HIDE DEF l
<1>4. sn'[s] = l /\ sn' \in [Slot -> SnapshotLocal] /\ OtherSlots(s)
  BY <1>2, <1>3 DEF SnapshotOK, OtherSlots
<1>5. QED
  BY <1>1, <1>2, <1>3, <1>4 DEF r

\* Export is done: a client has one more snapshot.
LEMMA ExportWriteFacts ==
  ASSUME SnapshotOK, NEW s \in Slot, ExportWrite(s)
  PROVE  /\ sn' \in [Slot -> SnapshotLocal] /\ OtherSlots(s)
         /\ sn[s].pc = "collect" /\ sn[s].todo = {} /\ sn'[s].pc = "idle"
         /\ files' \subseteq SnapshotFile
         /\ \A file \in files' : file \notin files =>
              /\ file.tasks = sn[s].tasks /\ file.records = sn[s].records
              /\ file.whole = sn[s].whole
<1> DEFINE new == [tasks |-> sn[s].tasks, records |-> sn[s].records, whole |-> sn[s].whole]
<1>1. sn[s] \in SnapshotLocal /\ SlotDone(s) /\ files' = files \cup {new}
  BY DEF SnapshotOK, ExportWrite
<1>2. new \in SnapshotFile
  BY <1>1 DEF SnapshotLocal, SnapshotFile
<1>3. /\ new.tasks = sn[s].tasks /\ new.records = sn[s].records /\ new.whole = sn[s].whole
  OBVIOUS
<1>4. sn' \in [Slot -> SnapshotLocal] /\ OtherSlots(s) /\ sn'[s].pc = "idle"
  BY <1>1, SlotDoneFacts
<1>5. sn[s].pc = "collect" /\ sn[s].todo = {}
  BY DEF ExportWrite
<1> HIDE DEF new
<1>6. files' \subseteq SnapshotFile
  BY <1>1, <1>2 DEF SnapshotOK
<1>7. ASSUME NEW file \in files', file \notin files
      PROVE  /\ file.tasks = sn[s].tasks /\ file.records = sn[s].records
             /\ file.whole = sn[s].whole
  BY <1>1, <1>3, <1>7
<1>8. QED
  BY <1>4, <1>5, <1>6, <1>7

\* Import has emptied the store and has the tasks of the snapshot to save.
LEMMA ImportResetFacts ==
  ASSUME SnapshotOK, NEW s \in Slot, NEW file \in files, ImportReset(s, file)
  PROVE  /\ sn' \in [Slot -> SnapshotLocal] /\ OtherSlots(s)
         /\ sn[s].pc = "idle" /\ sn'[s].pc \in {"save", "append"}
         /\ sn'[s].todo = Present(sn'[s].tasks)
         /\ sn'[s].tasks = file.tasks /\ sn'[s].records = file.records
<1> DEFINE todo == Present(file.tasks)
           pc == IF Present(file.tasks) = {} THEN "append" ELSE "save"
           l == [sn[s] EXCEPT !.pc = pc, !.todo = todo, !.tasks = file.tasks,
                              !.records = file.records]
<1>1. /\ todo \in SUBSET Task /\ pc \in {"save", "append"} /\ file \in SnapshotFile
      /\ sn[s] \in SnapshotLocal /\ todo = Present(file.tasks)
  BY DEF Present, SnapshotOK
<1>2. sn[s].pc = "idle" /\ sn' = [sn EXCEPT ![s] = l]
  BY DEF ImportReset
<1> HIDE DEF todo, pc
<1>3. /\ l.pc = pc /\ l.todo = todo /\ l.tasks = file.tasks /\ l.records = file.records
      /\ l \in SnapshotLocal
  BY <1>1 DEF SnapshotLocal, SnapshotFile
<1> HIDE DEF l
<1>4. sn'[s] = l /\ sn' \in [Slot -> SnapshotLocal] /\ OtherSlots(s)
  BY <1>2, <1>3 DEF SnapshotOK, OtherSlots
<1>5. QED
  BY <1>1, <1>2, <1>3, <1>4

\* Import has saved one more task; after the last it has the records to append.
LEMMA ImportSaveFacts ==
  ASSUME SnapshotOK, NEW s \in Slot, NEW id \in sn[s].todo, ImportSave(s, id)
  PROVE  /\ sn' \in [Slot -> SnapshotLocal] /\ OtherSlots(s)
         /\ sn[s].pc = "save" /\ sn'[s].pc \in {"save", "append"} /\ id \in Task
         /\ sn[s].tasks[id] \in TaskRec /\ sn[s].tasks[id].state \notin Absent
         /\ sn'[s].todo \subseteq sn[s].todo
         /\ sn'[s].tasks = sn[s].tasks /\ sn'[s].records = sn[s].records
<1> DEFINE rest == sn[s].todo \ {id}
           pc == IF sn[s].todo = {id} THEN "append" ELSE "save"
           l == [sn[s] EXCEPT !.todo = rest, !.pc = pc]
<1>1. /\ rest \in SUBSET Task /\ pc \in {"save", "append"} /\ sn[s] \in SnapshotLocal
      /\ rest \subseteq sn[s].todo
  BY DEF SnapshotOK, SnapshotLocal
<1>2. sn[s].pc = "save" /\ sn' = [sn EXCEPT ![s] = l]
  BY DEF ImportSave, SnapshotOK
<1>3. id \in Task /\ sn[s].tasks[id] \in TaskRec /\ sn[s].tasks[id].state \notin Absent
  BY <1>1, <1>2 DEF SnapshotOK, SnapshotLocal, Present
<1> HIDE DEF rest, pc
<1>4. /\ l.pc = pc /\ l.todo = rest /\ l.tasks = sn[s].tasks /\ l.records = sn[s].records
      /\ l \in SnapshotLocal
  BY <1>1 DEF SnapshotLocal
<1> HIDE DEF l
<1>5. sn'[s] = l /\ sn' \in [Slot -> SnapshotLocal] /\ OtherSlots(s)
  BY <1>2, <1>4 DEF SnapshotOK, OtherSlots
<1>6. QED
  BY <1>1, <1>2, <1>3, <1>4, <1>5

\* Import has moved one record from its list into the store.
LEMMA ImportAppendFacts ==
  ASSUME RecordsOK, SnapshotOK, NEW s \in Slot, NEW id \in Task, NEW u \in Status,
         ImportAppend(s, id, u)
  PROVE  /\ sn' \in [Slot -> SnapshotLocal] /\ OtherSlots(s) /\ RecordsOK'
         /\ sn[s].pc = "append" /\ sn'[s].pc = "append"
         /\ records'[id][u] = records[id][u] + 1
         /\ sn'[s].records[id][u] = sn[s].records[id][u] - 1
         /\ \A t \in Task, v \in Status :
              <<t, v>> # <<id, u>> => /\ records'[t][v] = records[t][v]
                                      /\ sn'[s].records[t][v] = sn[s].records[t][v]
<1> DEFINE r == [sn[s].records EXCEPT ![id][u] = @ - 1]
           l == [sn[s] EXCEPT !.records = r]
<1>1. /\ sn[s].pc = "append" /\ sn[s].records[id][u] > 0
      /\ records' = [records EXCEPT ![id][u] = @ + 1]
      /\ sn' = [sn EXCEPT ![s].records[id][u] = @ - 1]
  BY DEF ImportAppend
<1>2. sn[s] \in SnapshotLocal /\ sn[s].records \in RecordTable
  BY DEF SnapshotOK, SnapshotLocal
<1>3. sn' = [sn EXCEPT ![s] = l]
  BY <1>1, <1>2 DEF SnapshotLocal, SnapshotOK
<1>4. r \in RecordTable
  BY <1>1, <1>2 DEF RecordTable
<1>5. /\ r[id][u] = sn[s].records[id][u] - 1
      /\ \A t \in Task, v \in Status : <<t, v>> # <<id, u>> => r[t][v] = sn[s].records[t][v]
  BY <1>2 DEF RecordTable
<1> HIDE DEF r
<1>6. l.pc = "append" /\ l.records = r /\ l \in SnapshotLocal
  BY <1>1, <1>2, <1>4 DEF SnapshotLocal
<1> HIDE DEF l
<1>7. sn'[s] = l /\ sn' \in [Slot -> SnapshotLocal] /\ OtherSlots(s)
  BY <1>3, <1>6 DEF SnapshotOK, OtherSlots
<1>8. /\ RecordsOK' /\ records'[id][u] = records[id][u] + 1
      /\ \A t \in Task, v \in Status : <<t, v>> # <<id, u>> => records'[t][v] = records[t][v]
  BY <1>1 DEF RecordsOK
<1>9. QED
  BY <1>1, <1>5, <1>6, <1>7, <1>8

(***************************************************************************)
(* Every step preserves the types.                                         *)
(***************************************************************************)
\* An identifier without a task has its whole retry budget to give.
AbsentIsFull == \A id \in Task : tasks[id].state \in Absent => tasks[id].retriesLeft = MaxRetries

\* Reset and the end of the process empty the store.
Emptied == tasks' = [id \in Task |-> IF id \in Present(tasks) THEN GoneTask ELSE tasks[id]]

\* What was in an emptied store is gone, without version or spent budget.
LEMMA EmptiedFacts ==
  ASSUME StoreOK, Fresh, AbsentIsFull, Emptied
  PROVE  /\ StoreOK' /\ Fresh' /\ AbsentIsFull'
         /\ \A id \in Task : /\ tasks'[id].state \in Absent
                             /\ tasks[id].state \notin Absent => tasks'[id].state = "gone"
<1>1. /\ GoneTask \in TaskRec /\ GoneTask.state = "gone" /\ GoneTask.version = 0
      /\ GoneTask.retriesLeft = MaxRetries /\ "gone" \in Absent
  BY GoneType DEF GoneTask, Absent
<1>2. \A id \in Task : tasks'[id] = IF tasks[id].state \notin Absent THEN GoneTask ELSE tasks[id]
  BY DEF Emptied, Present
<1>3. StoreOK'
  BY <1>1 DEF Emptied, StoreOK
<1>4. QED
  BY <1>1, <1>2, <1>3 DEF Fresh, AbsentIsFull

\* A restarted process has its queues, its lease table and all local state empty.
LEMMA RestartFacts ==
  ASSUME TypeInv, Fresh, AbsentIsFull, Restart
  PROVE  /\ TypeInv' /\ Emptied
         /\ \A e \in Executor : /\ ex'[e].pc = "idle" /\ ex'[e].lease = NoLease
         /\ \A c \in Client : cl'[c].pc = "idle"
<1>0. /\ Emptied /\ ready' = {} /\ delayed' = {} /\ leases' = {}
      /\ byTask' = [id \in Task |-> NoLease]
      /\ order' = <<HomeWorker>>
      /\ beat' = [w \in Worker |-> IF w = HomeWorker THEN clock ELSE 0]
      /\ nextFire' = [id \in Task |-> Untracked] /\ tk' = IdleTicker
      /\ ex' = [e \in Executor |-> IdleExecutor] /\ records' = NoRecords
      /\ cl' = [c \in Client |-> IdleClient] /\ UNCHANGED <<clock, leaseSeq>>
  BY DEF Restart, Emptied
<1>1. StoreOK'
  BY <1>0, EmptiedFacts DEF TypeInv
<1>2. QueuesOK' /\ LeasesOK' /\ FireIndexOK' /\ RecordsOK' /\ clock' \in Time
  BY <1>0, NoRecordsType DEF TypeInv, QueuesOK, LeasesOK, FireIndexOK, RecordsOK, RecordTable, NoLease
<1>3. RosterOK'
  <2>1. beat' \in [Worker -> Time]
    BY <1>0 DEF TypeInv, Time
  <2>2. order' \in Seq(Worker)
    BY <1>0, RegistryAssumption
  <2>3. QED
    BY <2>1, <2>2 DEF RosterOK
<1>4. TickerOK'
  <2>1. IdleTicker \in TickerLocal /\ IdleTicker.pc = "expired"
    BY DEF IdleTicker, TickerLocal, TickerPc, Time
  <2>2. QED
    BY <1>0, <2>1 DEF TickerOK
<1>5. /\ \A e \in Executor : ex'[e].pc = "idle" /\ ex'[e].lease = NoLease
      /\ ExecutorsOK'
  <2>1. IdleExecutor \in ExecutorLocal /\ IdleExecutor.pc = "idle" /\ IdleExecutor.lease = NoLease
    BY DEF IdleExecutor, ExecutorLocal, ExecutorPc, Time, Status, NoLease
  <2>2. QED
    BY <1>0, <2>1 DEF ExecutorsOK
<1>6. ClientsOK' /\ \A c \in Client : cl'[c].pc = "idle"
  <2>1. IdleClient \in ClientLocal /\ IdleClient.pc = "idle"
    BY DEF IdleClient, ClientLocal, ClientPc, TaskState, Time
  <2>2. QED
    BY <1>0, <2>1 DEF ClientsOK, WorkerPc
<1>7. QED
  BY <1>0, <1>1, <1>2, <1>3, <1>4, <1>5, <1>6 DEF TypeInv

\* The parts of the type invariant a step of a snapshot handler leaves alone.
LEMMA HandlerStepType ==
  ASSUME TypeInv, StoreOK', RecordsOK',
         UNCHANGED <<clock, queueVars, leaseVars, registryVars, nextFire, tk, ex, cl>>
  PROVE  TypeInv'
BY DEF TypeInv, QueuesOK, LeasesOK, RosterOK, FireIndexOK, TickerOK, ExecutorsOK, ClientsOK,
   queueVars, leaseVars, registryVars

\* Import's Save stores the snapshot's copy of the task, or its budget and run time.
LEMMA ImportSaveStore ==
  ASSUME StoreOK, Fresh, SnapshotOK, NEW s \in Slot, NEW id \in sn[s].todo, ImportSave(s, id)
  PROVE  StoreOK' /\ StoreAdvances
<1> DEFINE copy == sn[s].tasks[id]
<1>1. id \in Task /\ copy \in TaskRec /\ copy.state \notin Absent
  BY ImportSaveFacts
<1>2. /\ copy.retriesLeft \in Nat /\ copy.nextRunAt \in Time /\ copy.state \in TaskState
  BY <1>1 DEF TaskRec
<1>3. \/ Overwrite(id, copy.retriesLeft, copy.nextRunAt)
      \/ InsertCopy(id, copy.state, copy.retriesLeft, copy.nextRunAt)
  BY DEF ImportSave
<1> HIDE DEF copy
<1>4. CASE Overwrite(id, copy.retriesLeft, copy.nextRunAt)
  BY <1>1, <1>2, <1>4, OverwriteType, OverwriteAdvances
<1>5. CASE InsertCopy(id, copy.state, copy.retriesLeft, copy.nextRunAt)
  BY <1>1, <1>2, <1>5, InsertCopyType, InsertCopyAdvances
<1>6. QED
  BY <1>3, <1>4, <1>5

StoreInv == SnapTypeInv /\ Fresh /\ AbsentIsFull

\* An identifier that has no task after a step had none before, and nothing of it
\* was spent.
LEMMA FullStep ==
  ASSUME StoreOK, StoreOK', Fresh, AbsentIsFull, StoreAdvances
  PROVE  Fresh' /\ AbsentIsFull'
<1>1. ASSUME NEW id \in Task, tasks'[id].state \in Absent
      PROVE  tasks'[id].retriesLeft = MaxRetries
  <2>1. tasks[id].state \in Absent /\ tasks'[id].version = 0 /\ tasks[id].version = 0
    BY <1>1 DEF StoreAdvances, Advances, Fresh
  <2>2. QED
    BY <1>1, <2>1 DEF StoreAdvances, Advances, AbsentIsFull
<1>2. QED
  BY <1>1 DEF StoreAdvances, AbsentIsFull

\* A step of the service leaves the handlers and the snapshots alone.
LEMMA ServiceStep ==
  ASSUME StoreInv, ServiceRuns \/ UNCHANGED <<vars, snapVars>>
  PROVE  StoreInv' /\ [Next]_vars /\ StoreAdvances /\ UNCHANGED <<sn, files, torn>>
<1>1. [Next]_vars /\ UNCHANGED <<sn, files, torn>>
  BY DEF ServiceRuns, snapVars
<1>2. TypeInv' /\ StoreAdvances
  BY <1>1, TypeStep, VersionsAdvance DEF StoreInv, SnapTypeInv
<1>3. before' \in SUBSET Executor
  BY DEF ServiceRuns, StillHolding, snapVars, StoreInv, SnapTypeInv, SnapshotOK
<1>4. SnapshotOK'
  BY <1>1, <1>3 DEF StoreInv, SnapTypeInv, SnapshotOK, Present
<1>5. Fresh' /\ AbsentIsFull'
  BY <1>2, FullStep DEF StoreInv, SnapTypeInv, TypeInv
<1>6. QED
  BY <1>1, <1>2, <1>4, <1>5 DEF StoreInv, SnapTypeInv

\* What a handler did to its own slot keeps the types of all.
LEMMA SlotsOK ==
  ASSUME SnapshotOK, NEW s \in Slot, sn' \in [Slot -> SnapshotLocal], OtherSlots(s),
         files' \subseteq SnapshotFile, torn' \in BOOLEAN, before' \in SUBSET Executor,
         sn'[s].pc \in {"collect", "save"} => sn'[s].todo \subseteq Present(sn'[s].tasks)
  PROVE  SnapshotOK'
<1>1. ASSUME NEW r \in Slot, sn'[r].pc \in {"collect", "save"}
      PROVE  sn'[r].todo \subseteq Present(sn'[r].tasks)
  BY <1>1 DEF OtherSlots, SnapshotOK
<1>2. QED
  BY <1>1 DEF SnapshotOK, Present

\* A step of a snapshot handler keeps the types, and no executor notices it.
LEMMA SnapshotStepType ==
  ASSUME StoreInv, NEW s \in Slot, SnapshotStep(s)
  PROVE  /\ StoreInv'
         /\ UNCHANGED <<ex, leases, leaseSeq, cl>>
         /\ (\E file \in files : ImportReset(s, file)) \/ (StoreAdvances /\ UNCHANGED before)
<1> USE DEF vars
<1>0. /\ TypeInv /\ SnapshotOK /\ Fresh /\ AbsentIsFull /\ StoreOK /\ RecordsOK
      /\ sn[s] \in SnapshotLocal /\ files \subseteq SnapshotFile /\ before \in SUBSET Executor
      /\ torn \in BOOLEAN /\ sn \in [Slot -> SnapshotLocal]
  BY DEF StoreInv, SnapTypeInv, TypeInv, SnapshotOK
<1>1. ASSUME UNCHANGED <<vars, before>>, SnapshotOK' PROVE StoreInv' /\ StoreAdvances
  <2>1. TypeInv'
    BY <1>0, <1>1, TypeStep
  <2>2. Fresh' /\ AbsentIsFull' /\ StoreAdvances
    BY <1>0, <1>1, UnchangedAdvances DEF Fresh, AbsentIsFull
  <2>3. QED
    BY <1>1, <2>1, <2>2 DEF StoreInv, SnapTypeInv
<1>2. ASSUME SlotDone(s), files' \subseteq SnapshotFile, torn' \in BOOLEAN, UNCHANGED before
      PROVE  SnapshotOK'
  BY <1>0, <1>2, SlotDoneFacts, SlotsOK
<1>3. CASE ExportTasks(s)
  <2>1. Present(sn'[s].tasks) = Present(tasks)
    BY <1>0, <1>3, ExportTasksFacts DEF Present, GoneTask, Absent
  <2>2. UNCHANGED <<vars, files, torn, before>>
    BY <1>3 DEF ExportTasks
  <2>3. SnapshotOK'
    BY <1>0, <1>3, <2>1, <2>2, ExportTasksFacts, SlotsOK
  <2>4. QED
    BY <1>1, <2>2, <2>3 DEF leaseVars
<1>4. ASSUME NEW id \in sn[s].todo, ExportRecords(s, id)
      PROVE  StoreInv' /\ StoreAdvances /\ UNCHANGED <<ex, leases, leaseSeq, cl, before>>
  <2>1. sn'[s].todo \subseteq Present(sn'[s].tasks)
    BY <1>0, <1>4, ExportRecordsFacts DEF SnapshotOK
  <2>2. SnapshotOK'
    BY <1>0, <1>4, <2>1, ExportRecordsFacts, SlotsOK DEF ExportRecords
  <2>3. QED
    BY <1>1, <1>4, <2>2 DEF ExportRecords, leaseVars
<1>5. CASE ExportWrite(s)
  <2>1. SnapshotOK'
    BY <1>0, <1>2, <1>5, ExportWriteFacts DEF ExportWrite
  <2>2. QED
    BY <1>1, <1>5, <2>1 DEF ExportWrite, leaseVars
<1>6. ASSUME NEW file \in files, ImportReset(s, file)
      PROVE  StoreInv' /\ UNCHANGED <<ex, leases, leaseSeq, cl>>
  <2>1. StoreOK' /\ Fresh' /\ AbsentIsFull'
    BY <1>0, <1>6, EmptiedFacts DEF Emptied, ImportReset
  <2>2. TypeInv'
    BY <1>0, <1>6, <2>1, HandlerStepType DEF ImportReset, RecordsOK
  <2>3. torn' \in BOOLEAN /\ before' \in SUBSET Executor /\ files' = files
    BY <1>0, <1>6 DEF ImportReset, SnapshotFile
  <2>4. SnapshotOK'
    BY <1>0, <1>6, <2>3, ImportResetFacts, SlotsOK
  <2>5. QED
    BY <1>6, <2>1, <2>2, <2>4 DEF ImportReset, StoreInv, SnapTypeInv, leaseVars
<1>7. ASSUME NEW id \in sn[s].todo, ImportSave(s, id)
      PROVE  StoreInv' /\ StoreAdvances /\ UNCHANGED <<ex, leases, leaseSeq, cl, before>>
  <2>1. StoreOK' /\ StoreAdvances
    BY <1>0, <1>7, ImportSaveStore
  <2>2. TypeInv'
    BY <1>0, <1>7, <2>1, HandlerStepType DEF ImportSave, RecordsOK
  <2>3. sn'[s].todo \subseteq Present(sn'[s].tasks)
    BY <1>0, <1>7, ImportSaveFacts DEF SnapshotOK
  <2>4. SnapshotOK'
    BY <1>0, <1>7, <2>3, ImportSaveFacts, SlotsOK DEF ImportSave
  <2>5. QED
    BY <1>0, <1>7, <2>1, <2>2, <2>4, FullStep DEF ImportSave, StoreInv, SnapTypeInv, leaseVars
<1>8. ASSUME NEW id \in sn[s].todo, ImportRefused(s, id)
      PROVE  StoreInv' /\ StoreAdvances /\ UNCHANGED <<ex, leases, leaseSeq, cl, before>>
  BY <1>0, <1>1, <1>2, <1>8 DEF ImportRefused, leaseVars
<1>9. ASSUME NEW id \in Task, NEW u \in Status, ImportAppend(s, id, u)
      PROVE  StoreInv' /\ StoreAdvances /\ UNCHANGED <<ex, leases, leaseSeq, cl, before>>
  <2>1. StoreOK' /\ StoreAdvances
    BY <1>0, <1>9, UnchangedAdvances DEF ImportAppend, StoreOK
  <2>2. TypeInv'
    BY <1>0, <1>9, <2>1, ImportAppendFacts, HandlerStepType DEF ImportAppend
  <2>3. SnapshotOK'
    BY <1>0, <1>9, ImportAppendFacts, SlotsOK DEF ImportAppend
  <2>4. QED
    BY <1>0, <1>9, <2>1, <2>2, <2>3, FullStep DEF ImportAppend, StoreInv, SnapTypeInv, leaseVars
<1>10. CASE ImportDone(s)
  BY <1>0, <1>1, <1>2, <1>10 DEF ImportDone, leaseVars
<1>11. QED
  BY <1>3, <1>4, <1>5, <1>6, <1>7, <1>8, <1>9, <1>10 DEF SnapshotStep

\* Every step keeps the types, and removed tasks without version or spent budget.
LEMMA StoreInvStep ==
  ASSUME StoreInv, [SnapshotNext]_<<vars, snapVars>>
  PROVE  StoreInv'
<1>1. CASE Restart
  <2>1. TypeInv' /\ Fresh' /\ AbsentIsFull'
    BY <1>1, RestartFacts, EmptiedFacts DEF StoreInv, SnapTypeInv, TypeInv
  <2>2. SnapshotOK'
    <3>1. /\ sn' = [s \in Slot |-> IdleSnapshot] /\ before' = {} /\ torn' = FALSE
          /\ files' = files
      BY <1>1 DEF Restart
    <3>2. QED
      BY <3>1, IdleSnapshotFacts DEF StoreInv, SnapTypeInv, SnapshotOK
  <2>3. QED
    BY <2>1, <2>2 DEF StoreInv, SnapTypeInv
<1>2. QED
  BY <1>1, ServiceStep, SnapshotStepType DEF SnapshotNext

\* Nothing is stored and nothing spent when the process starts.
LEMMA StoreInvInit == SnapshotInit => StoreInv
<1>1. SnapshotInit => Fresh /\ AbsentIsFull
  BY DEF SnapshotInit, Init, InitStore, Fresh, AbsentIsFull
<1>2. QED
  BY <1>1, SnapTypeInit DEF StoreInv

\* The types hold while exports, imports and restarts run with the service.
THEOREM StoreIsInvariant == SnapshotSpec => []StoreInv
BY StoreInvInit, StoreInvStep, PTL DEF SnapshotSpec

\* Type correctness with snapshots: the service has no local task or lease that
\* a Reset, a Save of a copy or a restart could turn into a foreign value.
THEOREM SnapshotTypeCorrect == SnapshotSpec => []TypeOK
<1>1. StoreInv => TypeOK
  BY TypeInvImpliesTypeOK DEF StoreInv, SnapTypeInv
<1>2. QED
  BY <1>1, StoreIsInvariant, PTL

(***************************************************************************)
(* Epochs.  A Reset starts versions over, so the version fence holds among *)
(* the executors that took their task since; the ones in "before" are      *)
(* outside it until they let go of what they hold.                         *)
(***************************************************************************)
EpochInv == StoreInv /\ LeaseFence /\ FenceAmong(Executor \ before)

\* A fence among some executors is one among fewer, and among any more that hold
\* nothing.
LEMMA FenceGrows ==
  ASSUME NEW S, NEW T, FenceAmong(S), \A e \in T : HoldsVersion(e) => e \in S
  PROVE  FenceAmong(T)
BY DEF FenceAmong

\* The lease fence needs no other variable than these.
LEMMA LeaseFenceSame ==
  ASSUME LeaseFence, UNCHANGED <<ex, leases, leaseSeq>>
  PROVE  LeaseFence'
BY DEF LeaseFence

\* The executors in "before" lose their place there with what they hold.
LEMMA ServiceEpoch ==
  ASSUME EpochInv, ServiceRuns \/ UNCHANGED <<vars, snapVars>>
  PROVE  EpochInv'
<1>1. StoreInv' /\ [Next]_vars /\ TypeInv /\ Fresh
  BY ServiceStep DEF EpochInv, StoreInv, SnapTypeInv
<1>2. LeaseFence'
  BY <1>1, LeaseFenceStep DEF EpochInv
<1>3. PICK S \in SUBSET Executor : S = Executor \ before
  OBVIOUS
<1>4. FenceAmong(S)'
  BY <1>1, <1>3, FenceAmongStep DEF EpochInv
<1>5. \A e \in Executor \ before' : HoldsVersion(e)' => e \in S
  BY <1>3 DEF ServiceRuns, StillHolding, snapVars, EpochInv, StoreInv, SnapTypeInv, SnapshotOK
<1>6. FenceAmong(Executor \ before)'
  BY <1>4, <1>5 DEF FenceAmong
<1>7. QED
  BY <1>1, <1>2, <1>6 DEF EpochInv

\* Every step preserves the fence among the executors of the present epoch.
LEMMA EpochStep ==
  ASSUME EpochInv, [SnapshotNext]_<<vars, snapVars>>
  PROVE  EpochInv'
<1>0. StoreInv /\ StoreInv' /\ TypeInv /\ LeaseFence
  BY StoreInvStep DEF EpochInv, StoreInv, SnapTypeInv
<1>1. CASE Restart
  <2>1. \A e \in Executor : ex'[e].pc = "idle" /\ ex'[e].lease = 0
    BY <1>0, <1>1, RestartFacts DEF StoreInv, NoLease
  <2>2. LeaseFence'
    BY <1>0, <1>1, <2>1 DEF LeaseFence, Restart, TypeInv, LeasesOK
  <2>3. FenceAmong(Executor \ before)'
    BY <2>1 DEF FenceAmong, HoldsVersion
  <2>4. QED
    BY <1>0, <2>2, <2>3 DEF EpochInv
<1>2. ASSUME NEW s \in Slot, SnapshotStep(s) PROVE EpochInv'
  <2>1. LeaseFence'
    BY <1>0, <1>2, SnapshotStepType, LeaseFenceSame
  <2>2. CASE \E file \in files : ImportReset(s, file)
    <3>1. \A e \in Executor \ before' : ~HoldsVersion(e)'
      BY <2>2 DEF ImportReset, HoldsVersion
    <3>2. FenceAmong(Executor \ before)'
      BY <3>1 DEF FenceAmong
    <3>3. QED
      BY <1>0, <2>1, <3>2 DEF EpochInv
  <2>3. CASE StoreAdvances /\ UNCHANGED <<ex, before>>
    <3>1. PICK S \in SUBSET Executor : S = Executor \ before
      OBVIOUS
    <3>2. HoldersKept
      BY <2>3 DEF HoldersKept, HoldsVersion
    <3>3. FenceAmong(S)'
      BY <1>0, <2>3, <3>1, <3>2, FenceKept DEF EpochInv
    <3>4. FenceAmong(Executor \ before)'
      BY <2>3, <3>1, <3>3 DEF FenceAmong
    <3>5. QED
      BY <1>0, <2>1, <3>4 DEF EpochInv
  <2>4. QED
    BY <1>0, <1>2, <2>2, <2>3, SnapshotStepType
<1>3. QED
  BY <1>1, <1>2, ServiceEpoch DEF SnapshotNext

\* No executor holds a task when the process starts.
LEMMA EpochInit == SnapshotInit => EpochInv
<1>1. SnapshotInit => LeaseFence /\ FenceAmong(Executor)
  BY FenceInit, FenceOfAll DEF SnapshotInit, FenceInv
<1>2. SnapshotInit => before = {}
  BY DEF SnapshotInit
<1>3. QED
  BY <1>1, <1>2, StoreInvInit, FenceGrows DEF EpochInv

\* Within an epoch the version fence holds, whatever snapshots and restarts did.
THEOREM EpochIsInvariant == SnapshotSpec => []EpochInv
BY EpochInit, EpochStep, PTL DEF SnapshotSpec

\* Export and Import do not touch the lease table and no holder.
LEMMA SnapshotSparesLeases ==
  ASSUME StoreInv, NEW s \in Slot, SnapshotStep(s)
  PROVE  UNCHANGED <<ex, leases, leaseSeq, byTask>>
<1>1. UNCHANGED byTask
  BY DEF SnapshotStep, ExportTasks, ExportRecords, ExportWrite, ImportReset, ImportSave,
     ImportRefused, ImportAppend, ImportDone, vars, leaseVars
<1>2. QED
  BY <1>1, SnapshotStepType

\* Leases of removed tasks stay in the table until their holders, Renew or the
\* reaper take them out; a restart takes them all, with their holders.
LEMMA SnapshotTableStep ==
  ASSUME EpochInv, TableInv, [SnapshotNext]_<<vars, snapVars>>
  PROVE  TableInv'
<1>1. CASE Restart
  <2>1. /\ leases' = {} /\ byTask' = [id \in Task |-> NoLease]
        /\ \A e \in Executor : ex'[e].lease = NoLease
    BY <1>1, RestartFacts DEF Restart, EpochInv, StoreInv, SnapTypeInv
  <2>2. QED
    BY <2>1 DEF TableInv, LeaseIds, IndexSound, Held, NoLeaseYet
<1>2. ASSUME NEW s \in Slot, SnapshotStep(s)
      PROVE  TableInv'
  BY <1>2, SnapshotSparesLeases
     DEF EpochInv, TableInv, LeaseIds, IndexSound, Held, NoLeaseYet
<1>3. CASE ServiceRuns \/ UNCHANGED <<vars, snapVars>>
  BY <1>3, ServiceStep, TableStep DEF EpochInv, StoreInv, SnapTypeInv
<1>4. QED
  BY <1>1, <1>2, <1>3 DEF SnapshotNext

\* The lease table is sound although Reset removes the tasks of its leases and
\* restored copies take the versions of the old ones again.
THEOREM SnapshotTableHasNoLeftovers == SnapshotSpec => []LeaseTableIsSound
<1>1. SnapshotInit => TableInv
  BY TableInit DEF SnapshotInit
<1>2. EpochInv /\ TableInv /\ [SnapshotNext]_<<vars, snapVars>> => TableInv'
  BY SnapshotTableStep
<1>3. TableInv => LeaseTableIsSound
  BY DEF TableInv, Held, IndexSound, LeaseTableIsSound
<1>4. QED
  BY <1>1, <1>2, <1>3, EpochIsInvariant, PTL DEF SnapshotSpec

\* Save of a copy puts a task back where there is none, and keeps the state of one
\* that is there; Reset and a restart remove tasks.
LEMMA SnapshotFinal ==
  ASSUME StoreInv, (\E s \in Slot : SnapshotStep(s)) \/ Restart,
         NEW id \in Task, tasks[id].state \in Terminal
  PROVE  tasks'[id].state \in {tasks[id].state, "gone"}
<1>0. StoreOK /\ SnapshotOK
  BY DEF StoreInv, SnapTypeInv, TypeInv
<1>1. ASSUME Restart \/ \E s \in Slot, file \in files : ImportReset(s, file)
      PROVE  tasks'[id].state \in {tasks[id].state, "gone"}
  BY <1>1, EmptiedFacts DEF ImportReset, Restart, Emptied, StoreInv, SnapTypeInv, TypeInv,
     Terminal, Absent
<1>2. ASSUME NEW s \in Slot, NEW t \in sn[s].todo, ImportSave(s, t)
      PROVE  tasks'[id].state = tasks[id].state
  <2>1. t \in Task
    BY <1>0, <1>2, ImportSaveFacts
  <2>2. PICK copy : \/ Overwrite(t, copy.retriesLeft, copy.nextRunAt)
                    \/ InsertCopy(t, copy.state, copy.retriesLeft, copy.nextRunAt)
    BY <1>2 DEF ImportSave
  <2>3. QED
    BY <1>0, <2>1, <2>2, OverwriteFacts, InsertCopyFacts DEF Others, Terminal
<1>3. QED
  BY <1>1, <1>2 DEF SnapshotStep, vars, ExportTasks, ExportRecords, ExportWrite, ImportRefused,
     ImportAppend, ImportDone

\* A terminal task is only ever revived by an executor that took it before the
\* last Reset: for every number of executors, and whatever else runs.
THEOREM OnlyOldHoldersCanRevive == SnapshotSpec => OnlyOldHoldersRevive
<1> DEFINE Final(id) ==
             tasks[id].state \in Terminal =>
               \/ tasks'[id].state \in {tasks[id].state, "gone"}
               \/ \E e \in before : ex[e].pc = "apply" /\ ex[e].task = id
<1>1. ASSUME EpochInv, [SnapshotNext]_<<vars, snapVars>>
      PROVE  \A id \in Task : Final(id)
  <2>1. CASE (\E s \in Slot : SnapshotStep(s)) \/ Restart
    BY <1>1, <2>1, SnapshotFinal DEF EpochInv
  <2>2. CASE ServiceRuns \/ UNCHANGED <<vars, snapVars>>
    <3>1. PICK S \in SUBSET Executor : S = Executor \ before
      OBVIOUS
    <3>2. TypeInv /\ LeaseFence /\ FenceAmong(S) /\ [Next]_vars
      BY <1>1, <2>2, <3>1, ServiceStep DEF EpochInv, StoreInv, SnapTypeInv
    <3>3. FinalAmong(S)
      BY <3>2, TerminalStepAmong
    <3>4. QED
      BY <3>1, <3>3 DEF FinalAmong
  <2>3. QED
    BY <1>1, <2>1, <2>2 DEF SnapshotNext
<1>2. EpochInv /\ [SnapshotNext]_<<vars, snapVars>> => [\A id \in Task : Final(id)]_<<vars, snapVars>>
  BY <1>1
<1>3. SnapshotSpec => [][\A id \in Task : Final(id)]_<<vars, snapVars>>
  BY <1>2, EpochIsInvariant, PTL DEF SnapshotSpec
<1>4. QED
  BY <1>3 DEF OnlyOldHoldersRevive

\* Two executors of one epoch never own the same task, and what one of them owns
\* is Leased.
EpochOwnership ==
  \A e \in Executor \ before, id \in Task :
    Owns(e, id) => /\ tasks[id].state = "leased"
                   /\ \A f \in Executor \ before : Owns(f, id) => f = e

\* Ownership is exclusive among the executors that took their task since the last
\* Reset or restart: only the ones from before it can get in their way.
THEOREM OwnershipIsExclusiveInEpoch == SnapshotSpec => []EpochOwnership
<1>1. EpochInv => EpochOwnership
  BY DEF EpochInv, FenceAmong, EpochOwnership, Owns
<1>2. QED
  BY <1>1, EpochIsInvariant, PTL

(***************************************************************************)
(* The failures on record.  A failure that is recorded and not yet applied *)
(* to its task is awaiting; the others have been paid for with a retry or  *)
(* with the task's death, or were not applied at all.                      *)
(***************************************************************************)
Awaiting(id) ==
  {e \in Executor : ex[e].pc = "apply" /\ ex[e].task = id /\ ex[e].status = "failure"}

Settled(id) == records[id]["failure"] - Cardinality(Awaiting(id))

SettledGrows == \A id \in Task : Settled(id)' >= Settled(id)

\* Awaiting failures can be counted.
LEMMA AwaitingFinite ==
  ASSUME NEW id
  PROVE  IsFiniteSet(Awaiting(id)) /\ Cardinality(Awaiting(id)) \in Nat
<1>1. Awaiting(id) \in SUBSET Executor
  BY DEF Awaiting
<1>2. QED
  BY <1>1, ExecutorAssumption, FS_Subset, FS_CardinalityType

\* So the settled ones are a number.
LEMMA SettledType ==
  ASSUME RecordsOK, NEW id \in Task
  PROVE  Settled(id) \in Int /\ records[id]["failure"] \in Nat /\ records[id]["success"] \in Nat
BY AwaitingFinite DEF Settled, RecordsOK, Status

\* Nothing is settled by a step that neither records nor applies a result.
LEMMA SettledSame ==
  ASSUME RecordsOK, UNCHANGED records,
         \A e \in Executor :
           \/ ex'[e].pc # "apply" /\ ex[e].pc # "apply"
           \/ ex'[e] = ex[e]
  PROVE  SettledGrows
<1>1. ASSUME NEW id \in Task PROVE Awaiting(id)' = Awaiting(id)
  BY DEF Awaiting
<1>2. ASSUME NEW id \in Task PROVE Settled(id)' = Settled(id) /\ Settled(id) \in Int
  BY <1>1, SettledType DEF Settled
<1>3. QED
  BY <1>2 DEF SettledGrows

\* A failure is recorded in the step that makes it await its application.
LEMMA CheckSettles ==
  ASSUME TypeInv, NEW e \in Executor, ExecutorRuns(e), CheckLease(e)
  PROVE  SettledGrows
<1>0. ExecutorsOK /\ RecordsOK /\ ExecutorStep(e)
  BY DEF TypeInv, ExecutorRuns
<1>1. /\ ex[e].pc = "check" /\ ex[e].task \in Task /\ ex[e].status \in Status
      /\ ex'[e].task = ex[e].task /\ \A f \in Executor \ {e} : ex'[f] = ex[f]
  BY <1>0, ExecutorAlone, CheckFacts DEF Carries, ExecutorsOK, ExecutorLocal
<1>2. CASE ex'[e].pc = "release" /\ UNCHANGED records
  BY <1>0, <1>1, <1>2, SettledSame
<1>3. CASE /\ ex'[e].pc = "apply" /\ ex'[e].status = ex[e].status
           /\ records' = [records EXCEPT ![ex[e].task][ex[e].status] = @ + 1]
  <2> PICK t \in Task : t = ex[e].task
    BY <1>1
  <2>1. ASSUME NEW id \in Task, id # t \/ ex[e].status = "success" PROVE Settled(id)' >= Settled(id)
    <3>1. Awaiting(id)' = Awaiting(id)
      BY <1>1, <1>3, <2>1 DEF Awaiting
    <3>2. records'[id]["failure"] = records[id]["failure"]
      BY <1>0, <1>3, <2>1 DEF RecordsOK, Status
    <3>3. QED
      BY <1>0, <3>1, <3>2, SettledType DEF Settled
  <2>2. ASSUME ex[e].status = "failure" PROVE Settled(t)' >= Settled(t)
    <3>1. Awaiting(t)' = Awaiting(t) \cup {e} /\ e \notin Awaiting(t)
      BY <1>1, <1>3, <2>2 DEF Awaiting
    <3>2. Cardinality(Awaiting(t)') = Cardinality(Awaiting(t)) + 1
      BY <3>1, AwaitingFinite, FS_AddElement
    <3>3. records'[t]["failure"] = records[t]["failure"] + 1
      BY <1>0, <1>3, <2>2 DEF RecordsOK, Status
    <3>4. QED
      BY <1>0, <3>2, <3>3, SettledType, AwaitingFinite DEF Settled
  <2>3. QED
    BY <1>1, <2>1, <2>2 DEF SettledGrows, Status
<1>4. QED
  BY <1>0, <1>2, <1>3, CheckFacts

\* And is settled in the step that applies it, or finds it cannot be applied.
LEMMA ApplySettles ==
  ASSUME TypeInv, NEW e \in Executor, ExecutorRuns(e), ApplyResult(e)
  PROVE  /\ SettledGrows
         /\ \A id \in Task : ex[e].task = id /\ ex[e].status = "failure" =>
              Settled(id)' = Settled(id) + 1
<1>0. ExecutorsOK /\ RecordsOK /\ ExecutorStep(e)
  BY DEF TypeInv, ExecutorRuns
<1>1. /\ ex[e].pc = "apply" /\ ex[e].task \in Task /\ ex'[e].pc \in {"release", "schedule"}
      /\ UNCHANGED records /\ \A f \in Executor \ {e} : ex'[f] = ex[f]
  BY <1>0, ExecutorAlone, ApplyFacts
<1>2. ASSUME NEW id \in Task
      PROVE  Settled(id)' = IF ex[e].task = id /\ ex[e].status = "failure" THEN Settled(id) + 1
                                                                         ELSE Settled(id)
  <2>1. Awaiting(id)' = Awaiting(id) \ {e}
    BY <1>1 DEF Awaiting
  <2>2. e \in Awaiting(id) <=> ex[e].task = id /\ ex[e].status = "failure"
    BY <1>1 DEF Awaiting
  <2>3. Cardinality(Awaiting(id)') = IF e \in Awaiting(id) THEN Cardinality(Awaiting(id)) - 1
                                                          ELSE Cardinality(Awaiting(id))
    BY <2>1, AwaitingFinite, FS_RemoveElement
  <2>4. QED
    BY <1>0, <1>1, <2>2, <2>3, SettledType, AwaitingFinite DEF Settled
<1>3. QED
  BY <1>0, <1>1, <1>2, SettledType DEF SettledGrows

\* No step of the service unsettles a failure.
LEMMA SettledStep ==
  ASSUME TypeInv, [Next]_vars
  PROVE  SettledGrows
<1>0. ExecutorsOK /\ RecordsOK
  BY DEF TypeInv
<1>1. CASE UNCHANGED <<ex, records>>
  BY <1>0, <1>1, SettledSame
<1>2. ASSUME NEW e \in Executor, ExecutorRuns(e) PROVE SettledGrows
  <2>1. ExecutorStep(e) /\ \A f \in Executor \ {e} : ex'[f] = ex[f]
    BY <1>0, <1>2, ExecutorAlone DEF ExecutorRuns
  <2>2. ASSUME ~CheckLease(e), ~ApplyResult(e) PROVE SettledGrows
    <3>1. UNCHANGED records
      BY <2>1, <2>2 DEF ExecutorStep, Pop, PopNothing, TakeReady, BindLease,
         PickFails, Repush, Finish, ScheduleRetry, ReleaseLease
    <3>2. ex[e].pc # "apply" /\ ex'[e].pc # "apply"
      BY <1>0, <2>1, <2>2, ApplyingFacts
    <3>3. QED
      BY <1>0, <2>1, <3>1, <3>2, SettledSame
  <2>3. QED
    BY <1>2, <2>2, CheckSettles, ApplySettles
<1>3. QED
  BY <1>1, <1>2 DEF Next, vars, TimePasses, WorkerBeats, TickerRuns, RequestArrives, HandlerRuns

(***************************************************************************)
(* Accounts.  A restore under way brings records of its own: until they    *)
(* are appended they count for what its Import has yet to save.  Each slot *)
(* has an account of its own, the records of the store and those it is to  *)
(* append, and one account that is rich enough vouches for a task: what    *)
(* two restores of the same snapshot are to append is not added up.        *)
(***************************************************************************)
ToAppend(s, id, status) == IF Importing(s) THEN sn[s].records[id][status] ELSE 0

Failures(id) == [s \in Slot |-> Settled(id) + ToAppend(s, id, "failure")]

Successes(id) == [s \in Slot |-> records[id]["success"] + ToAppend(s, id, "success")]

Grow(more, less) == \A s \in Slot : more[s] >= less[s]

AccountsGrow ==
  \A id \in Task : Grow(Failures(id)', Failures(id)) /\ Grow(Successes(id)', Successes(id))

\* So many records vouch for a task in that state with that much budget left.
Vouch(failures, successes, state, retries) ==
  /\ failures >= MaxRetries - retries
  /\ state = "dead" => failures > MaxRetries
  /\ state = "succeeded" => successes > 0

\* Some account does.
SomeVouch(failures, successes, state, retries) ==
  /\ \E s \in Slot : failures[s] >= MaxRetries - retries
  /\ state = "dead" => \E s \in Slot : failures[s] > MaxRetries
  /\ state = "succeeded" => \E s \in Slot : successes[s] > 0

Shown(id, state, retries) == SomeVouch(Failures(id), Successes(id), state, retries)

AccountsOK ==
  \A id \in Task :
    /\ \A s \in Slot, u \in Status : ToAppend(s, id, u) \in Nat
    /\ \A u \in Status : records[id][u] \in Nat
    /\ Settled(id) \in Int
    /\ Failures(id) \in [Slot -> Int] /\ Successes(id) \in [Slot -> Int]

\* The accounts are whole numbers.
LEMMA AccountsType == StoreInv => AccountsOK
<1> SUFFICES ASSUME StoreInv, NEW id \in Task
             PROVE  /\ \A s \in Slot, u \in Status : ToAppend(s, id, u) \in Nat
                    /\ \A u \in Status : records[id][u] \in Nat
                    /\ Settled(id) \in Int
                    /\ Failures(id) \in [Slot -> Int] /\ Successes(id) \in [Slot -> Int]
  BY DEF AccountsOK
<1>1. RecordsOK /\ \A s \in Slot : sn[s].records \in RecordTable
  BY DEF StoreInv, SnapTypeInv, TypeInv, SnapshotOK, SnapshotLocal
<1>2. /\ \A s \in Slot, u \in Status : ToAppend(s, id, u) \in Nat
      /\ \A u \in Status : records[id][u] \in Nat
  BY <1>1 DEF RecordTable, RecordsOK, ToAppend
<1>3. Settled(id) \in Int /\ "failure" \in Status /\ "success" \in Status
  BY <1>1, SettledType DEF Status
<1> HIDE DEF ToAppend, Settled
<1>4. QED
  BY <1>2, <1>3 DEF Failures, Successes

\* And so they are after a step.
LEMMA AccountsTypeNext == StoreInv' => AccountsOK'
BY AccountsType, PTL

\* An account is at least what the store holds of it.
LEMMA StoreVouches ==
  ASSUME StoreInv, NEW id \in Task, NEW s \in Slot
  PROVE  /\ Failures(id)[s] = Settled(id) + ToAppend(s, id, "failure")
         /\ Successes(id)[s] = records[id]["success"] + ToAppend(s, id, "success")
BY DEF Failures, Successes

\* As before, in the state a step leads to.
LEMMA StoreVouchesNext ==
  ASSUME StoreInv', NEW id \in Task, NEW s \in Slot
  PROVE  /\ Failures(id)'[s] = Settled(id)' + ToAppend(s, id, "failure")'
         /\ Successes(id)'[s] = records'[id]["success"] + ToAppend(s, id, "success")'
BY DEF Failures, Successes

\* More records vouch for no less.
LEMMA VouchMore ==
  ASSUME NEW f \in [Slot -> Int], NEW g \in [Slot -> Int], NEW s \in [Slot -> Int],
         NEW t \in [Slot -> Int], NEW state, NEW retries \in Nat,
         Grow(g, f), Grow(t, s), SomeVouch(f, s, state, retries)
  PROVE  SomeVouch(g, t, state, retries)
<1>1. MaxRetries \in Nat
  BY ModelAssumption
<1>2. \E x \in Slot : g[x] >= MaxRetries - retries
  <2>1. PICK x \in Slot : f[x] >= MaxRetries - retries
    BY DEF SomeVouch
  <2>2. QED
    BY <1>1, <2>1 DEF Grow
<1>3. ASSUME state = "dead" PROVE \E x \in Slot : g[x] > MaxRetries
  <2>1. PICK x \in Slot : f[x] > MaxRetries
    BY <1>3 DEF SomeVouch
  <2>2. QED
    BY <1>1, <2>1 DEF Grow
<1>4. ASSUME state = "succeeded" PROVE \E x \in Slot : t[x] > 0
  <2>1. PICK x \in Slot : s[x] > 0
    BY <1>4 DEF SomeVouch
  <2>2. QED
    BY <2>1 DEF Grow
<1>5. QED
  BY <1>2, <1>3, <1>4 DEF SomeVouch

\* What one account vouches for, some account does, and the more so if it is richer.
LEMMA OneVouches ==
  ASSUME NEW f \in [Slot -> Int], NEW g \in [Slot -> Int], NEW a \in Int, NEW b \in Int,
         NEW s \in Slot, NEW state, NEW retries \in Nat,
         f[s] >= a, g[s] >= b, Vouch(a, b, state, retries)
  PROVE  SomeVouch(f, g, state, retries)
<1>1. /\ f[s] >= MaxRetries - retries
      /\ state = "dead" => f[s] > MaxRetries
      /\ state = "succeeded" => g[s] > 0
  BY ModelAssumption DEF Vouch
<1>2. QED
  BY <1>1 DEF SomeVouch

\* Where nothing is left to append, the records of the store vouch alone.
LEMMA NothingToAppend ==
  ASSUME StoreInv, NEW id \in Task, \A s \in Slot : ~Importing(s),
         NEW state, NEW retries \in Nat, Shown(id, state, retries)
  PROVE  Vouch(records[id]["failure"], records[id]["success"], state, retries)
<1> DEFINE a == records[id]["failure"]
           b == records[id]["success"]
<1>1. /\ a \in Nat /\ b \in Nat /\ Settled(id) \in Int /\ Settled(id) <= a
  <2>1. Cardinality(Awaiting(id)) \in Nat /\ RecordsOK
    BY AwaitingFinite DEF StoreInv, SnapTypeInv, TypeInv
  <2>2. QED
    BY <2>1, SettledType DEF Settled
<1>2. \A s \in Slot : Failures(id)[s] = Settled(id) /\ Successes(id)[s] = b
  BY <1>1 DEF Failures, Successes, ToAppend
<1> HIDE DEF a, b
<1>3. a >= MaxRetries - retries
  <2>1. PICK s \in Slot : Failures(id)[s] >= MaxRetries - retries
    BY DEF Shown, SomeVouch
  <2>2. Settled(id) >= MaxRetries - retries
    BY <1>2, <2>1
  <2>3. QED
    BY <1>1, <2>2, ModelAssumption
<1>4. ASSUME state = "dead" PROVE a > MaxRetries
  <2>1. PICK s \in Slot : Failures(id)[s] > MaxRetries
    BY <1>4 DEF Shown, SomeVouch
  <2>2. Settled(id) > MaxRetries
    BY <1>2, <2>1
  <2>3. QED
    BY <1>1, <2>2, ModelAssumption
<1>5. ASSUME state = "succeeded" PROVE b > 0
  BY <1>2, <1>5 DEF Shown, SomeVouch
<1>6. QED
  BY <1>3, <1>4, <1>5 DEF Vouch, a, b

\* What is shown stays shown as long as the accounts grow.
LEMMA StaysShown ==
  ASSUME StoreInv, StoreInv', AccountsGrow, NEW id \in Task, NEW state, NEW retries \in Nat,
         Shown(id, state, retries)
  PROVE  SomeVouch(Failures(id)', Successes(id)', state, retries)
<1>1. /\ Failures(id) \in [Slot -> Int] /\ Successes(id) \in [Slot -> Int]
      /\ Failures(id)' \in [Slot -> Int] /\ Successes(id)' \in [Slot -> Int]
  BY AccountsType, AccountsTypeNext DEF AccountsOK
<1>2. QED
  BY <1>1, VouchMore DEF AccountsGrow, Shown

\* The service appends records and settles failures; Import's own wait.
LEMMA ServiceAccounts ==
  ASSUME StoreInv, ServiceRuns \/ UNCHANGED <<vars, snapVars>>
  PROVE  AccountsGrow
<1>1. /\ TypeInv /\ [Next]_vars /\ UNCHANGED sn /\ StoreInv'
  BY ServiceStep DEF StoreInv, SnapTypeInv
<1>2. SettledGrows /\ RecordsGrow
  BY <1>1, SettledStep, RecordsStep
<1>3. ASSUME NEW id \in Task, NEW s \in Slot
      PROVE  Failures(id)'[s] >= Failures(id)[s] /\ Successes(id)'[s] >= Successes(id)[s]
  <2>1. \A u \in Status : ToAppend(s, id, u)' = ToAppend(s, id, u)
    BY <1>1 DEF ToAppend, Importing
  <2>2. /\ Settled(id)' >= Settled(id) /\ records'[id]["success"] >= records[id]["success"]
    BY <1>2 DEF SettledGrows, RecordsGrow, Status
  <2>3. /\ ToAppend(s, id, "failure") \in Nat /\ ToAppend(s, id, "success") \in Nat
        /\ Settled(id) \in Int /\ Settled(id)' \in Int
        /\ records[id]["success"] \in Nat /\ records'[id]["success"] \in Nat
    BY <1>1, AccountsType, AccountsTypeNext DEF AccountsOK, Status
  <2>4. QED
    BY <1>1, <2>1, <2>2, <2>3, StoreVouches, StoreVouchesNext DEF Status
<1>4. QED
  BY <1>3 DEF AccountsGrow, Grow

\* A handler that takes from its own list what it appends loses nothing.
LEMMA BalancedAccounts ==
  ASSUME StoreInv, StoreInv', UNCHANGED ex,
         \A s \in Slot, id \in Task, u \in Status :
           records'[id][u] + ToAppend(s, id, u)' >= records[id][u] + ToAppend(s, id, u)
  PROVE  AccountsGrow
<1>1. ASSUME NEW id \in Task, NEW s \in Slot
      PROVE  Failures(id)'[s] >= Failures(id)[s] /\ Successes(id)'[s] >= Successes(id)[s]
  <2>1. Awaiting(id)' = Awaiting(id)
    BY DEF Awaiting
  <2>2. Cardinality(Awaiting(id)) \in Nat
    BY AwaitingFinite
  <2>3. \A u \in Status : /\ ToAppend(s, id, u) \in Nat /\ records[id][u] \in Nat
                          /\ ToAppend(s, id, u)' \in Nat /\ records'[id][u] \in Nat
    BY AccountsType, AccountsTypeNext DEF AccountsOK
  <2>4. "failure" \in Status /\ "success" \in Status
    BY DEF Status
  <2>5. QED
    BY <2>1, <2>2, <2>3, <2>4, StoreVouches, StoreVouchesNext DEF Settled
<1>2. QED
  BY <1>1 DEF AccountsGrow, Grow

\* Neither Export nor an Import that is not refused loses a record.
LEMMA SnapshotAccounts ==
  ASSUME StoreInv, NEW s \in Slot, SnapshotStep(s), ~torn'
  PROVE  AccountsGrow
<1>0. /\ StoreInv' /\ UNCHANGED ex /\ RecordsOK /\ SnapshotOK /\ TypeInv
  BY SnapshotStepType DEF StoreInv, SnapTypeInv, TypeInv
<1> DEFINE Balanced == \A r \in Slot, id \in Task, u \in Status :
             records'[id][u] + ToAppend(r, id, u)' >= records[id][u] + ToAppend(r, id, u)
<1>1. \A r \in Slot, id \in Task, u \in Status :
        /\ ToAppend(r, id, u) \in Nat /\ ToAppend(r, id, u)' \in Nat
        /\ records[id][u] \in Nat /\ records'[id][u] \in Nat
  BY <1>0, AccountsType, AccountsTypeNext DEF AccountsOK
<1>2. ASSUME OtherSlots(s), NEW r \in Slot, r # s, NEW id \in Task, NEW u \in Status
      PROVE  ToAppend(r, id, u)' = ToAppend(r, id, u)
  BY <1>2 DEF OtherSlots, ToAppend, Importing
<1>3. ASSUME UNCHANGED records, OtherSlots(s),
             \A id \in Task, u \in Status : ToAppend(s, id, u)' >= ToAppend(s, id, u)
      PROVE  Balanced
  <2>1. ASSUME NEW r \in Slot, NEW id \in Task, NEW u \in Status
        PROVE  ToAppend(r, id, u)' >= ToAppend(r, id, u)
    <3>1. CASE r = s
      BY <1>3, <3>1
    <3>2. CASE r # s
      BY <1>1, <1>2, <1>3, <3>2
    <3>3. QED
      BY <3>1, <3>2
  <2>2. QED
    BY <1>1, <1>3, <2>1
<1>4. ASSUME UNCHANGED records, OtherSlots(s), ~Importing(s) PROVE Balanced
  <2>1. \A id \in Task, u \in Status : ToAppend(s, id, u) = 0
    BY <1>4 DEF ToAppend
  <2>2. \A id \in Task, u \in Status : ToAppend(s, id, u)' >= ToAppend(s, id, u)
    BY <1>1, <2>1
  <2>3. QED
    BY <1>3, <1>4, <2>2
<1>5. ASSUME ExportTasks(s) PROVE Balanced
  BY <1>0, <1>4, <1>5, ExportTasksFacts DEF ExportTasks, vars, Importing
<1>6. ASSUME NEW id \in sn[s].todo, ExportRecords(s, id) PROVE Balanced
  BY <1>0, <1>4, <1>6, ExportRecordsFacts DEF ExportRecords, vars, Importing
<1>7. ASSUME ExportWrite(s) PROVE Balanced
  BY <1>0, <1>4, <1>7, ExportWriteFacts DEF ExportWrite, vars, Importing
<1>8. ASSUME NEW file \in files, ImportReset(s, file) PROVE Balanced
  BY <1>0, <1>4, <1>8, ImportResetFacts DEF ImportReset, Importing
<1>9. ASSUME NEW id \in sn[s].todo, ImportSave(s, id) PROVE Balanced
  <2>1. OtherSlots(s) /\ UNCHANGED records
    BY <1>0, <1>9, ImportSaveFacts DEF ImportSave
  <2>2. \A t \in Task, u \in Status : ToAppend(s, t, u)' = ToAppend(s, t, u)
    BY <1>0, <1>9, ImportSaveFacts DEF ToAppend, Importing
  <2>3. \A t \in Task, u \in Status : ToAppend(s, t, u)' >= ToAppend(s, t, u)
    BY <1>1, <2>2
  <2>4. QED
    BY <1>3, <2>1, <2>3
<1>10. ASSUME NEW id \in sn[s].todo, ImportRefused(s, id) PROVE Balanced
  BY <1>10 DEF ImportRefused
<1>11. ASSUME NEW id \in Task, NEW u \in Status, ImportAppend(s, id, u) PROVE Balanced
  <2>1. /\ OtherSlots(s)
        /\ \A t \in Task, v \in Status :
             /\ ToAppend(s, t, v) = sn[s].records[t][v]
             /\ ToAppend(s, t, v)' = sn'[s].records[t][v]
    BY <1>0, <1>11, ImportAppendFacts DEF ToAppend, Importing
  <2>2. ASSUME NEW r \in Slot, NEW t \in Task, NEW v \in Status
        PROVE  records'[t][v] + ToAppend(r, t, v)' >= records[t][v] + ToAppend(r, t, v)
    <3>1. records'[t][v] >= records[t][v]
      <4>1. CASE t = id /\ v = u
        BY <1>0, <1>1, <1>11, <4>1, ImportAppendFacts
      <4>2. CASE <<t, v>> # <<id, u>>
        BY <1>0, <1>1, <1>11, <4>2, ImportAppendFacts
      <4>3. QED
        BY <4>1, <4>2
    <3>2. CASE r # s
      BY <1>1, <1>2, <2>1, <3>1, <3>2
    <3>3. CASE r = s /\ t = id /\ v = u
      BY <1>0, <1>1, <1>11, <2>1, <3>3, ImportAppendFacts
    <3>4. CASE r = s /\ <<t, v>> # <<id, u>>
      BY <1>0, <1>1, <1>11, <2>1, <3>4, ImportAppendFacts
    <3>5. QED
      BY <3>2, <3>3, <3>4
  <2>3. QED
    BY <2>2
<1>12. ASSUME ImportDone(s) PROVE Balanced
  <2>1. OtherSlots(s) /\ UNCHANGED records
    BY <1>0, <1>12, SlotDoneFacts DEF ImportDone, vars
  <2>2. \A id \in Task, u \in Status : ToAppend(s, id, u) = 0
    BY <1>12 DEF ImportDone, ToAppend, NoRecords
  <2>3. \A id \in Task, u \in Status : ToAppend(s, id, u)' >= ToAppend(s, id, u)
    BY <1>1, <2>2
  <2>4. QED
    BY <1>3, <2>1, <2>3
<1>13. Balanced
  BY <1>5, <1>6, <1>7, <1>8, <1>9, <1>10, <1>11, <1>12 DEF SnapshotStep
<1>14. QED
  BY <1>0, <1>13, BalancedAccounts

(***************************************************************************)
(* The invariant: whoever has a task's state or budget in hand, be it the  *)
(* store, UpdateCron, RecordResult, an Import, an Export or a snapshot,    *)
(* has the records to show for it.                                         *)
(***************************************************************************)
SettledOK == \A id \in Task : Settled(id) >= 0

\* A success about to be applied is on record.
SucceedingOK ==
  \A e \in Executor :
    ex[e].pc = "apply" /\ ex[e].status = "success" => records[ex[e].task]["success"] > 0

TasksShown == \A id \in Task : Shown(id, tasks[id].state, tasks[id].retriesLeft)

CopiesShown ==
  \A c \in Client, id \in Task :
    cl[c].pc = "save" /\ cl[c].task = id => Shown(id, cl[c].state, cl[c].retries)

SeenShown ==
  \A e \in Executor, id \in Task :
    ex[e].pc \in {"check", "apply"} /\ ex[e].task = id =>
      \E s \in Slot : Failures(id)[s] >= MaxRetries - ex[e].left

\* What Import has still to save, its own list of records vouches for.
SavesIn(s) ==
  sn[s].pc = "save" =>
    \A id \in Task : Vouch(sn[s].records[id]["failure"], sn[s].records[id]["success"],
                           sn[s].tasks[id].state, sn[s].tasks[id].retriesLeft)

SavesShown == \A s \in Slot : SavesIn(s)

\* Export lists the tasks first: what it has seen of a task whose records it has
\* still to list, the records of the store vouch for.
ListedIn(s) ==
  sn[s].pc = "collect" /\ sn[s].whole =>
    \A id \in Task :
      IF id \in sn[s].todo
      THEN Vouch(records[id]["failure"], records[id]["success"],
                 sn[s].tasks[id].state, sn[s].tasks[id].retriesLeft)
      ELSE Vouch(sn[s].records[id]["failure"], sn[s].records[id]["success"],
                 sn[s].tasks[id].state, sn[s].tasks[id].retriesLeft)

ListedShown == \A s \in Slot : ListedIn(s)

FilesShown ==
  \A file \in files : file.whole =>
    \A id \in Task : Vouch(file.records[id]["failure"], file.records[id]["success"],
                           file.tasks[id].state, file.tasks[id].retriesLeft)

AllShown == TasksShown /\ CopiesShown /\ SeenShown /\ SavesShown

HistoryInv ==
  /\ StoreInv /\ SettledOK /\ SucceedingOK /\ ListedShown /\ FilesShown
  /\ ~torn => AllShown

\* The accounts of a task that is not touched keep showing what it says.
LEMMA OthersShown ==
  ASSUME StoreInv, StoreInv', AccountsGrow, TasksShown, NEW id \in Task,
         Others(id), SomeVouch(Failures(id)', Successes(id)', tasks'[id].state, tasks'[id].retriesLeft)
  PROVE  TasksShown'
<1>1. ASSUME NEW t \in Task
      PROVE  SomeVouch(Failures(t)', Successes(t)', tasks'[t].state, tasks'[t].retriesLeft)
  <2>1. CASE t = id
    BY <2>1
  <2>2. CASE t # id
    <3>1. tasks'[t] = tasks[t] /\ tasks[t].retriesLeft \in Nat
      BY <2>2 DEF Others, StoreInv, SnapTypeInv, TypeInv, StoreOK, TaskRec
    <3>2. Shown(t, tasks[t].state, tasks[t].retriesLeft)
      BY DEF TasksShown
    <3>3. QED
      BY <3>1, <3>2, StaysShown
  <2>3. QED
    BY <2>1, <2>2
<1>2. QED
  BY <1>1 DEF TasksShown, Shown, SomeVouch

\* A task with its whole budget needs no record to be shown, unless it is dead or
\* has succeeded.
LEMMA FullBudgetShown ==
  ASSUME StoreInv', SettledOK', NEW id \in Task, NEW state, state \notin {"dead", "succeeded"}
  PROVE  SomeVouch(Failures(id)', Successes(id)', state, MaxRetries)
<1>1. PICK s \in Slot : TRUE
  BY SnapshotAssumption
<1>2. Failures(id)'[s] = Settled(id)' + ToAppend(s, id, "failure")'
  BY StoreVouchesNext
<1>3. Settled(id)' \in Int /\ Settled(id)' >= 0 /\ ToAppend(s, id, "failure")' \in Nat
  BY AccountsTypeNext DEF AccountsOK, SettledOK, Status
<1>4. Failures(id)'[s] >= MaxRetries - MaxRetries
  BY <1>2, <1>3, ModelAssumption
<1>5. QED
  BY <1>4 DEF SomeVouch

\* A quiet step leaves every task shown.
LEMMA QuietShown ==
  ASSUME StoreInv, StoreInv', AccountsGrow, SettledOK', TasksShown, Quiet
  PROVE  TasksShown'
<1>1. ASSUME NEW id \in Task
      PROVE  SomeVouch(Failures(id)', Successes(id)', tasks'[id].state, tasks'[id].retriesLeft)
  <2>1. CASE /\ tasks'[id].retriesLeft = tasks[id].retriesLeft
             /\ tasks'[id].state \in {"dead", "succeeded"} => tasks'[id].state = tasks[id].state
    <3>1. tasks[id].retriesLeft \in Nat /\ Shown(id, tasks[id].state, tasks[id].retriesLeft)
      BY DEF TasksShown, StoreInv, SnapTypeInv, TypeInv, StoreOK, TaskRec
    <3>2. SomeVouch(Failures(id)', Successes(id)', tasks[id].state, tasks[id].retriesLeft)
      BY <3>1, StaysShown
    <3>3. QED
      BY <2>1, <3>2 DEF SomeVouch
  <2>2. CASE tasks'[id].retriesLeft = MaxRetries /\ tasks'[id].state = "pending"
    <3>1. SomeVouch(Failures(id)', Successes(id)', "pending", MaxRetries)
      BY FullBudgetShown
    <3>2. QED
      BY <2>2, <3>1
  <2>3. QED
    BY <2>1, <2>2 DEF Quiet
<1>2. QED
  BY <1>1 DEF TasksShown, Shown, SomeVouch

\* RecordResult applies what the records show: a retry or a death is paid for by
\* the failure that is settled in the same step.
LEMMA ApplyShown ==
  ASSUME HistoryInv, StoreInv', AccountsGrow, AllShown, NEW e \in Executor, ExecutorRuns(e),
         ApplyResult(e), UNCHANGED sn
  PROVE  TasksShown'
<1>0. /\ TypeInv /\ StoreOK /\ ExecutorsOK /\ StoreInv /\ TasksShown
  BY DEF HistoryInv, StoreInv, SnapTypeInv, TypeInv, AllShown
<1>1. ex[e].pc = "apply" /\ ex[e].task \in Task /\ ex[e].left \in Nat /\ UNCHANGED records
  BY <1>0, ApplyFacts DEF ExecutorsOK, ExecutorLocal
<1> PICK t \in Task : t = ex[e].task
  BY <1>1
<1> DEFINE f == Failures(t)
           g == Failures(t)'
           h == Successes(t)'
<1>2. /\ f \in [Slot -> Int] /\ g \in [Slot -> Int] /\ h \in [Slot -> Int]
      /\ tasks[t].retriesLeft \in Nat
  BY <1>0, AccountsType, AccountsTypeNext DEF AccountsOK, StoreOK, TaskRec
<1>3. ASSUME ex[e].status = "failure", NEW s \in Slot PROVE g[s] = f[s] + 1
  <2>1. Settled(t)' = Settled(t) + 1
    BY <1>0, <1>3, ApplySettles
  <2>2. ToAppend(s, t, "failure")' = ToAppend(s, t, "failure") /\ ToAppend(s, t, "failure") \in Nat
    BY <1>0, AccountsType DEF ToAppend, Importing, AccountsOK, Status
  <2>3. Settled(t) \in Int
    BY <1>0, AccountsType DEF AccountsOK
  <2>4. QED
    BY <1>0, <2>1, <2>2, <2>3, StoreVouches, StoreVouchesNext
<1>4. ASSUME ex[e].status = "success" PROVE \E s \in Slot : h[s] > 0
  <2>1. records[t]["success"] > 0
    BY <1>1, <1>4 DEF HistoryInv, SucceedingOK
  <2>2. PICK s \in Slot : TRUE
    BY SnapshotAssumption
  <2>3. records'[t]["success"] \in Nat /\ ToAppend(s, t, "success")' \in Nat
    BY AccountsTypeNext DEF AccountsOK, Status
  <2>4. h[s] = records'[t]["success"] + ToAppend(s, t, "success")'
    BY StoreVouchesNext
  <2>5. h[s] > 0
    BY <1>1, <2>1, <2>3, <2>4
  <2>6. QED
    BY <2>5
<1>5. SomeVouch(g, h, tasks[t].state, tasks[t].retriesLeft)
  BY <1>0, <1>2, StaysShown DEF TasksShown
<1>6. \E s \in Slot : f[s] >= MaxRetries - tasks[t].retriesLeft
  BY <1>0 DEF TasksShown, Shown, SomeVouch
<1>7. \E s \in Slot : f[s] >= MaxRetries - ex[e].left
  BY <1>1 DEF AllShown, SeenShown
<1> HIDE DEF f, g, h
<1>8. CASE UNCHANGED tasks
  <2>1. Others(t) /\ SomeVouch(g, h, tasks'[t].state, tasks'[t].retriesLeft)
    BY <1>5, <1>8 DEF Others
  <2>2. QED
    BY <1>0, <2>1, OthersShown DEF g, h
<1>9. CASE ex[e].status = "success" /\ Enter(t, "succeeded")
  <2>1. /\ tasks'[t].state = "succeeded" /\ tasks'[t].retriesLeft = tasks[t].retriesLeft
        /\ Others(t)
    BY <1>0, <1>9, EnterFacts
  <2>2. SomeVouch(g, h, tasks'[t].state, tasks'[t].retriesLeft)
    BY <1>4, <1>5, <1>9, <2>1 DEF SomeVouch
  <2>3. QED
    BY <1>0, <2>1, <2>2, OthersShown DEF g, h
<1>10. CASE ex[e].status = "failure" /\ ex[e].left <= 0 /\ Enter(t, "dead")
  <2>1. /\ tasks'[t].state = "dead" /\ tasks'[t].retriesLeft = tasks[t].retriesLeft
        /\ Others(t)
    BY <1>0, <1>10, EnterFacts
  <2>2. PICK s \in Slot : f[s] >= MaxRetries - ex[e].left
    BY <1>7
  <2>3. g[s] > MaxRetries
    BY <1>1, <1>2, <1>3, <1>10, <2>2, ModelAssumption
  <2>4. SomeVouch(g, h, tasks'[t].state, tasks'[t].retriesLeft)
    BY <1>5, <2>1, <2>3 DEF SomeVouch
  <2>5. QED
    BY <1>0, <2>1, <2>4, OthersShown DEF g, h
<1>11. CASE ex[e].status = "failure" /\ Retry(t, ex[e].now + RetryDelay, ex[e].seen)
  <2>1. /\ tasks'[t].state = "ready" /\ tasks'[t].retriesLeft = tasks[t].retriesLeft - 1
        /\ Others(t)
    BY <1>0, <1>11, RetryFacts
  <2>2. PICK s \in Slot : f[s] >= MaxRetries - tasks[t].retriesLeft
    BY <1>6
  <2>3. g[s] >= MaxRetries - tasks'[t].retriesLeft
    BY <1>2, <1>3, <1>11, <2>1, <2>2, ModelAssumption
  <2>4. SomeVouch(g, h, tasks'[t].state, tasks'[t].retriesLeft)
    BY <2>1, <2>3 DEF SomeVouch
  <2>5. QED
    BY <1>0, <2>1, <2>4, OthersShown DEF g, h
<1>12. QED
  BY <1>0, <1>8, <1>9, <1>10, <1>11, ApplyFacts

\* TaskStore.Save of a copy that is shown leaves every task shown: it writes the
\* copy's budget over the task's, and its state where there is no task.
LEMMA SaveShown ==
  ASSUME StoreInv, StoreInv', AccountsGrow, TasksShown, NEW id \in Task, NEW state,
         NEW retries \in Nat, NEW at, SomeVouch(Failures(id)', Successes(id)', state, retries),
         Overwrite(id, retries, at) \/ InsertCopy(id, state, retries, at)
  PROVE  TasksShown'
<1>0. StoreOK
  BY DEF StoreInv, SnapTypeInv, TypeInv
<1>1. CASE Overwrite(id, retries, at)
  <2>1. tasks'[id].state = tasks[id].state /\ tasks'[id].retriesLeft = retries /\ Others(id)
    BY <1>0, <1>1, OverwriteFacts
  <2>2. tasks[id].retriesLeft \in Nat /\ Shown(id, tasks[id].state, tasks[id].retriesLeft)
    BY <1>0 DEF TasksShown, StoreOK, TaskRec
  <2>3. SomeVouch(Failures(id)', Successes(id)', tasks[id].state, tasks[id].retriesLeft)
    BY <2>2, StaysShown
  <2>4. SomeVouch(Failures(id)', Successes(id)', tasks'[id].state, tasks'[id].retriesLeft)
    BY <2>1, <2>3 DEF SomeVouch
  <2>5. QED
    BY <2>1, <2>4, OthersShown
<1>2. CASE InsertCopy(id, state, retries, at)
  <2>1. tasks'[id].state = state /\ tasks'[id].retriesLeft = retries /\ Others(id)
    BY <1>0, <1>2, InsertCopyFacts
  <2>2. QED
    BY <2>1, OthersShown
<1>3. QED
  BY <1>1, <1>2

\* What every step of the service, and every stutter, has to go by.
LEMMA ServiceFacts ==
  ASSUME HistoryInv, ServiceRuns \/ UNCHANGED <<vars, snapVars>>
  PROVE  /\ StoreInv /\ StoreInv' /\ TypeInv /\ [Next]_vars /\ AccountsGrow
         /\ UNCHANGED <<sn, files, torn>> /\ RecordsGrow /\ SettledOK'
<1>1. /\ StoreInv /\ StoreInv' /\ TypeInv /\ [Next]_vars /\ UNCHANGED <<sn, files, torn>>
      /\ AccountsGrow
  BY ServiceStep, ServiceAccounts DEF HistoryInv, StoreInv, SnapTypeInv
<1>2. RecordsGrow /\ SettledGrows
  BY <1>1, SettledStep, RecordsStep
<1>3. \A id \in Task : Settled(id) \in Int /\ Settled(id)' \in Int
  BY <1>1, AccountsType, AccountsTypeNext DEF AccountsOK
<1>4. SettledOK'
  BY <1>2, <1>3 DEF HistoryInv, SettledOK, SettledGrows
<1>5. QED
  BY <1>1, <1>2, <1>4

\* While it runs, the service leaves every task shown.
LEMMA ServiceTasks ==
  ASSUME HistoryInv, AllShown, ServiceRuns \/ UNCHANGED <<vars, snapVars>>
  PROVE  TasksShown'
<1>1. /\ StoreInv /\ StoreInv' /\ TypeInv /\ [Next]_vars /\ AccountsGrow /\ SettledOK'
      /\ UNCHANGED <<sn, files>> /\ TasksShown
  BY ServiceFacts DEF AllShown
<1>2. ASSUME Quiet PROVE TasksShown'
  BY <1>1, <1>2, QuietShown
<1>3. ASSUME UNCHANGED tasks PROVE Quiet
  BY <1>3 DEF Quiet
<1>4. ASSUME NEW e \in Executor, ExecutorRuns(e) PROVE TasksShown'
  BY <1>1, <1>2, <1>4, ExecutorQuiet, ApplyShown
<1>5. ASSUME NEW c \in Client, RequestArrives(c) \/ HandlerRuns(c) PROVE TasksShown'
  <2>1. CASE CronSave(c)
    <3>1. /\ cl[c].pc = "save" /\ cl[c].task \in Task /\ cl[c].retries \in Nat
      BY <1>1, <2>1 DEF CronSave, TypeInv, ClientsOK, ClientLocal, WorkerPc
    <3> PICK t \in Task : t = cl[c].task
      BY <3>1
    <3>2. Shown(t, cl[c].state, cl[c].retries)
      BY <3>1 DEF AllShown, CopiesShown
    <3>3. SomeVouch(Failures(t)', Successes(t)', cl[c].state, cl[c].retries)
      BY <1>1, <3>1, <3>2, StaysShown
    <3>4. CASE UNCHANGED tasks
      BY <1>2, <1>3, <3>4
    <3>5. CASE \/ Overwrite(t, cl[c].retries, cl[c].at)
               \/ InsertCopy(t, cl[c].state, cl[c].retries, cl[c].at)
      BY <1>1, <3>1, <3>3, <3>5, SaveShown
    <3>6. QED
      BY <2>1, <3>4, <3>5 DEF CronSave
  <2>2. QED
    BY <1>1, <1>2, <1>5, <2>1, ClientQuiet
<1>6. QED
  BY <1>1, <1>2, <1>3, <1>4, <1>5, TickerQuiet DEF Next, vars, TimePasses, WorkerBeats

\* UpdateCron reads what is shown, and it stays shown until it is saved back.
LEMMA ServiceCopies ==
  ASSUME HistoryInv, AllShown, ServiceRuns \/ UNCHANGED <<vars, snapVars>>
  PROVE  CopiesShown'
<1>1. /\ StoreInv /\ StoreInv' /\ TypeInv /\ [Next]_vars /\ AccountsGrow
      /\ ClientsOK /\ StoreOK /\ TasksShown /\ CopiesShown
  BY ServiceFacts DEF AllShown, TypeInv
<1> DEFINE Good(d) == \A id \in Task : cl'[d].pc = "save" /\ cl'[d].task = id =>
             SomeVouch(Failures(id)', Successes(id)', cl'[d].state, cl'[d].retries)
<1>2. ASSUME NEW d \in Client, cl'[d] = cl[d] PROVE Good(d)
  <2>1. ASSUME NEW id \in Task, cl[d].pc = "save", cl[d].task = id
        PROVE  SomeVouch(Failures(id)', Successes(id)', cl[d].state, cl[d].retries)
    <3>1. cl[d].retries \in Nat /\ Shown(id, cl[d].state, cl[d].retries)
      BY <1>1, <2>1 DEF ClientsOK, ClientLocal, CopiesShown
    <3>2. QED
      BY <1>1, <3>1, StaysShown
  <2>2. QED
    BY <1>2, <2>1
<1>3. ASSUME \A d \in Client : Good(d) PROVE CopiesShown'
  BY <1>3 DEF CopiesShown, Shown, SomeVouch
<1>4. CASE UNCHANGED cl
  BY <1>2, <1>3, <1>4
<1>5. ASSUME NEW c \in Client, RequestArrives(c) \/ HandlerRuns(c) PROVE CopiesShown'
  <2>1. \A d \in Client \ {c} : cl'[d] = cl[d]
    BY <1>1, <1>5, ClientAlone DEF RequestArrives, HandlerRuns
  <2>2. ASSUME NEW id \in Task, cl'[c].pc = "save", cl'[c].task = id
        PROVE  SomeVouch(Failures(id)', Successes(id)', cl'[c].state, cl'[c].retries)
    <3>1. cl'[c].retries = tasks[id].retriesLeft /\ cl'[c].state = tasks[id].state
      BY <1>1, <1>5, <2>2, RequestFacts, HandleFacts, ModelAssumption
         DEF RequestArrives, HandlerRuns
    <3>2. tasks[id].retriesLeft \in Nat /\ Shown(id, tasks[id].state, tasks[id].retriesLeft)
      BY <1>1 DEF TasksShown, StoreOK, TaskRec
    <3>3. SomeVouch(Failures(id)', Successes(id)', tasks[id].state, tasks[id].retriesLeft)
      BY <1>1, <3>2, StaysShown
    <3>4. QED
      BY <3>1, <3>3
  <2>3. Good(c)
    BY <2>2
  <2>4. QED
    BY <1>2, <1>3, <2>1, <2>3
<1>6. QED
  BY <1>1, <1>4, <1>5 DEF Next, vars, TimePasses, WorkerBeats, TickerRuns, ExecutorRuns

\* Accounts that grow stay high enough for a budget.
LEMMA EnoughStays ==
  ASSUME StoreInv, StoreInv', AccountsGrow, NEW id \in Task, NEW left \in Nat,
         \E s \in Slot : Failures(id)[s] >= MaxRetries - left
  PROVE  \E s \in Slot : Failures(id)'[s] >= MaxRetries - left
<1> DEFINE f == Failures(id)
           g == Failures(id)'
<1>1. /\ f \in [Slot -> Int] /\ g \in [Slot -> Int] /\ Grow(g, f)
  BY AccountsType, AccountsTypeNext DEF AccountsOK, AccountsGrow
<1>2. \E s \in Slot : f[s] >= MaxRetries - left
  OBVIOUS
<1> HIDE DEF f, g
<1>3. \E s \in Slot : g[s] >= MaxRetries - left
  BY <1>1, <1>2, ModelAssumption DEF Grow
<1>4. QED
  BY <1>3 DEF g

\* RecordResult reads a budget that is shown, and keeps it until it has decided.
LEMMA ServiceSeen ==
  ASSUME HistoryInv, AllShown, ServiceRuns \/ UNCHANGED <<vars, snapVars>>
  PROVE  SeenShown'
<1>1. /\ StoreInv /\ StoreInv' /\ TypeInv /\ [Next]_vars /\ AccountsGrow
      /\ ExecutorsOK /\ StoreOK /\ TasksShown /\ SeenShown
  BY ServiceFacts DEF AllShown, TypeInv
<1> DEFINE Good(f) == \A id \in Task : ex'[f].pc \in {"check", "apply"} /\ ex'[f].task = id =>
             \E s \in Slot : Failures(id)'[s] >= MaxRetries - ex'[f].left
<1>2. ASSUME NEW f \in Executor, ex[f].pc \in {"check", "apply"},
             ex'[f].task = ex[f].task, ex'[f].left = ex[f].left
      PROVE  Good(f)
  <2>1. ex[f].left \in Nat
    BY <1>1 DEF ExecutorsOK, ExecutorLocal
  <2>2. ASSUME NEW id \in Task, ex[f].task = id
        PROVE  \E s \in Slot : Failures(id)'[s] >= MaxRetries - ex[f].left
    <3>1. \E s \in Slot : Failures(id)[s] >= MaxRetries - ex[f].left
      BY <1>1, <1>2, <2>2 DEF SeenShown
    <3>2. QED
      BY <1>1, <2>1, <3>1, EnoughStays
  <2>3. QED
    BY <1>2, <2>2
<1>3. ASSUME NEW f \in Executor, ex'[f] = ex[f] PROVE Good(f)
  BY <1>2, <1>3
<1>4. ASSUME \A f \in Executor : Good(f) PROVE SeenShown'
  BY <1>4 DEF SeenShown
<1>5. CASE UNCHANGED ex
  BY <1>3, <1>4, <1>5
<1>6. ASSUME NEW e \in Executor, ExecutorRuns(e) PROVE SeenShown'
  <2>1. ExecutorStep(e) /\ \A f \in Executor \ {e} : ex'[f] = ex[f]
    BY <1>1, <1>6, ExecutorAlone DEF ExecutorRuns
  <2>2. CASE ex'[e].pc \notin {"check", "apply"}
    BY <1>3, <1>4, <2>1, <2>2
  <2>3. CASE Finish(e) /\ ex'[e].pc = "check"
    <3>1. ex'[e].left = tasks[ex[e].task].retriesLeft /\ ex'[e].task = ex[e].task
      BY <1>1, <2>3, FinishFacts DEF Carries
    <3>2. ASSUME NEW id \in Task, ex'[e].task = id
          PROVE  \E s \in Slot : Failures(id)'[s] >= MaxRetries - ex'[e].left
      <4>1. /\ \E s \in Slot : Failures(id)[s] >= MaxRetries - tasks[id].retriesLeft
            /\ tasks[id].retriesLeft \in Nat
        BY <1>1 DEF TasksShown, Shown, SomeVouch, StoreOK, TaskRec
      <4>2. \E s \in Slot : Failures(id)'[s] >= MaxRetries - tasks[id].retriesLeft
        BY <1>1, <4>1, EnoughStays
      <4>3. QED
        BY <3>1, <3>2, <4>2
    <3>3. QED
      BY <1>3, <1>4, <2>1, <3>2
  <2>4. CASE CheckLease(e) /\ ex'[e].pc = "apply"
    <3>1. ex[e].pc = "check" /\ ex'[e].left = ex[e].left /\ ex'[e].task = ex[e].task
      BY <1>1, <2>4, CheckFacts DEF Carries
    <3>2. QED
      BY <1>2, <1>3, <1>4, <2>1, <3>1
  <2>5. ex'[e].pc = "check" => Finish(e)
    BY <1>1, <2>1, IdleFacts, ReleaseFacts, PopFacts, TakeFacts, BindFacts, PickFailsFacts,
       CheckFacts, ApplyFacts DEF ExecutorStep, PopNothing, Repush, ScheduleRetry, ReleaseLease
  <2>6. QED
    BY <1>1, <2>1, <2>2, <2>3, <2>4, <2>5, ApplyingFacts
<1>7. QED
  BY <1>1, <1>5, <1>6 DEF Next, vars, TimePasses, WorkerBeats, TickerRuns, RequestArrives, HandlerRuns


\* CheckLease records a success before it is applied; none is taken back.
LEMMA ServiceSucceeding ==
  ASSUME HistoryInv, ServiceRuns \/ UNCHANGED <<vars, snapVars>>
  PROVE  SucceedingOK'
<1>1. /\ TypeInv /\ [Next]_vars /\ ExecutorsOK /\ RecordsOK /\ StoreInv'
      /\ SucceedingOK
  BY ServiceFacts DEF HistoryInv, TypeInv
<1>2. \A id \in Task :
        /\ records[id]["success"] \in Nat /\ records'[id]["success"] \in Nat
        /\ records'[id]["success"] >= records[id]["success"]
  BY <1>1, AccountsType, AccountsTypeNext, ServiceFacts DEF HistoryInv, AccountsOK, RecordsGrow, Status
<1> DEFINE Good(f) == ex'[f].pc = "apply" /\ ex'[f].status = "success" =>
             records'[ex'[f].task]["success"] > 0
<1>3. ASSUME NEW f \in Executor, ex'[f] = ex[f] PROVE Good(f)
  <2> SUFFICES ASSUME ex[f].pc = "apply", ex[f].status = "success"
               PROVE  records'[ex[f].task]["success"] > 0
    BY <1>3
  <2>1. ex[f].task \in Task /\ records[ex[f].task]["success"] > 0
    BY <1>1 DEF SucceedingOK, ExecutorsOK
  <2>2. QED
    BY <1>2, <2>1
<1>4. ASSUME \A f \in Executor : Good(f) PROVE SucceedingOK'
  BY <1>4 DEF SucceedingOK
<1>5. CASE UNCHANGED ex
  BY <1>3, <1>4, <1>5
<1>6. ASSUME NEW e \in Executor, ExecutorRuns(e) PROVE SucceedingOK'
  <2>1. ExecutorStep(e) /\ \A f \in Executor \ {e} : ex'[f] = ex[f]
    BY <1>1, <1>6, ExecutorAlone DEF ExecutorRuns
  <2>2. ASSUME ex'[e].pc = "apply", ex'[e].status = "success"
        PROVE  records'[ex'[e].task]["success"] > 0
    <3>1. CheckLease(e)
      BY <1>1, <2>1, <2>2, ApplyingFacts
    <3>2. /\ ex[e].task \in Task /\ ex'[e].task = ex[e].task
          /\ records' = [records EXCEPT ![ex[e].task]["success"] = @ + 1]
      <4>1. /\ ex[e].task \in Task /\ ex'[e].task = ex[e].task /\ ex'[e].status = ex[e].status
            /\ records' = [records EXCEPT ![ex[e].task][ex[e].status] = @ + 1]
        BY <1>1, <2>2, <3>1, CheckFacts DEF Carries
      <4>2. ex[e].status = "success"
        BY <2>2, <4>1
      <4>3. QED
        BY <4>1, <4>2
    <3>3. records'[ex[e].task]["success"] = records[ex[e].task]["success"] + 1
      BY <1>1, <3>2 DEF RecordsOK, Status
    <3>4. QED
      BY <1>2, <3>2, <3>3
  <2>3. QED
    BY <1>3, <1>4, <2>1, <2>2
<1>7. QED
  BY <1>1, <1>5, <1>6 DEF Next, vars, TimePasses, WorkerBeats, TickerRuns, RequestArrives, HandlerRuns

\* More records of the store vouch for no less.
LEMMA RecordsVouchMore ==
  ASSUME NEW f \in Nat, NEW g \in Nat, NEW s \in Nat, NEW t \in Nat, NEW state,
         NEW retries \in Nat, f <= g, s <= t, Vouch(f, s, state, retries)
  PROVE  Vouch(g, t, state, retries)
BY ModelAssumption DEF Vouch

\* What Export has listed stays shown, and what Import has to save, as long as the
\* store loses no record.
LEMMA ListedStays ==
  ASSUME StoreInv, StoreInv', RecordsGrow, NEW s \in Slot, sn'[s] = sn[s]
  PROVE  (ListedIn(s) => ListedIn(s)') /\ (SavesIn(s) => SavesIn(s)')
<1>1. SavesIn(s) => SavesIn(s)'
  BY DEF SavesIn, Vouch
<1>2. ASSUME ListedIn(s), sn[s].pc = "collect", sn[s].whole, NEW id \in Task, id \in sn[s].todo
      PROVE  Vouch(records'[id]["failure"], records'[id]["success"],
                   sn[s].tasks[id].state, sn[s].tasks[id].retriesLeft)
  <2>1. sn[s].tasks[id].retriesLeft \in Nat
    BY DEF StoreInv, SnapTypeInv, SnapshotOK, SnapshotLocal, TaskRec
  <2>2. /\ records[id]["failure"] \in Nat /\ records'[id]["failure"] \in Nat
        /\ records[id]["success"] \in Nat /\ records'[id]["success"] \in Nat
        /\ records'[id]["failure"] >= records[id]["failure"]
        /\ records'[id]["success"] >= records[id]["success"]
    BY AccountsType, AccountsTypeNext DEF AccountsOK, RecordsGrow, Status
  <2>3. Vouch(records[id]["failure"], records[id]["success"],
              sn[s].tasks[id].state, sn[s].tasks[id].retriesLeft)
    BY <1>2 DEF ListedIn
  <2>4. QED
    BY <2>1, <2>2, <2>3, RecordsVouchMore
<1>3. ListedIn(s) => ListedIn(s)'
  BY <1>2 DEF ListedIn, Vouch
<1>4. QED
  BY <1>1, <1>3

\* A step of the service preserves the invariant.
LEMMA ServiceHistory ==
  ASSUME HistoryInv, ServiceRuns \/ UNCHANGED <<vars, snapVars>>
  PROVE  HistoryInv'
<1>1. /\ StoreInv /\ StoreInv' /\ AccountsGrow /\ SettledOK' /\ UNCHANGED <<sn, files, torn>>
      /\ RecordsGrow
  BY ServiceFacts
<1>2. FilesShown'
  BY <1>1 DEF HistoryInv, FilesShown, Vouch
<1>3. ListedShown'
  BY <1>1, ListedStays DEF HistoryInv, ListedShown
<1>4. ASSUME AllShown PROVE AllShown'
  <2>1. SavesShown'
    BY <1>1, <1>4, ListedStays DEF AllShown, SavesShown
  <2>2. QED
    BY <1>4, <2>1, ServiceTasks, ServiceCopies, ServiceSeen DEF AllShown
<1>5. QED
  BY <1>1, <1>2, <1>3, <1>4, ServiceSucceeding DEF HistoryInv


\* What every step of a snapshot handler has to go by.  No handler takes a record
\* out of the store, and no result is recorded or applied meanwhile.
LEMMA SnapshotFacts ==
  ASSUME HistoryInv, NEW s \in Slot, SnapshotStep(s)
  PROVE  /\ StoreInv /\ StoreInv' /\ UNCHANGED <<ex, cl>> /\ SettledOK' /\ SucceedingOK'
         /\ StoreOK /\ RecordsOK /\ SnapshotOK /\ TypeInv /\ RecordsGrow
<1>1. /\ StoreInv /\ StoreInv' /\ UNCHANGED <<ex, cl>> /\ StoreOK /\ RecordsOK /\ SnapshotOK
      /\ ExecutorsOK /\ TypeInv
  BY SnapshotStepType DEF HistoryInv, StoreInv, SnapTypeInv, TypeInv
<1>2. RecordsGrow
  <2>1. ASSUME UNCHANGED records PROVE RecordsGrow
    BY <1>1, <2>1 DEF RecordsGrow, RecordsOK
  <2>2. ASSUME NEW id \in Task, NEW v \in Status, ImportAppend(s, id, v) PROVE RecordsGrow
    <3>1. ASSUME NEW t \in Task, NEW u \in Status PROVE records'[t][u] >= records[t][u]
      <4>1. records[t][u] \in Nat
        BY <1>1 DEF RecordsOK
      <4>2. CASE t = id /\ u = v
        BY <1>1, <2>2, <4>1, <4>2, ImportAppendFacts
      <4>3. CASE <<t, u>> # <<id, v>>
        BY <1>1, <2>2, <4>1, <4>3, ImportAppendFacts
      <4>4. QED
        BY <4>2, <4>3
    <3>2. QED
      BY <3>1 DEF RecordsGrow
  <2>3. QED
    BY <2>1, <2>2 DEF SnapshotStep, ExportTasks, ExportRecords, ExportWrite, ImportReset,
       ImportSave, ImportRefused, ImportDone, vars
<1>3. \A id \in Task :
        /\ records[id]["failure"] \in Nat /\ records'[id]["failure"] \in Nat
        /\ records[id]["success"] \in Nat /\ records'[id]["success"] \in Nat
        /\ records'[id]["failure"] >= records[id]["failure"]
        /\ records'[id]["success"] >= records[id]["success"]
  BY <1>1, <1>2, AccountsType, AccountsTypeNext DEF AccountsOK, RecordsGrow, Status
<1>4. ASSUME NEW id \in Task PROVE Settled(id)' >= 0
  <2>1. Awaiting(id)' = Awaiting(id) /\ Cardinality(Awaiting(id)) \in Nat
    BY <1>1, AwaitingFinite DEF Awaiting
  <2>2. records[id]["failure"] - Cardinality(Awaiting(id)) >= 0
    BY DEF HistoryInv, SettledOK, Settled
  <2>3. QED
    BY <1>3, <2>1, <2>2 DEF Settled
<1>5. ASSUME NEW e \in Executor, ex[e].pc = "apply", ex[e].status = "success"
      PROVE  records'[ex[e].task]["success"] > 0
  <2>1. ex[e].task \in Task /\ records[ex[e].task]["success"] > 0
    BY <1>1, <1>5 DEF HistoryInv, SucceedingOK, ExecutorsOK
  <2>2. QED
    BY <1>3, <2>1
<1>6. SettledOK' /\ SucceedingOK'
  BY <1>1, <1>4, <1>5 DEF SettledOK, SucceedingOK
<1>7. QED
  BY <1>1, <1>2, <1>6

\* A copy that Import saves is shown by the records that it has still to append.
LEMMA RestoredShown ==
  ASSUME StoreInv, StoreInv', SettledOK', NEW s \in Slot, SavesIn(s), sn[s].pc = "save",
         NEW id \in Task, \A u \in Status : ToAppend(s, id, u)' = sn[s].records[id][u]
  PROVE  SomeVouch(Failures(id)', Successes(id)', sn[s].tasks[id].state,
                   sn[s].tasks[id].retriesLeft)
<1> DEFINE a == sn[s].records[id]["failure"]
           b == sn[s].records[id]["success"]
           f == Failures(id)'
           g == Successes(id)'
<1>1. a \in Nat /\ b \in Nat /\ sn[s].tasks[id].retriesLeft \in Nat
  BY DEF StoreInv, SnapTypeInv, SnapshotOK, SnapshotLocal, RecordTable, TaskRec, Status
<1>2. /\ Settled(id)' \in Int /\ Settled(id)' >= 0 /\ records'[id]["success"] \in Nat
      /\ f \in [Slot -> Int] /\ g \in [Slot -> Int]
  BY AccountsTypeNext DEF AccountsOK, SettledOK, Status
<1>3. f[s] = Settled(id)' + a /\ g[s] = records'[id]["success"] + b
  BY StoreVouchesNext DEF Status
<1>4. f[s] >= a /\ g[s] >= b
  BY <1>1, <1>2, <1>3
<1>5. Vouch(a, b, sn[s].tasks[id].state, sn[s].tasks[id].retriesLeft)
  BY DEF SavesIn
<1> HIDE DEF a, b, f, g
<1>6. SomeVouch(f, g, sn[s].tasks[id].state, sn[s].tasks[id].retriesLeft)
  BY <1>1, <1>2, <1>4, <1>5, OneVouches
<1>7. QED
  BY <1>6 DEF f, g

\* Reset empties the store, and Save puts copies back that their records show.
LEMMA SnapshotTasks ==
  ASSUME HistoryInv, AllShown, NEW s \in Slot, SnapshotStep(s), ~torn'
  PROVE  TasksShown'
<1>1. /\ StoreInv /\ StoreInv' /\ AccountsGrow /\ SettledOK' /\ TasksShown
      /\ StoreOK /\ SnapshotOK /\ Fresh /\ AbsentIsFull
  BY SnapshotFacts, SnapshotAccounts DEF AllShown, StoreInv
<1>2. ASSUME UNCHANGED tasks PROVE TasksShown'
  BY <1>1, <1>2, QuietShown DEF Quiet
<1>3. ASSUME NEW file \in files, ImportReset(s, file) PROVE TasksShown'
  <2>1. ASSUME NEW id \in Task
        PROVE  SomeVouch(Failures(id)', Successes(id)', tasks'[id].state, tasks'[id].retriesLeft)
    <3>1. tasks'[id].state \in Absent
      BY <1>1, <1>3, EmptiedFacts DEF Emptied, ImportReset
    <3>2. tasks'[id].retriesLeft = MaxRetries /\ tasks'[id].state \notin {"dead", "succeeded"}
      BY <1>1, <3>1 DEF StoreInv, AbsentIsFull, Absent
    <3>3. QED
      BY <1>1, <3>2, FullBudgetShown
  <2>2. QED
    BY <2>1 DEF TasksShown, Shown, SomeVouch
<1>4. ASSUME NEW id \in sn[s].todo, ImportSave(s, id) PROVE TasksShown'
  <2> DEFINE copy == sn[s].tasks[id]
  <2>1. id \in Task /\ copy \in TaskRec /\ sn[s].pc = "save"
    BY <1>1, <1>4, ImportSaveFacts
  <2>2. \A u \in Status : ToAppend(s, id, u)' = sn[s].records[id][u]
    BY <1>1, <1>4, ImportSaveFacts DEF ToAppend, Importing
  <2>3. copy.retriesLeft \in Nat /\ SavesIn(s)
    BY <2>1 DEF TaskRec, AllShown, SavesShown
  <2>4. SomeVouch(Failures(id)', Successes(id)', copy.state, copy.retriesLeft)
    BY <1>1, <2>1, <2>2, <2>3, RestoredShown
  <2>5. \/ Overwrite(id, copy.retriesLeft, copy.nextRunAt)
        \/ InsertCopy(id, copy.state, copy.retriesLeft, copy.nextRunAt)
    BY <1>4 DEF ImportSave
  <2> HIDE DEF copy
  <2>6. QED
    BY <1>1, <2>1, <2>3, <2>4, <2>5, SaveShown
<1>5. QED
  BY <1>2, <1>3, <1>4 DEF SnapshotStep, ExportTasks, ExportRecords, ExportWrite, ImportRefused,
     ImportAppend, ImportDone, vars


\* Export lists each task while the store shows it, and its records afterwards: no
\* Import is at work when it lists the tasks, and the store loses no record.
LEMMA SnapshotListed ==
  ASSUME HistoryInv, NEW s \in Slot, SnapshotStep(s)
  PROVE  ListedIn(s)'
<1>1. /\ StoreInv /\ StoreInv' /\ ListedIn(s)
      /\ StoreOK /\ RecordsOK /\ SnapshotOK /\ TypeInv /\ sn[s] \in SnapshotLocal
  BY SnapshotFacts DEF HistoryInv, ListedShown, SnapshotOK
<1>2. ASSUME sn'[s].pc # "collect" PROVE ListedIn(s)'
  BY <1>2 DEF ListedIn
<1>3. ASSUME ExportTasks(s), sn'[s].whole PROVE ListedIn(s)'
  <2>1. /\ sn'[s].todo = Present(tasks) /\ UNCHANGED records
        /\ ~torn /\ \A r \in Slot : ~Importing(r)
        /\ \A id \in Task :
             sn'[s].tasks[id] = IF id \in Present(tasks) THEN tasks[id] ELSE GoneTask
    BY <1>1, <1>3, ExportTasksFacts DEF OutOfStep, ExportTasks, vars
  <2>2. ASSUME NEW id \in Task, id \in sn'[s].todo
        PROVE  Vouch(records'[id]["failure"], records'[id]["success"],
                     sn'[s].tasks[id].state, sn'[s].tasks[id].retriesLeft)
    <3>1. sn'[s].tasks[id] = tasks[id] /\ tasks[id].retriesLeft \in Nat
      BY <1>1, <2>1, <2>2 DEF StoreOK, TaskRec
    <3>2. Shown(id, tasks[id].state, tasks[id].retriesLeft)
      BY <2>1 DEF HistoryInv, AllShown, TasksShown
    <3>3. Vouch(records[id]["failure"], records[id]["success"], tasks[id].state,
                tasks[id].retriesLeft)
      BY <1>1, <2>1, <3>1, <3>2, NothingToAppend
    <3>4. QED
      BY <2>1, <3>1, <3>3
  <2>3. ASSUME NEW id \in Task, id \notin sn'[s].todo
        PROVE  Vouch(sn'[s].records[id]["failure"], sn'[s].records[id]["success"],
                     sn'[s].tasks[id].state, sn'[s].tasks[id].retriesLeft)
    <3>1. sn'[s].tasks[id] = GoneTask
      BY <2>1, <2>3
    <3>2. sn'[s].records[id]["failure"] \in Nat
      BY <1>1 DEF StoreInv, SnapTypeInv, SnapshotOK, SnapshotLocal, RecordTable, Status
    <3>3. QED
      BY <3>1, <3>2, ModelAssumption DEF GoneTask, Vouch
  <2>4. QED
    BY <2>2, <2>3 DEF ListedIn, Vouch
<1>4. ASSUME NEW id \in sn[s].todo, ExportRecords(s, id), sn'[s].whole PROVE ListedIn(s)'
  <2>1. /\ sn[s].pc = "collect" /\ id \in Task /\ sn'[s].tasks = sn[s].tasks
        /\ sn'[s].todo = sn[s].todo \ {id} /\ sn[s].whole
        /\ sn'[s].records = [sn[s].records EXCEPT ![id] = records[id]]
    BY <1>1, <1>4, ExportRecordsFacts
  <2>2. UNCHANGED records
    BY <1>4 DEF ExportRecords, vars
  <2>3. ASSUME NEW t \in Task, t \in sn'[s].todo
        PROVE  Vouch(records'[t]["failure"], records'[t]["success"],
                     sn'[s].tasks[t].state, sn'[s].tasks[t].retriesLeft)
    BY <1>1, <2>1, <2>2, <2>3 DEF ListedIn
  <2>4. ASSUME NEW t \in Task, t \notin sn'[s].todo
        PROVE  Vouch(sn'[s].records[t]["failure"], sn'[s].records[t]["success"],
                     sn'[s].tasks[t].state, sn'[s].tasks[t].retriesLeft)
    <3>1. CASE t = id
      <4>1. sn'[s].records[id] = records[id]
        BY <1>1, <2>1 DEF SnapshotLocal, RecordTable
      <4>2. QED
        BY <1>1, <2>1, <3>1, <4>1 DEF ListedIn
    <3>2. CASE t # id
      <4>1. sn'[s].records[t] = sn[s].records[t] /\ t \notin sn[s].todo
        BY <1>1, <2>1, <2>4, <3>2 DEF SnapshotLocal, RecordTable
      <4>2. QED
        BY <1>1, <2>1, <4>1 DEF ListedIn
    <3>3. QED
      BY <3>1, <3>2
  <2>5. QED
    BY <2>3, <2>4 DEF ListedIn, Vouch
<1>5. ASSUME ~sn'[s].whole PROVE ListedIn(s)'
  BY <1>5 DEF ListedIn
<1>6. ASSUME NEW file \in files, ImportReset(s, file) PROVE ListedIn(s)'
  BY <1>1, <1>2, <1>6, ImportResetFacts
<1>7. ASSUME NEW id \in sn[s].todo, ImportSave(s, id) PROVE ListedIn(s)'
  BY <1>1, <1>2, <1>7, ImportSaveFacts
<1>8. ASSUME NEW id \in Task, NEW u \in Status, ImportAppend(s, id, u) PROVE ListedIn(s)'
  BY <1>1, <1>2, <1>8, ImportAppendFacts
<1>9. ASSUME SlotDone(s) PROVE ListedIn(s)'
  BY <1>1, <1>2, <1>9, SlotDoneFacts
<1>10. QED
  BY <1>3, <1>4, <1>5, <1>6, <1>7, <1>8, <1>9 DEF SnapshotStep, ExportWrite, ImportRefused,
     ImportDone

\* What Export writes shows what it says.
LEMMA SnapshotFilesShown ==
  ASSUME HistoryInv, NEW s \in Slot, SnapshotStep(s)
  PROVE  FilesShown'
<1>1. SnapshotOK /\ ListedIn(s) /\ FilesShown
  BY SnapshotFacts DEF HistoryInv, ListedShown
<1>2. CASE ExportWrite(s)
  <2>1. sn[s].pc = "collect" /\ sn[s].todo = {}
    BY <1>1, <1>2, ExportWriteFacts
  <2>2. ASSUME NEW file \in files', file.whole, NEW id \in Task
        PROVE  Vouch(file.records[id]["failure"], file.records[id]["success"],
                     file.tasks[id].state, file.tasks[id].retriesLeft)
    <3>1. CASE file \in files
      BY <1>1, <2>2, <3>1 DEF FilesShown
    <3>2. CASE file \notin files
      <4>1. /\ file.tasks = sn[s].tasks /\ file.records = sn[s].records
            /\ file.whole = sn[s].whole
        BY <1>1, <1>2, <2>2, <3>2, ExportWriteFacts
      <4>2. QED
        BY <1>1, <2>1, <2>2, <4>1 DEF ListedIn
    <3>3. QED
      BY <3>1, <3>2
  <2>3. QED
    BY <2>2 DEF FilesShown, Vouch
<1>3. CASE UNCHANGED files
  BY <1>1, <1>3 DEF FilesShown, Vouch
<1>4. QED
  BY <1>2, <1>3 DEF SnapshotStep, ExportTasks, ExportRecords, ImportReset, ImportSave,
     ImportRefused, ImportAppend, ImportDone

\* Import restores snapshots that show what they say, unless it is torn.
LEMMA SnapshotSaves ==
  ASSUME HistoryInv, AllShown, NEW s \in Slot, SnapshotStep(s), ~torn'
  PROVE  SavesIn(s)'
<1>1. SnapshotOK /\ RecordsOK /\ TypeInv /\ SavesIn(s) /\ FilesShown
  BY SnapshotFacts DEF HistoryInv, AllShown, SavesShown
<1>2. ASSUME sn'[s].pc # "save" PROVE SavesIn(s)'
  BY <1>2 DEF SavesIn
<1>3. CASE ExportTasks(s)
  BY <1>1, <1>2, <1>3, ExportTasksFacts
<1>4. ASSUME NEW id \in sn[s].todo, ExportRecords(s, id) PROVE SavesIn(s)'
  BY <1>1, <1>2, <1>4, ExportRecordsFacts
<1>5. ASSUME SlotDone(s) PROVE SavesIn(s)'
  BY <1>1, <1>2, <1>5, SlotDoneFacts
<1>6. ASSUME NEW file \in files, ImportReset(s, file) PROVE SavesIn(s)'
  <2>1. file.whole
    BY <1>6 DEF ImportReset, SnapshotFile, HistoryInv, StoreInv, SnapTypeInv, SnapshotOK
  <2>2. sn'[s].tasks = file.tasks /\ sn'[s].records = file.records
    BY <1>1, <1>6, ImportResetFacts
  <2>3. QED
    BY <1>1, <2>1, <2>2 DEF FilesShown, SavesIn, Vouch
<1>7. ASSUME NEW id \in sn[s].todo, ImportSave(s, id) PROVE SavesIn(s)'
  <2>1. sn[s].pc = "save" /\ sn'[s].tasks = sn[s].tasks /\ sn'[s].records = sn[s].records
    BY <1>1, <1>7, ImportSaveFacts
  <2>2. QED
    BY <1>1, <2>1 DEF SavesIn, Vouch
<1>8. ASSUME NEW id \in Task, NEW u \in Status, ImportAppend(s, id, u) PROVE SavesIn(s)'
  BY <1>1, <1>2, <1>8, ImportAppendFacts
<1>9. QED
  BY <1>3, <1>4, <1>5, <1>6, <1>7, <1>8 DEF SnapshotStep, ExportWrite, ImportRefused, ImportDone

\* A step of a snapshot handler preserves the invariant.
LEMMA SnapshotHistory ==
  ASSUME HistoryInv, NEW s \in Slot, SnapshotStep(s)
  PROVE  HistoryInv'
<1>1. /\ StoreInv /\ StoreInv' /\ UNCHANGED <<ex, cl>> /\ SettledOK' /\ SucceedingOK'
      /\ ClientsOK /\ ExecutorsOK /\ RecordsGrow /\ SnapshotOK /\ RecordsOK /\ TypeInv
  BY SnapshotFacts DEF StoreInv, SnapTypeInv, TypeInv
<1>2. OtherSlots(s)
  BY <1>1, ExportTasksFacts, ExportRecordsFacts, ImportResetFacts, ImportSaveFacts,
     ImportAppendFacts, SlotDoneFacts DEF SnapshotStep, ExportWrite, ImportRefused, ImportDone
<1>3. \A r \in Slot : (ListedIn(r) => ListedIn(r)' \/ r = s) /\ (SavesIn(r) => SavesIn(r)' \/ r = s)
  BY <1>1, <1>2, ListedStays DEF OtherSlots
<1>4. ListedShown'
  BY <1>3, SnapshotListed DEF HistoryInv, ListedShown
<1>5. FilesShown'
  BY SnapshotFilesShown
<1>6. ASSUME ~torn' PROVE AllShown'
  <2>1. AllShown /\ AccountsGrow
    BY <1>1, <1>6, SnapshotAccounts DEF HistoryInv, SnapshotStep, ExportTasks, ExportRecords,
       ExportWrite, ImportReset, ImportSave, ImportRefused, ImportAppend, ImportDone
  <2>2. CopiesShown'
    <3>1. ASSUME NEW c \in Client, NEW id \in Task, cl[c].pc = "save", cl[c].task = id
          PROVE  SomeVouch(Failures(id)', Successes(id)', cl[c].state, cl[c].retries)
      <4>1. cl[c].retries \in Nat /\ Shown(id, cl[c].state, cl[c].retries)
        BY <1>1, <2>1, <3>1 DEF AllShown, CopiesShown, ClientsOK, ClientLocal
      <4>2. QED
        BY <1>1, <2>1, <4>1, StaysShown
    <3>2. QED
      BY <1>1, <3>1 DEF CopiesShown, Shown, SomeVouch
  <2>3. SeenShown'
    <3>1. ASSUME NEW e \in Executor, NEW id \in Task, ex[e].pc \in {"check", "apply"},
                 ex[e].task = id
          PROVE  \E r \in Slot : Failures(id)'[r] >= MaxRetries - ex[e].left
      <4>1. ex[e].left \in Nat /\ \E r \in Slot : Failures(id)[r] >= MaxRetries - ex[e].left
        BY <1>1, <2>1, <3>1 DEF AllShown, SeenShown, ExecutorsOK, ExecutorLocal
      <4>2. QED
        BY <1>1, <2>1, <4>1, EnoughStays
    <3>2. QED
      BY <1>1, <3>1 DEF SeenShown
  <2>4. SavesShown'
    BY <1>3, <1>6, <2>1, SnapshotSaves DEF AllShown, SavesShown
  <2>5. QED
    BY <1>6, <2>1, <2>2, <2>3, <2>4, SnapshotTasks DEF AllShown
<1>7. QED
  BY <1>1, <1>4, <1>5, <1>6 DEF HistoryInv


\* The store empty, no record kept and nobody at work.
NothingLeft ==
  /\ \A s \in Slot : sn[s].pc = "idle"
  /\ \A id \in Task : tasks[id].state \in Absent /\ records[id]["failure"] = 0
  /\ \A e \in Executor : ex[e].pc = "idle"
  /\ \A c \in Client : cl[c].pc = "idle"

\* Then only the snapshots in the clients' hands are left to be shown.
LEMMA NothingToShow == StoreInv /\ FilesShown /\ NothingLeft => HistoryInv
<1> SUFFICES ASSUME StoreInv, FilesShown, NothingLeft PROVE HistoryInv
  OBVIOUS
<1>1. \A id \in Task : Settled(id) = 0
  <2>1. \A id \in Task : Awaiting(id) = {}
    BY DEF Awaiting, NothingLeft
  <2>2. \A id \in Task : Cardinality(Awaiting(id)) = 0 /\ records[id]["failure"] = 0
    BY <2>1, FS_EmptySet DEF NothingLeft
  <2>3. QED
    BY <2>2 DEF Settled
<1>2. SettledOK /\ SucceedingOK
  BY <1>1 DEF SettledOK, SucceedingOK, NothingLeft
<1>3. TasksShown
  <2>1. ASSUME NEW id \in Task PROVE Shown(id, tasks[id].state, tasks[id].retriesLeft)
    <3>1. PICK s \in Slot : TRUE
      BY SnapshotAssumption
    <3>2. Failures(id)[s] = 0
      BY <1>1, StoreVouches DEF ToAppend, Importing, NothingLeft
    <3>3. /\ tasks[id].retriesLeft = MaxRetries /\ tasks[id].state \notin {"dead", "succeeded"}
      BY DEF StoreInv, AbsentIsFull, NothingLeft, Absent
    <3>4. Failures(id)[s] >= MaxRetries - tasks[id].retriesLeft
      BY <3>2, <3>3, ModelAssumption
    <3>5. QED
      BY <3>3, <3>4 DEF Shown, SomeVouch
  <2>2. QED
    BY <2>1 DEF TasksShown
<1>4. CopiesShown /\ SeenShown /\ ListedShown /\ SavesShown
  BY DEF CopiesShown, SeenShown, ListedShown, ListedIn, SavesShown, SavesIn, NothingLeft
<1>5. QED
  BY <1>2, <1>3, <1>4 DEF HistoryInv, AllShown

\* And so it is after a step.
LEMMA NothingToShowNext == StoreInv' /\ FilesShown' /\ NothingLeft' => HistoryInv'
BY NothingToShow, PTL

\* The process is lost: the snapshots stay, and those that were whole still show
\* what they say.
LEMMA RestartHistory ==
  ASSUME HistoryInv, Restart
  PROVE  HistoryInv'
<1>1. TypeInv /\ Fresh /\ AbsentIsFull /\ StoreOK
  BY DEF HistoryInv, StoreInv, SnapTypeInv, TypeInv
<1>2. StoreInv'
  BY StoreInvStep DEF HistoryInv, SnapshotNext
<1>3. NothingLeft'
  <2>1. \A e \in Executor : ex'[e].pc = "idle"
    BY <1>1, RestartFacts
  <2>2. \A c \in Client : cl'[c].pc = "idle"
    BY <1>1, RestartFacts
  <2>3. \A id \in Task : tasks'[id].state \in Absent
    BY <1>1, RestartFacts, EmptiedFacts
  <2>4. records' = NoRecords /\ sn' = [s \in Slot |-> IdleSnapshot]
    BY DEF Restart
  <2>5. \A id \in Task : records'[id]["failure"] = 0
    BY <2>4 DEF NoRecords, Status
  <2>6. \A s \in Slot : sn'[s].pc = "idle"
    BY <2>4, IdleSnapshotFacts
  <2>7. QED
    BY <2>1, <2>2, <2>3, <2>5, <2>6 DEF NothingLeft
<1>4. FilesShown'
  BY DEF HistoryInv, Restart, FilesShown, Vouch
<1>5. QED
  BY <1>2, <1>3, <1>4, NothingToShowNext

\* No snapshot has been taken when the process first starts.
LEMMA HistoryInit == SnapshotInit => HistoryInv
<1> SUFFICES ASSUME SnapshotInit PROVE HistoryInv
  OBVIOUS
<1>1. NothingLeft
  <2>1. sn = [s \in Slot |-> IdleSnapshot] /\ InitStore /\ InitExecution /\ InitApi
    BY DEF SnapshotInit, Init
  <2>2. \A id \in Task : tasks[id].state \in Absent /\ records[id]["failure"] = 0
    BY <2>1 DEF InitStore, InitExecution, Status, Absent
  <2>3. \A e \in Executor : ex[e].pc = "idle"
    BY <2>1 DEF InitExecution, IdleExecutor
  <2>4. \A c \in Client : cl[c].pc = "idle"
    BY <2>1 DEF InitApi, IdleClient
  <2>5. \A s \in Slot : sn[s].pc = "idle"
    BY <2>1, IdleSnapshotFacts
  <2>6. QED
    BY <2>2, <2>3, <2>4, <2>5 DEF NothingLeft
<1>2. FilesShown
  BY DEF SnapshotInit, FilesShown
<1>3. QED
  BY <1>1, <1>2, StoreInvInit, NothingToShow

\* The records account for the tasks throughout: while results are recorded and
\* applied, while snapshots are taken and put back side by side, and across
\* restarts.
THEOREM HistoryIsInvariant == SnapshotSpec => []HistoryInv
<1>1. HistoryInv /\ [SnapshotNext]_<<vars, snapVars>> => HistoryInv'
  BY ServiceHistory, SnapshotHistory, RestartHistory DEF SnapshotNext
<1>2. QED
  BY <1>1, HistoryInit, PTL DEF SnapshotSpec

\* A snapshot whose task list was taken while no Import was between its Saves and
\* its Appends is consistent, whatever Imports came and went while its records were
\* listed: Export lists the tasks first and RecordResult stores the record first.
THEOREM SnapshotsAreBacked == SnapshotSpec => []SnapshotIsBacked
<1>1. HistoryInv => SnapshotIsBacked
  BY DEF HistoryInv, FilesShown, Vouch, SnapshotIsBacked, Backed, Present
<1>2. QED
  BY <1>1, HistoryIsInvariant, PTL

\* Once the Imports at work are done, no task lacks its history, however many
\* restores and exports ran side by side: until a snapshot that was not whole is
\* restored, or an Import gives up half-way.
THEOREM RestoresAreBacked == SnapshotSpec => []RestoreIsBacked
<1>1. HistoryInv => RestoreIsBacked
  <2> SUFFICES ASSUME HistoryInv, ~torn, \A s \in Slot : ~Importing(s), NEW id \in Task
               PROVE  Vouch(records[id]["failure"], records[id]["success"],
                            tasks[id].state, tasks[id].retriesLeft)
    BY DEF RestoreIsBacked, OutOfStep, Backed, Present, Vouch
  <2>1. tasks[id].retriesLeft \in Nat
    BY DEF HistoryInv, StoreInv, SnapTypeInv, TypeInv, StoreOK, TaskRec
  <2>2. Shown(id, tasks[id].state, tasks[id].retriesLeft)
    BY DEF HistoryInv, AllShown, TasksShown
  <2>3. QED
    BY <2>1, <2>2, NothingToAppend DEF HistoryInv
<1>2. QED
  BY <1>1, HistoryIsInvariant, PTL
=============================================================================
