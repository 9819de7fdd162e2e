----------------------------- MODULE BulkProofs -----------------------------
(***************************************************************************)
(* Tasks removed under the service's feet: a refused batch deletes tasks   *)
(* that are queued, leased or running, and neither queues, lease table nor *)
(* executors are told.  What the service promises of the tasks it still    *)
(* has, it keeps.                                                          *)
(***************************************************************************)
EXTENDS Bulk, LeaseProofs, HandoverProofs

BatchOK ==
  /\ bt \in [pc : {"idle", "save", "track", "undo"}, now : Time, todo : SUBSET Task,
             saved : SUBSET Task, cur : Task \cup {NoTask}, at : Time]
  /\ bt.pc = "track" => bt.cur \in Task

(***************************************************************************)
(* What a step of the batch handler does to the rest of the service.       *)
(***************************************************************************)
\* A task is saved for the first time, deleted, or left as it is.
SavedOrDeleted(id) ==
  \/ tasks'[id] = tasks[id]
  \/ tasks[id].state = "none" /\ tasks'[id].state = "pending" /\ tasks'[id].version = 1
  \/ tasks[id].state \notin Absent /\ tasks'[id].state = "gone" /\ tasks'[id].version = 0

\* The handler works on the store and the fire index only.
BatchTouches ==
  /\ \A id \in Task : SavedOrDeleted(id)
  /\ UNCHANGED <<clock, queueVars, leaseVars, registryVars, tk, ex, records, cl>>

\* TaskStore.Delete leaves the other tasks alone.
LEMMA DeleteFacts ==
  ASSUME StoreOK, NEW id \in Task, Delete(id)
  PROVE  /\ tasks[id].state \notin Absent
         /\ tasks'[id].state = "gone" /\ tasks'[id].version = 0
         /\ Others(id) /\ StoreOK'
<1>1. GoneTask \in TaskRec /\ GoneTask.state = "gone" /\ GoneTask.version = 0
  BY ModelAssumption DEF GoneTask, TaskRec, TaskState, Time
<1>2. QED
  BY <1>1 DEF Delete, StoreOK, Others

\* What the handler leaves alone stays well-formed.
LEMMA BatchStepType ==
  ASSUME TypeInv, StoreOK', FireIndexOK',
         UNCHANGED <<clock, queueVars, leaseVars, registryVars, tk, ex, records, cl>>
  PROVE  TypeInv'
BY DEF TypeInv, QueuesOK, LeasesOK, RosterOK, TickerOK, ExecutorsOK, ClientsOK, RecordsOK,
   queueVars, leaseVars, registryVars

\* Every step of RegisterBatch is well-formed and touches little.
LEMMA BatchFacts ==
  ASSUME TypeInv, BatchOK, BatchStep \/ \E batch \in SUBSET Task : BatchBegin(batch)
  PROVE  TypeInv' /\ BatchOK' /\ BatchTouches
<1> USE ModelAssumption DEF Time
<1>0. StoreOK /\ FireIndexOK /\ clock \in Time
  BY DEF TypeInv
<1>1. ASSUME UNCHANGED vars PROVE TypeInv' /\ BatchTouches
  <2>1. UNCHANGED <<clock, queueVars, leaseVars, registryVars, tk, ex, records, cl>>
        /\ UNCHANGED <<tasks, nextFire>>
    BY <1>1 DEF vars
  <2>2. StoreOK' /\ FireIndexOK'
    BY <1>0, <2>1 DEF StoreOK, FireIndexOK
  <2>3. QED
    BY <2>1, <2>2, BatchStepType DEF BatchTouches, SavedOrDeleted
<1>2. IdleBatch \in [pc : {"idle", "save", "track", "undo"}, now : Time, todo : SUBSET Task,
                     saved : SUBSET Task, cur : Task \cup {NoTask}, at : Time]
      /\ IdleBatch.pc = "idle"
  BY DEF IdleBatch
<1>3. ASSUME NEW batch \in SUBSET Task, BatchBegin(batch) PROVE TypeInv' /\ BatchOK' /\ BatchTouches
  <2>1. BatchOK'
    BY <1>0, <1>3 DEF BatchBegin, BatchOK
  <2>2. QED
    BY <1>1, <1>3, <2>1 DEF BatchBegin
<1>4. ASSUME NEW id \in bt.todo, BatchSave(id) PROVE TypeInv' /\ BatchOK' /\ BatchTouches
  <2>1. PICK at \in 0..MaxTime :
          /\ Insert(id, at)
          /\ bt' = [bt EXCEPT !.pc = "track", !.todo = bt.todo \ {id},
                              !.saved = bt.saved \cup {id}, !.cur = id, !.at = at]
    BY <1>4 DEF BatchSave
  <2>2. id \in Task /\ at \in Time
    BY DEF BatchOK
  <2>3. StoreOK' /\ \A other \in Task : SavedOrDeleted(other)
    BY <1>0, <2>1, <2>2, InsertType, InsertFacts DEF Others, SavedOrDeleted
  <2>4. BatchOK'
    BY <2>1, <2>2 DEF BatchOK
  <2>5. UNCHANGED <<clock, queueVars, leaseVars, registryVars, tk, ex, records, cl>>
        /\ FireIndexOK'
    BY <1>0, <1>4 DEF BatchSave, FireIndexOK
  <2>6. QED
    BY <2>3, <2>4, <2>5, BatchStepType DEF BatchTouches
<1>5. ASSUME BatchTrack PROVE TypeInv' /\ BatchOK' /\ BatchTouches
  <2>1. bt.cur \in Task /\ bt.at \in Time
    BY <1>5 DEF BatchTrack, BatchOK
  <2>2. FireIndexOK' /\ StoreOK'
    BY <1>0, <1>5, <2>1 DEF BatchTrack, SetNextFire, FireIndexOK, StoreOK
  <2>3. BatchOK'
    <3>1. CASE bt' = IdleBatch
      BY <1>2, <3>1 DEF BatchOK
    <3>2. CASE bt' = [bt EXCEPT !.pc = "save", !.cur = NoTask, !.at = 0]
      BY <3>2 DEF BatchOK
    <3>3. QED
      BY <1>5, <3>1, <3>2 DEF BatchTrack
  <2>4. QED
    BY <1>5, <2>2, <2>3, BatchStepType DEF BatchTrack, BatchTouches, SavedOrDeleted
<1>6. ASSUME BatchRefused PROVE TypeInv' /\ BatchOK' /\ BatchTouches
  <2>1. BatchOK'
    BY <1>2, <1>6 DEF BatchRefused, BatchOK
  <2>2. QED
    BY <1>1, <1>6, <2>1 DEF BatchRefused
<1>7. ASSUME NEW id \in bt.saved, BatchUndo(id) PROVE TypeInv' /\ BatchOK' /\ BatchTouches
  <2>1. id \in Task
    BY DEF BatchOK
  <2>2. StoreOK' /\ \A other \in Task : SavedOrDeleted(other)
    BY <1>0, <1>7, <2>1, DeleteFacts DEF BatchUndo, Others, SavedOrDeleted
  <2>3. BatchOK'
    BY <1>7 DEF BatchUndo, BatchOK
  <2>4. UNCHANGED <<clock, queueVars, leaseVars, registryVars, tk, ex, records, cl>>
        /\ FireIndexOK'
    BY <1>0, <1>7 DEF BatchUndo, FireIndexOK
  <2>5. QED
    BY <2>2, <2>3, <2>4, BatchStepType DEF BatchTouches
<1>8. ASSUME BatchFails PROVE TypeInv' /\ BatchOK' /\ BatchTouches
  <2>1. BatchOK'
    BY <1>2, <1>8 DEF BatchFails, BatchOK
  <2>2. QED
    BY <1>1, <1>8, <2>1 DEF BatchFails
<1>9. QED
  BY <1>3, <1>4, <1>5, <1>6, <1>7, <1>8 DEF BatchStep


\* Who holds a task that is stored after the handler's step held it, and it was
\* stored unchanged before: a task that is saved for the first time has no holder.
LEMMA HeldIsUntouched ==
  ASSUME HoldInv, BatchTouches, NEW e \in Executor, HoldsVersion(e),
         tasks'[ex[e].task].state # "gone"
  PROVE  Stored(e) /\ tasks'[ex[e].task] = tasks[ex[e].task] /\ ex[e].task \in Task
<1>1. ex[e].task \in Task /\ ex[e].version \in Nat
  BY DEF HoldInv, TypeInv, ExecutorsOK, ExecutorLocal, HoldsVersion
<1>2. PICK t \in Task : t = ex[e].task
  BY <1>1
<1>3. SavedOrDeleted(t)
  BY DEF BatchTouches
<1>4. tasks[t].state # "none"
  <2>1. ASSUME tasks[t].state = "none" PROVE FALSE
    <3>1. tasks[t].version = 0 /\ Stored(e)
      BY <1>2, <2>1 DEF HoldInv, Fresh, Absent, Stored
    <3>2. ex[e].version > 0 /\ ex[e].version <= 0
      BY <1>2, <3>1 DEF HoldInv, HoldersTook, StoredFence
    <3>3. QED
      BY <1>1, <3>2
  <2>2. QED
    BY <2>1
<1>5. tasks'[t] = tasks[t]
  BY <1>2, <1>3, <1>4 DEF SavedOrDeleted
<1>6. QED
  BY <1>2, <1>5 DEF Stored

\* Saving and deleting tasks takes nothing from those who hold the others.
LEMMA BatchKeepsHolders ==
  ASSUME HoldInv, BatchTouches, TypeInv'
  PROVE  HoldInv' /\ GoneStays /\ (SeenOK => SeenOK')
<1>0. UNCHANGED <<ex, cl, leases, leaseSeq>> /\ \A id \in Task : SavedOrDeleted(id)
  BY DEF BatchTouches, leaseVars
<1>1. Fresh'
  BY <1>0 DEF HoldInv, Fresh, SavedOrDeleted, Absent
<1>2. LeaseFence' /\ HoldersTook'
  BY <1>0 DEF HoldInv, LeaseFence, HoldersTook, HoldsVersion
<1>3. ASSUME NEW e \in Executor, HoldsVersion(e), Stored(e)'
      PROVE  Stored(e) /\ tasks'[ex[e].task] = tasks[ex[e].task]
  BY <1>0, <1>3, HeldIsUntouched DEF Stored, HoldsVersion
<1>4. StoredFence'
  BY <1>0, <1>3 DEF HoldInv, StoredFence, HoldsVersion
<1>5. SeenOK => SeenOK'
  BY <1>0, <1>3 DEF SeenOK, HoldsVersion
<1>6. CancelOK'
  <2>1. ASSUME NEW c \in Client, cl[c].pc \in {"unready", "undelay", "untrack"}
        PROVE  tasks'[cl[c].task].state \in {"canceled", "gone"}
    <3>1. PICK t \in Task : t = cl[c].task
      BY <2>1 DEF HoldInv, TypeInv, ClientsOK, WorkerPc
    <3>2. tasks[t].state \in {"canceled", "gone"} /\ SavedOrDeleted(t)
      BY <1>0, <2>1, <3>1 DEF HoldInv, CancelOK
    <3>3. QED
      BY <3>1, <3>2 DEF SavedOrDeleted
  <2>2. QED
    BY <1>0, <2>1 DEF CancelOK
<1>7. GoneStays
  BY <1>0 DEF GoneStays, SavedOrDeleted, Absent
<1>8. QED
  BY <1>1, <1>2, <1>4, <1>5, <1>6, <1>7 DEF HoldInv

\* Neither does it touch the lease table, and a lease that was given up stays so.
LEMMA BatchKeepsTable ==
  ASSUME HoldInv, BatchTouches
  PROVE  /\ TableInv => TableInv'
         /\ Indexed => Indexed'
         /\ CoverInv => CoverInv'
<1>0. UNCHANGED <<ex, tk, leases, byTask>> /\ \A id \in Task : SavedOrDeleted(id)
  BY DEF BatchTouches, leaseVars
<1>1. TableInv => TableInv'
  BY <1>0 DEF TableInv, LeaseIds, IndexSound, Held, NoLeaseYet
<1>2. Indexed => Indexed'
  BY <1>0 DEF Indexed
<1>3. ASSUME NEW l \in leases, MovedOn(l) PROVE MovedOn(l)'
  <2>1. PICK t \in Task : t = l.task
    BY DEF HoldInv, TypeInv, LeasesOK, Lease
  <2>2. l.version \in Nat /\ SavedOrDeleted(t)
    BY <1>0 DEF HoldInv, TypeInv, LeasesOK, Lease
  <2>3. tasks[t].state \in Absent => tasks[t].version = 0
    BY DEF HoldInv, Fresh
  <2>4. QED
    BY <1>3, <2>1, <2>2, <2>3 DEF MovedOn, SavedOrDeleted, Absent
<1>4. CoverInv => CoverInv'
  BY <1>0, <1>3 DEF CoverInv, ReaperIdle, SeenLater, LetGo
<1>5. QED
  BY <1>1, <1>2, <1>4

\* A task that is Leased or Ready after the handler's step was so before it, and
\* nothing that covers it has gone.
LEMMA BatchKeepsCover ==
  ASSUME BatchTouches
  PROVE  /\ LeasedIsCovered => LeasedIsCovered'
         /\ ReadyIsCovered => ReadyIsCovered'
<1>0. UNCHANGED <<ex, cl, tk, leases, ready, delayed>> /\ \A id \in Task : SavedOrDeleted(id)
  BY DEF BatchTouches, leaseVars, queueVars
<1>1. \A id \in Task : tasks'[id].state \in {"leased", "ready"} => tasks'[id] = tasks[id]
  BY <1>0 DEF SavedOrDeleted
<1>2. LeasedIsCovered => LeasedIsCovered'
  BY <1>0, <1>1 DEF LeasedIsCovered, Owns, HoldsVersion
<1>3. ReadyIsCovered => ReadyIsCovered'
  BY <1>0, <1>1 DEF ReadyIsCovered, PushPending
<1>4. QED
  BY <1>2, <1>3


(***************************************************************************)
(* Nothing the scheduler itself does brings a removed task back, as long   *)
(* as no request has a copy of one to save.                                *)
(***************************************************************************)
\* Without UpdateCron no request comes to have a copy in hand.
LEMMA NoSavesStep ==
  ASSUME NoUpdates, ClientsOK, NoSaves, [Next]_vars
  PROVE  NoSaves'
<1>1. CASE UNCHANGED cl
  BY <1>1 DEF NoSaves
<1>2. ASSUME NEW c \in Client, Request(c) \/ Handle(c) PROVE NoSaves'
  <2>1. \A d \in Client \ {c} : cl'[d] = cl[d]
    BY <1>2, ClientAlone
  <2>2. CASE Request(c)
    BY <2>1, <2>2, RequestFacts DEF NoUpdates, NoSaves
  <2>3. CASE Handle(c)
    BY <2>1, <2>3, HandleFacts DEF NoSaves
  <2>4. QED
    BY <1>2, <2>2, <2>3
<1>3. QED
  BY <1>1, <1>2 DEF Next, vars, TimePasses, WorkerBeats, TickerRuns, ExecutorRuns,
     RequestArrives, HandlerRuns

\* A state change from a state other than removed disturbs no removed task.
LEMMA EnterLeavesGone ==
  ASSUME StoreOK, NEW id \in Task, NEW to, tasks[id].state # "gone", Enter(id, to)
  PROVE  GoneStays
BY EnterFacts DEF Others, GoneStays

\* Every operation of the store on a task it does not have is refused: a state
\* change by the state, and Retry because the task is not stored.
LEMMA NoneReturns ==
  ASSUME HoldInv, NoSaves, [Next]_vars
  PROVE  GoneStays
<1>0. StoreOK /\ ExecutorsOK /\ ClientsOK /\ TickerOK /\ \A l \in tk.expired : l.task \in Task
  BY DEF HoldInv, TypeInv, TickerOK, TickerLocal, Lease
<1>1. ASSUME UNCHANGED tasks PROVE GoneStays
  BY <1>1 DEF GoneStays
<1>2. CASE TickerRuns
  <2>1. ASSUME TickMark PROVE GoneStays
    BY <1>0, <1>1, <2>1, EnterLeavesGone DEF TickMark, TickerOK, MarkReady
  <2>2. ASSUME TickSetNextRun PROVE GoneStays
    BY <1>0, <1>1, <2>2, SetNextRunFacts DEF TickSetNextRun, TickerOK, Others, GoneStays
  <2>3. ASSUME NEW l \in tk.expired, ReapRequeue(l) PROVE GoneStays
    BY <1>0, <1>1, <2>3, EnterLeavesGone DEF ReapRequeue, Transition, CanTransition
  <2>4. QED
    BY <1>1, <1>2, <2>1, <2>2, <2>3 DEF TickerRuns, Ticker, TickScan, TickGet, TickDrop,
       TickPush, TickSetFire, TickPopDue, TickEntry, TickPushEntry, ReapCollect, ReapPush
<1>3. ASSUME NEW e \in Executor, ExecutorRuns(e) PROVE GoneStays
  <2>1. ASSUME TakeReady(e) PROVE GoneStays
    BY <1>0, <1>1, <2>1, TakeFacts, EnterLeavesGone
  <2>2. ASSUME PickFails(e) PROVE GoneStays
    BY <1>0, <1>1, <2>2, PickFailsFacts, EnterLeavesGone DEF CanTransition
  <2>3. ASSUME ApplyResult(e) PROVE GoneStays
    <3>1. PICK t \in Task : t = ex[e].task /\ ex[e].pc = "apply"
      BY <1>0, <2>3, ApplyFacts
    <3>2. ASSUME NEW next, Retry(t, next, ex[e].seen) PROVE tasks[t].state # "gone"
      <4>1. ex[e].seen > 0 /\ ex[e].seen \in Nat
        BY <1>0, <3>1 DEF HoldInv, LeaseFence, HoldersTook, HoldsVersion, ExecutorsOK,
           ExecutorLocal
      <4>2. tasks[t].version = ex[e].seen
        BY <1>0, <3>2, RetryFacts
      <4>3. QED
        BY <4>1, <4>2 DEF HoldInv, Fresh, Absent
    <3>3. ASSUME NEW next, Retry(t, next, ex[e].seen) PROVE GoneStays
      BY <1>0, <3>2, <3>3, RetryFacts DEF Others, GoneStays
    <3>4. QED
      BY <1>0, <1>1, <2>3, <3>1, <3>3, ApplyFacts, EnterLeavesGone DEF CanTransition
  <2>4. QED
    BY <1>1, <1>3, <2>1, <2>2, <2>3 DEF ExecutorRuns, ExecutorStep, Pop, PopNothing, BindLease,
       Repush, Finish, CheckLease, ScheduleRetry, ReleaseLease
<1>4. ASSUME NEW c \in Client, RequestArrives(c) PROVE GoneStays
  <2>1. ASSUME NEW id \in Task, NEW at, Insert(id, at) PROVE GoneStays
    BY <1>0, <2>1, InsertFacts DEF Others, GoneStays
  <2>2. QED
    BY <1>0, <1>1, <1>4, <2>1, RequestFacts DEF RequestArrives
<1>5. ASSUME NEW c \in Client, HandlerRuns(c) PROVE GoneStays
  <2>1. /\ cl[c].pc \notin WorkerPc => cl[c].task \in Task
        /\ cl[c].pc = "cancel" => cl[c].state \notin Absent
    BY <1>0 DEF ClientsOK
  <2>2. ASSUME TriggerMark(c) PROVE GoneStays
    BY <1>0, <1>1, <2>1, <2>2, EnterLeavesGone DEF TriggerMark, WorkerPc, MarkReady
  <2>3. ASSUME CancelTransition(c) PROVE GoneStays
    BY <1>0, <1>1, <2>1, <2>3, EnterLeavesGone
       DEF CancelTransition, WorkerPc, Transition, CanTransition, Absent
  <2>4. ~CronSave(c)
    BY DEF CronSave, NoSaves
  <2>5. QED
    BY <1>1, <1>5, <2>2, <2>3, <2>4 DEF HandlerRuns, Handle, RegisterTrack, TriggerPush,
       CancelUnready, CancelUndelay, CancelUntrack, CronRefresh, EnrollWorker, HeartbeatMark,
       HeartbeatList, HeartbeatRenew
<1>6. QED
  BY <1>1, <1>2, <1>3, <1>4, <1>5 DEF Next, vars, TimePasses, WorkerBeats


(***************************************************************************)
(* The invariants of the service with the batch handler.                   *)
(***************************************************************************)
\* A step is one of the service, or one of the batch handler.
LEMMA BulkSteps ==
  ASSUME [BulkNext]_bulkVars
  PROVE  \/ [Next]_vars /\ UNCHANGED bt
         \/ BatchStep \/ \E batch \in SUBSET Task : BatchBegin(batch)
BY DEF BulkNext, bulkVars

BulkTableInv == TypeInv /\ BatchOK /\ LeaseFence /\ TableInv

\* The handler starts with no batch.
LEMMA BatchInit == BulkInit => BatchOK
BY DEF BulkInit, BatchOK, IdleBatch, Time

\* The table and its fence do not depend on what becomes of the tasks.
LEMMA BulkTableStep ==
  ASSUME BulkTableInv, [BulkNext]_bulkVars
  PROVE  BulkTableInv'
<1>1. CASE [Next]_vars /\ UNCHANGED bt
  <2>1. TypeInv' /\ LeaseFence' /\ TableInv'
    BY <1>1, TypeStep, LeaseFenceStep, TableStep DEF BulkTableInv
  <2>2. QED
    BY <1>1, <2>1 DEF BulkTableInv, BatchOK
<1>2. CASE BatchStep \/ \E batch \in SUBSET Task : BatchBegin(batch)
  <2>1. TypeInv' /\ BatchOK' /\ BatchTouches
    BY <1>2, BatchFacts DEF BulkTableInv
  <2>2. LeaseFence'
    BY <2>1 DEF BulkTableInv, BatchTouches, leaseVars, LeaseFence
  <2>3. TableInv'
    BY <2>1 DEF BulkTableInv, BatchTouches, leaseVars, TableInv, LeaseIds, IndexSound, Held,
       NoLeaseYet
  <2>4. QED
    BY <2>1, <2>2, <2>3 DEF BulkTableInv
<1>3. QED
  BY <1>1, <1>2, BulkSteps

\* Types and lease table stay in order whatever the batch handler deletes.
LEMMA BulkTableIsInvariant == BulkSpec => []BulkTableInv
<1>1. BulkInit => BulkTableInv
  BY BatchInit, FenceInit, TableInit DEF BulkInit, BulkTableInv, FenceInv
<1>2. QED
  BY <1>1, BulkTableStep, PTL DEF BulkSpec

BulkHoldInv == HoldInv /\ SeenOK /\ BatchOK /\ NoSaves

\* What FenceInv says of the tasks the store has survives the deletion of others.
LEMMA BulkHoldStep ==
  ASSUME NoUpdates, BulkHoldInv, [BulkNext]_bulkVars
  PROVE  BulkHoldInv' /\ GoneStays
<1>1. CASE [Next]_vars /\ UNCHANGED bt
  <2>1. GoneStays
    BY <1>1, NoneReturns DEF BulkHoldInv
  <2>2. HoldInv' /\ SeenOK' /\ NoSaves'
    BY <1>1, <2>1, HoldStep, SeenStep, NoSavesStep DEF BulkHoldInv, HoldInv, TypeInv
  <2>3. QED
    BY <1>1, <2>1, <2>2 DEF BulkHoldInv, BatchOK
<1>2. CASE BatchStep \/ \E batch \in SUBSET Task : BatchBegin(batch)
  <2>1. TypeInv' /\ BatchOK' /\ BatchTouches
    BY <1>2, BatchFacts DEF BulkHoldInv, HoldInv
  <2>2. HoldInv' /\ GoneStays /\ SeenOK'
    BY <2>1, BatchKeepsHolders DEF BulkHoldInv
  <2>3. NoSaves'
    BY <2>1 DEF BulkHoldInv, BatchTouches, NoSaves
  <2>4. QED
    BY <2>1, <2>2, <2>3 DEF BulkHoldInv
<1>3. QED
  BY <1>1, <1>2, BulkSteps

\* The service starts with nobody holding anything.
LEMMA BulkHoldInit == BulkInit => BulkHoldInv
<1>1. BulkInit => HoldInv /\ SeenOK
  BY FenceInit, FenceHolds, BudgetInit DEF BulkInit, BudgetInv
<1>2. BulkInit => NoSaves
  BY DEF BulkInit, Init, InitApi, IdleClient, NoSaves
<1>3. QED
  BY <1>1, <1>2, BatchInit DEF BulkHoldInv

\* The fence of the stored tasks is an invariant.
LEMMA BulkHoldIsInvariant ==
  ASSUME NoUpdates
  PROVE  BulkSpec => []BulkHoldInv
<1>1. BulkHoldInv /\ [BulkNext]_bulkVars => BulkHoldInv'
  BY BulkHoldStep
<1>2. QED
  BY <1>1, BulkHoldInit, PTL DEF BulkSpec

(***************************************************************************)
(* The theorems.                                                           *)
(***************************************************************************)
\* Deleting tasks under the service leaves every variable well-formed: no step
\* works on a task identifier it does not have.
THEOREM BulkTypeCorrect == BulkSpec => []TypeOK
<1>1. BulkTableInv => TypeOK
  BY TypeInvImpliesTypeOK DEF BulkTableInv
<1>2. QED
  BY <1>1, BulkTableIsInvariant, PTL

\* Deleting a task whose lease is out leaves the lease to its holder, who releases
\* it, to Renew or to the reaper: the table has no leftovers even then.
THEOREM BulkTableHasNoLeftovers == BulkSpec => []LeaseTableIsSound
<1>1. BulkTableInv => LeaseTableIsSound
  BY DEF BulkTableInv, TableInv, Held, IndexSound, LeaseTableIsSound
<1>2. QED
  BY <1>1, BulkTableIsInvariant, PTL

\* An executor whose task is deleted owns nothing any more, and no two own one that
\* is not: a deleted task has version zero, which no executor ever holds.
THEOREM BulkOwnershipIsExclusive ==
  ASSUME NoUpdates
  PROVE  BulkSpec => []ExclusiveOwnership
<1>1. BulkHoldInv => ExclusiveOwnership
  <2>1. ASSUME BulkHoldInv, NEW e \in Executor, NEW id \in Task, Owns(e, id)
        PROVE  /\ tasks[id].state = "leased"
               /\ \A f \in Executor : Owns(f, id) => f = e
    <3>1. HoldsVersion(e) /\ ex[e].task = id /\ ex[e].version = tasks[id].version
      BY <2>1 DEF Owns
    <3>2. ex[e].version > 0
      BY <2>1, <3>1 DEF BulkHoldInv, HoldInv, HoldersTook
    <3>3. Stored(e)
      BY <2>1, <3>1, <3>2 DEF BulkHoldInv, HoldInv, Fresh, Absent, Stored
    <3>4. QED
      BY <2>1, <3>1, <3>3 DEF BulkHoldInv, HoldInv, StoredFence, Owns
  <2>2. QED
    BY <2>1 DEF ExclusiveOwnership
<1>2. QED
  BY <1>1, BulkHoldIsInvariant, PTL

TerminalOrDeleted ==
  \A id \in Task :
    tasks[id].state \in Terminal \cup {"gone"} => tasks'[id].state \in {tasks[id].state, "gone"}

\* No operation of any goroutine revives a task that is finished or deleted: a state
\* change is refused by the state, Retry by the version or as the task is not stored.
THEOREM FinishedAndDeletedStaySo ==
  ASSUME NoUpdates
  PROVE  BulkSpec => NothingIsRevived
<1>1. ASSUME BulkHoldInv, [BulkNext]_bulkVars PROVE TerminalOrDeleted
  <2>1. GoneStays
    BY <1>1, BulkHoldStep
  <2>2. CASE [Next]_vars /\ UNCHANGED bt
    BY <1>1, <2>1, <2>2, TerminalStep DEF BulkHoldInv, GoneStays, StatesFinal, TerminalOrDeleted
  <2>3. CASE BatchStep \/ \E batch \in SUBSET Task : BatchBegin(batch)
    <3>1. BatchTouches
      BY <1>1, <2>3, BatchFacts DEF BulkHoldInv, HoldInv
    <3>2. QED
      BY <2>1, <3>1 DEF BatchTouches, SavedOrDeleted, GoneStays, TerminalOrDeleted, Terminal
  <2>4. QED
    BY <1>1, <2>2, <2>3, BulkSteps
<1>2. BulkHoldInv /\ [BulkNext]_bulkVars => [TerminalOrDeleted]_tasks
  BY <1>1
<1>3. BulkSpec => [][TerminalOrDeleted]_tasks
  BY <1>2, BulkHoldIsInvariant, PTL DEF BulkSpec
<1>4. QED
  BY <1>3 DEF NothingIsRevived, TerminalOrDeleted

\* Whatever is deleted around it, a Ready task that is stored keeps its entry in a
\* queue or the goroutine that is about to push it.
THEOREM BulkReadyTasksAreCovered ==
  ASSUME NoUpdates
  PROVE  BulkSpec => []ReadyIsCovered
<1>1. BulkInit => ReadyIsCovered
  BY DEF BulkInit, Init, InitStore, ReadyIsCovered
<1>2. ASSUME BulkHoldInv, ReadyIsCovered, [BulkNext]_bulkVars PROVE ReadyIsCovered'
  <2>1. GoneStays
    BY <1>2, BulkHoldStep
  <2>2. CASE [Next]_vars /\ UNCHANGED bt
    BY <1>2, <2>1, <2>2, ReadyStep DEF BulkHoldInv, HoldInv
  <2>3. CASE BatchStep \/ \E batch \in SUBSET Task : BatchBegin(batch)
    BY <1>2, <2>3, BatchFacts, BatchKeepsCover DEF BulkHoldInv, HoldInv
  <2>4. QED
    BY <1>2, <2>2, <2>3, BulkSteps
<1>3. BulkHoldInv /\ ReadyIsCovered /\ [BulkNext]_bulkVars => ReadyIsCovered'
  BY <1>2
<1>4. QED
  BY <1>1, <1>3, BulkHoldIsInvariant, PTL DEF BulkSpec

\* With one executor a Leased task can always come back, even while others are
\* deleted with their leases still in the table.
THEOREM BulkLeasedTasksAreCovered ==
  ASSUME OneExecutor, NoUpdates
  PROVE  BulkSpec => []LeasedIsCovered
<1> DEFINE Inv == TableInv /\ Indexed /\ CoverInv /\ LeasedIsCovered
<1>1. BulkInit => Inv
  <2>1. BulkInit => Indexed
    BY DEF BulkInit, Init, InitLeases, Indexed
  <2>2. BulkInit => CoverInv /\ LeasedIsCovered
    BY DEF BulkInit, Init, InitStore, InitLeases, InitDispatch, InitExecution, IdleTicker,
       IdleExecutor, CoverInv, ReaperIdle, SeenLater, LetGo, LeasedIsCovered
  <2>3. QED
    BY <2>1, <2>2, TableInit DEF BulkInit
<1>2. ASSUME BulkHoldInv, Inv, [BulkNext]_bulkVars PROVE Inv'
  <2>1. HoldInv /\ SeenOK /\ NoSaves /\ GoneStays
    BY <1>2, BulkHoldStep DEF BulkHoldInv
  <2>2. CASE [Next]_vars /\ UNCHANGED bt
    BY <1>2, <2>1, <2>2, TableStep, IndexedStep, ReaperStep, SeenLaterStep, LetGoStep, LeasedStep
       DEF CoverInv, HoldInv
  <2>3. CASE BatchStep \/ \E batch \in SUBSET Task : BatchBegin(batch)
    <3>1. BatchTouches
      BY <1>2, <2>3, BatchFacts DEF BulkHoldInv, HoldInv
    <3>2. QED
      BY <1>2, <2>1, <3>1, BatchKeepsTable, BatchKeepsCover
  <2>4. QED
    BY <1>2, <2>2, <2>3, BulkSteps
<1>3. BulkSpec => []Inv
  <2>1. BulkHoldInv /\ Inv /\ [BulkNext]_bulkVars => Inv'
    BY <1>2
  <2> HIDE DEF Inv
  <2>2. QED
    BY <1>1, <2>1, BulkHoldIsInvariant, PTL DEF BulkSpec
<1>4. QED
  BY <1>3, PTL
=============================================================================
