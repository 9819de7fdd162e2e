----------------------------- MODULE TypeProofs -----------------------------
(***************************************************************************)
(* Type correctness of Schedd, for every set of tasks, workers, executors  *)
(* and clients and every value of the tuning parameters, and what each     *)
(* step does to the record it updates.  The lemmas also hold where tasks   *)
(* may be removed from the store, as module Snapshot does.                 *)
(***************************************************************************)
EXTENDS Schedd, TLAPS

(***************************************************************************)
(* The inductive invariant, in named parts.                                *)
(***************************************************************************)
StoreOK == tasks \in [Task -> TaskRec]

QueuesOK == ready \in SUBSET Task /\ delayed \in SUBSET DelayedEntry

LeasesOK == leaseSeq \in Nat /\ leases \in SUBSET Lease /\ byTask \in [Task -> Nat]

RosterOK == order \in Seq(Worker) /\ beat \in [Worker -> Time]

FireIndexOK == nextFire \in [Task -> Time \cup {Untracked}]

\* A local task variable is set wherever the code is about to use it.
TickerOK ==
  /\ tk \in TickerLocal
  /\ tk.pc \in {"drop", "mark", "push", "next", "fire", "pushEntry", "pushReaped"} =>
       tk.cur \in Task

ExecutorsOK ==
  /\ ex \in [Executor -> ExecutorLocal]
  /\ \A e \in Executor : ex[e].pc \notin {"idle", "again"} => ex[e].task \in Task

\* Request slots that have no task in hand.
WorkerPc == {"idle", "enroll", "beat", "list", "renew"}

\* A handler that is about to cancel or to save a task read a state the code
\* lets it act on.
ClientsOK ==
  /\ cl \in [Client -> ClientLocal]
  /\ \A c \in Client :
       /\ cl[c].pc \notin WorkerPc => cl[c].task \in Task
       /\ cl[c].pc = "enroll" => cl[c].worker \in Worker
       /\ cl[c].pc = "save" => cl[c].state \notin Absent
       /\ cl[c].pc = "cancel" => cl[c].state \notin Terminal \cup Absent

RecordsOK == records \in [Task -> [Status -> Nat]]

TypeInv ==
  /\ clock \in Time
  /\ StoreOK
  /\ QueuesOK
  /\ LeasesOK
  /\ RosterOK
  /\ FireIndexOK
  /\ TickerOK
  /\ ExecutorsOK
  /\ ClientsOK
  /\ RecordsOK

\* The named parts together are TypeOK of the scheduler's variables.
LEMMA TypeInvImpliesTypeOK == TypeInv => TypeOK
BY DEF TypeInv, TypeOK, StoreOK, QueuesOK, LeasesOK, RosterOK, FireIndexOK, TickerOK,
       ExecutorsOK, ClientsOK, RecordsOK

(***************************************************************************)
(* What the operations of the components preserve.                         *)
(***************************************************************************)
\* A state change of the task store (Transition, MarkReady) leaves well-formed
\* tasks behind.
LEMMA EnterType ==
  ASSUME StoreOK, NEW id \in Task, NEW to \in TaskState, Enter(id, to)
  PROVE  StoreOK'
BY DEF Enter, StoreOK, TaskRec

\* TaskStore.Save of a new task leaves well-formed tasks behind.
LEMMA InsertType ==
  ASSUME StoreOK, NEW id \in Task, NEW at \in Time, Insert(id, at)
  PROVE  StoreOK'
BY ModelAssumption DEF Insert, StoreOK, TaskRec, TaskState

\* TaskStore.Save over a stored task leaves well-formed tasks behind.
LEMMA OverwriteType ==
  ASSUME StoreOK, NEW id \in Task, NEW n \in Nat, NEW at \in Time, Overwrite(id, n, at)
  PROVE  StoreOK'
BY DEF Overwrite, StoreOK, TaskRec

\* TaskStore.Save of a copy of a removed task leaves well-formed tasks behind.
LEMMA InsertCopyType ==
  ASSUME StoreOK, NEW id \in Task, NEW state \in TaskState, NEW n \in Nat, NEW at \in Time,
         InsertCopy(id, state, n, at)
  PROVE  StoreOK'
BY DEF InsertCopy, StoreOK, TaskRec

\* TaskStore.SetNextRun leaves well-formed tasks behind.
LEMMA SetNextRunType ==
  ASSUME StoreOK, NEW id \in Task, NEW at \in Time, SetNextRun(id, at)
  PROVE  StoreOK'
BY DEF SetNextRun, StoreOK, TaskRec

\* TaskStore.Retry never takes the retry budget below zero.
LEMMA RetryType ==
  ASSUME StoreOK, NEW id \in Task, NEW at \in Time, NEW v \in Nat, Retry(id, at, v)
  PROVE  StoreOK'
BY DEF Retry, CanRetry, StoreOK, TaskRec, TaskState

\* The tail of Manager.Assign stores a well-formed lease under a fresh identifier.
LEMMA BindType ==
  ASSUME LeasesOK, NEW id \in Task, NEW w \in Worker, NEW v \in Nat, NEW now \in Time,
         Bind(id, w, v, now)
  PROVE  LeasesOK'
BY ModelAssumption DEF Bind, LeasesOK, Lease, Time

\* Manager.Release keeps the lease table well-formed.
LEMMA ReleaseType ==
  ASSUME LeasesOK, NEW lid \in Nat, Release(lid)
  PROVE  LeasesOK'
BY DEF Release, DropLease, LeasesOK, leaseVars, NoLease

\* Manager.Renew keeps the lease table well-formed, whether it extends the lease
\* or drops it as stale.
LEMMA RenewType ==
  ASSUME LeasesOK, NEW lid \in Nat, NEW w, NEW now \in Time, Renew(lid, w, now)
  PROVE  LeasesOK'
BY ModelAssumption DEF Renew, DropLease, LeasesOK, leaseVars, NoLease, Lease, Time

\* DelayedQueue.Push adds an entry or moves one forward, and it stays an entry.
LEMMA PushDelayedType ==
  ASSUME QueuesOK, NEW id \in Task, NEW at \in Time, PushDelayed(id, at)
  PROVE  delayed' \in SUBSET DelayedEntry
BY DEF PushDelayed, QueuesOK, DelayedEntry

\* The state main.go starts from is well-formed.
LEMMA TypeInit == Init => TypeInv
BY ModelAssumption, RegistryAssumption DEF Init, InitClock, InitStore, InitQueues, InitLeases,
   InitRegistry, InitDispatch, InitExecution, InitApi, TypeInv, StoreOK, QueuesOK, LeasesOK,
   RosterOK, FireIndexOK, TickerOK, WorkerPc,
   ExecutorsOK, ClientsOK, RecordsOK, Time, TaskRec, TaskState, TickerPc,
   TickerLocal, ExecutorLocal, ClientLocal,
   ExecutorPc, ClientPc, IdleTicker, IdleExecutor, IdleClient, Status, NoLease, Untracked

\* Every step of the ticker goroutine, Tick and then ReapExpired, preserves the
\* type invariant: the task it pushes is one it took from a list of tasks.
LEMMA TypeTicker ==
  ASSUME TypeInv, TickerRuns
  PROVE  TypeInv'
<1> DEFINE Goal == StoreOK' /\ QueuesOK' /\ LeasesOK' /\ FireIndexOK' /\ TickerOK'
<1> USE ModelAssumption DEF queueVars, leaseVars, Time
<1>0. /\ StoreOK /\ QueuesOK /\ LeasesOK /\ RosterOK /\ FireIndexOK /\ TickerOK
      /\ clock \in Time /\ ExecutorsOK /\ ClientsOK /\ RecordsOK
  BY DEF TypeInv
<1>1. ASSUME TickScan PROVE Goal
  BY <1>0, <1>1 DEF TickScan, IdleTicker, DueTasks, TickerOK, TickerLocal, TickerPc,
     StoreOK, QueuesOK, LeasesOK, FireIndexOK
<1>2. ASSUME NEW id \in tk.todo, TickGet(id) PROVE Goal
  <2>1. id \in Task
    BY <1>0 DEF TickerOK, TickerLocal
  <2> DEFINE rest == tk.todo \ {id}
  <2>a. rest \in SUBSET Task
    BY <1>0 DEF TickerOK, TickerLocal
  <2>b. \/ \E pc \in {"mark", "drop"} : tk' = [tk EXCEPT !.pc = pc, !.todo = rest, !.cur = id]
        \/ tk' = [tk EXCEPT !.todo = rest] /\ tk.pc = "due"
    BY <1>2 DEF TickGet
  <2> HIDE DEF rest
  <2>2. TickerOK'
    <3>1. ASSUME NEW pc \in {"mark", "drop"},
                 tk' = [tk EXCEPT !.pc = pc, !.todo = rest, !.cur = id]
          PROVE  TickerOK'
      BY <1>0, <2>1, <2>a, <3>1 DEF TickerOK, TickerLocal, TickerPc
    <3>2. CASE tk' = [tk EXCEPT !.todo = rest] /\ tk.pc = "due"
      BY <1>0, <2>a, <3>2 DEF TickerOK, TickerLocal, TickerPc
    <3>3. QED
      BY <2>b, <3>1, <3>2
  <2>3. QED
    BY <1>0, <1>2, <2>2 DEF TickGet, StoreOK, QueuesOK, LeasesOK, FireIndexOK
<1>2a. ASSUME TickDrop PROVE Goal
  BY <1>0, <1>2a DEF TickDrop, SetNextFire, Untracked, TickerOK, TickerLocal, TickerPc,
     StoreOK, QueuesOK, LeasesOK, FireIndexOK
<1>2b. ASSUME TickMark PROVE Goal
  <2>1. tk.cur \in Task
    BY <1>0, <1>2b DEF TickMark, TickerOK
  <2>2. TickerOK'
    BY <1>0, <1>2b, <2>1 DEF TickMark, TickerOK, TickerLocal, TickerPc
  <2>3. StoreOK'
    BY <1>0, <1>2b, <2>1, EnterType DEF TickMark, MarkReady, TaskState, StoreOK
  <2>4. QED
    BY <1>0, <1>2b, <2>2, <2>3 DEF TickMark, QueuesOK, LeasesOK, FireIndexOK
<1>3. ASSUME TickPush PROVE Goal
  BY <1>0, <1>3 DEF TickPush, PushReady, TickerOK, TickerLocal, TickerPc,
     StoreOK, QueuesOK, LeasesOK, FireIndexOK
<1>4. ASSUME TickSetNextRun PROVE Goal
  <2>0. tk.cur \in Task
    BY <1>0, <1>4 DEF TickSetNextRun, TickerOK
  <2>z. CASE UNCHANGED tasks /\ tk' = [tk EXCEPT !.pc = "due", !.cur = NoTask]
    BY <1>0, <1>4, <2>z DEF TickSetNextRun, TickerOK, TickerLocal, TickerPc,
       StoreOK, QueuesOK, LeasesOK, FireIndexOK
  <2> SUFFICES ASSUME ~(UNCHANGED tasks /\ tk' = [tk EXCEPT !.pc = "due", !.cur = NoTask])
               PROVE  Goal
    BY <2>z
  <2>1. PICK next \in CronNext(tk.now) :
          SetNextRun(tk.cur, next) /\ tk' = [tk EXCEPT !.pc = "fire", !.next = next]
    BY <1>4 DEF TickSetNextRun
  <2>2. next \in Time /\ tk.cur \in Task
    BY <1>0, <2>0 DEF CronNext, TickerOK, TickerLocal
  <2>3. StoreOK'
    BY <1>0, <2>1, <2>2, SetNextRunType
  <2>4. TickerOK'
    BY <1>0, <2>1, <2>2 DEF TickerOK, TickerLocal, TickerPc
  <2>5. QED
    BY <1>0, <1>4, <2>3, <2>4 DEF TickSetNextRun, QueuesOK, LeasesOK, FireIndexOK
<1>5. ASSUME TickSetFire PROVE Goal
  BY <1>0, <1>5 DEF TickSetFire, SetNextFire, Untracked, TickerOK, TickerLocal, TickerPc,
     StoreOK, QueuesOK, LeasesOK, FireIndexOK
<1>6. ASSUME TickPopDue PROVE Goal
  <2> DEFINE due == {entry.task : entry \in DueEntries(tk.now)}
  <2>1. due \in SUBSET Task
    BY <1>0 DEF DueEntries, DelayedEntry, QueuesOK
  <2>2. tk' = [tk EXCEPT !.pc = "entries", !.now = 0, !.todo = due]
    BY <1>6 DEF TickPopDue
  <2> HIDE DEF due
  <2>3. TickerOK'
    BY <1>0, <2>1, <2>2 DEF TickerOK, TickerLocal, TickerPc
  <2>4. QED
    BY <1>0, <1>6, <2>3 DEF TickPopDue, StoreOK, QueuesOK, LeasesOK, FireIndexOK
<1>7. ASSUME NEW id \in tk.todo, TickEntry(id) PROVE Goal
  <2>1. id \in Task
    BY <1>0 DEF TickerOK, TickerLocal
  <2> DEFINE rest == tk.todo \ {id}
  <2>a. rest \in SUBSET Task
    BY <1>0 DEF TickerOK, TickerLocal
  <2>b. \/ tk' = [tk EXCEPT !.pc = "pushEntry", !.todo = rest, !.cur = id]
        \/ tk' = [tk EXCEPT !.todo = rest] /\ tk.pc = "entries"
    BY <1>7 DEF TickEntry
  <2> HIDE DEF rest
  <2>2. TickerOK'
    <3>1. CASE tk' = [tk EXCEPT !.pc = "pushEntry", !.todo = rest, !.cur = id]
      BY <1>0, <2>1, <2>a, <3>1 DEF TickerOK, TickerLocal, TickerPc
    <3>2. CASE tk' = [tk EXCEPT !.todo = rest] /\ tk.pc = "entries"
      BY <1>0, <2>a, <3>2 DEF TickerOK, TickerLocal, TickerPc
    <3>3. QED
      BY <2>b, <3>1, <3>2
  <2>3. QED
    BY <1>0, <1>7, <2>2 DEF TickEntry, StoreOK, QueuesOK, LeasesOK, FireIndexOK
<1>8. ASSUME TickPushEntry PROVE Goal
  BY <1>0, <1>8 DEF TickPushEntry, PushReady, TickerOK, TickerLocal, TickerPc,
     StoreOK, QueuesOK, LeasesOK, FireIndexOK
<1>9. ASSUME ReapCollect PROVE Goal
  <2>1. LeasesOK'
    BY <1>0, <1>9 DEF ReapCollect, CollectExpired, LeasesOK, NoLease
  <2>2. TickerOK'
    BY <1>0, <1>9 DEF ReapCollect, Expired, TickerOK, TickerLocal, TickerPc, LeasesOK
  <2>3. QED
    BY <1>0, <1>9, <2>1, <2>2 DEF ReapCollect, StoreOK, QueuesOK, FireIndexOK
<1>10. ASSUME NEW l \in tk.expired, ReapRequeue(l) PROVE Goal
  <2>1. l \in Lease /\ l.task \in Task
    BY <1>0 DEF TickerOK, TickerLocal, Lease
  <2> DEFINE rest == tk.expired \ {l}
  <2>a. rest \in SUBSET Lease
    BY <1>0 DEF TickerOK, TickerLocal
  <2>b. \/ tk' = [tk EXCEPT !.pc = "pushReaped", !.expired = rest, !.cur = l.task]
        \/ tk' = [tk EXCEPT !.expired = rest] /\ tk.pc = "expired"
    BY <1>10 DEF ReapRequeue
  <2> HIDE DEF rest
  <2>2. TickerOK'
    BY <1>0, <2>a, <2>b, <2>1 DEF TickerOK, TickerLocal, TickerPc
  <2>3. StoreOK'
    BY <1>0, <1>10, <2>1, EnterType DEF ReapRequeue, Transition, TaskState, StoreOK
  <2>4. QED
    BY <1>0, <1>10, <2>2, <2>3 DEF ReapRequeue, QueuesOK, LeasesOK, FireIndexOK
<1>11. ASSUME ReapPush PROVE Goal
  BY <1>0, <1>11 DEF ReapPush, PushReady, TickerOK, TickerLocal, TickerPc,
     StoreOK, QueuesOK, LeasesOK, FireIndexOK
<1>12. Goal
  BY <1>1, <1>2, <1>2a, <1>2b, <1>3, <1>4, <1>5, <1>6, <1>7, <1>8, <1>9, <1>10, <1>11
     DEF TickerRuns, Ticker
<1>13. UNCHANGED <<clock, registryVars, ex, records, cl>>
  BY DEF TickerRuns
<1>14. QED
  BY <1>0, <1>12, <1>13 DEF TypeInv, registryVars, RosterOK, ExecutorsOK, ClientsOK, RecordsOK

\* One executor moves on and its new local state is well-formed.
LEMMA ExecutorsUpdate ==
  ASSUME ExecutorsOK, NEW e \in Executor, NEW r \in ExecutorLocal,
         r.pc \notin {"idle", "again"} => r.task \in Task,
         ex' = [ex EXCEPT ![e] = r]
  PROVE  ExecutorsOK'
BY DEF ExecutorsOK

\* Every step of RunNext preserves the type invariant: from Pop to Release the
\* executor holds a task.
LEMMA TypeExecutor ==
  ASSUME TypeInv, NEW e \in Executor, ExecutorRuns(e)
  PROVE  TypeInv'
<1> DEFINE Goal == StoreOK' /\ QueuesOK' /\ LeasesOK' /\ ExecutorsOK' /\ RecordsOK'
<1> USE ModelAssumption DEF queueVars, leaseVars, Time
<1>0. /\ StoreOK /\ QueuesOK /\ LeasesOK /\ RosterOK /\ FireIndexOK /\ TickerOK
      /\ clock \in Time /\ ExecutorsOK /\ ClientsOK /\ RecordsOK
  BY DEF TypeInv
<1>a. /\ ex[e] \in ExecutorLocal
      /\ ex[e].pc \notin {"idle", "again"} => ex[e].task \in Task
  BY <1>0 DEF ExecutorsOK
<1>b. ASSUME ToIdle(e) PROVE ExecutorsOK'
  BY <1>0, <1>b DEF ToIdle, IdleExecutor, ExecutorsOK, ExecutorLocal, ExecutorPc, Status, NoLease
<1>c. ASSUME ToRelease(e), ex[e].pc \notin {"idle", "again"} PROVE ExecutorsOK'
  BY <1>0, <1>a, <1>c DEF ToRelease, IdleExecutor, ExecutorsOK, ExecutorLocal, ExecutorPc, Status, NoLease
<1>1. ASSUME Pop(e) PROVE Goal
  <2> DEFINE now == IF ex[e].pc = "idle" THEN clock ELSE ex[e].now
  <2>1. PICK id \in ready :
          /\ PopReady(id)
          /\ ex' = [ex EXCEPT ![e] = [ex[e] EXCEPT !.pc = "popped", !.task = id, !.now = now]]
    BY <1>0, <1>1 DEF Pop, ExecutorsOK
  <2>2. id \in Task
    BY <1>0 DEF QueuesOK
  <2>a. now \in Time
    BY <1>0, <1>a DEF ExecutorLocal
  <2> HIDE DEF now
  <2> DEFINE r == [ex[e] EXCEPT !.pc = "popped", !.task = id, !.now = now]
  <2>b. r \in ExecutorLocal /\ r.task \in Task
    BY <1>a, <2>a, <2>2 DEF ExecutorLocal, ExecutorPc
  <2>3. ExecutorsOK'
    BY <1>0, <2>1, <2>b, ExecutorsUpdate
  <2>4. QED
    BY <1>0, <1>1, <2>1, <2>3 DEF Pop, PopReady, StoreOK, QueuesOK, LeasesOK, RecordsOK
<1>2. ASSUME PopNothing(e) PROVE Goal
  BY <1>0, <1>b, <1>2 DEF PopNothing, StoreOK, QueuesOK, LeasesOK, RecordsOK
<1>3. ASSUME TakeReady(e) PROVE Goal
  <2>1. ex[e].task \in Task
    BY <1>a, <1>3 DEF TakeReady
  <2>2. StoreOK'
    BY <1>0, <1>3, <2>1, EnterType DEF TakeReady, Transition, TaskState, StoreOK
  <2>3. tasks'[ex[e].task].version \in Nat
    BY <2>1, <2>2 DEF StoreOK, TaskRec
  <2>4. ExecutorsOK'
    BY <1>0, <1>b, <1>3, <2>1, <2>3 DEF TakeReady, ExecutorsOK, ExecutorLocal, ExecutorPc
  <2>5. QED
    BY <1>0, <1>3, <2>2, <2>4 DEF TakeReady, QueuesOK, LeasesOK, RecordsOK
<1>4. ASSUME BindLease(e) PROVE Goal
  <2>1. ex[e].task \in Task /\ ex[e].version \in Nat /\ ex[e].now \in Time
    BY <1>a, <1>4 DEF BindLease, ExecutorLocal
  <2>2. LeasesOK'
    BY <1>0, <1>4, <2>1, BindType DEF BindLease
  <2> DEFINE lid == leaseSeq'
             r == [ex[e] EXCEPT !.pc = "running", !.lease = lid, !.now = 0]
  <2>a. lid \in Nat /\ ex' = [ex EXCEPT ![e] = r]
    BY <1>4, <2>2 DEF BindLease, LeasesOK
  <2> HIDE DEF lid
  <2>b. r \in ExecutorLocal /\ r.task \in Task
    BY <1>a, <2>a, <2>1 DEF ExecutorLocal, ExecutorPc
  <2>3. ExecutorsOK'
    BY <1>0, <2>a, <2>b, ExecutorsUpdate
  <2>4. QED
    BY <1>0, <1>4, <2>2, <2>3 DEF BindLease, StoreOK, QueuesOK, RecordsOK
<1>5. ASSUME PickFails(e) PROVE Goal
  <2>1. ex[e].task \in Task
    BY <1>a, <1>5 DEF PickFails
  <2>2. StoreOK'
    BY <1>0, <1>5, <2>1, EnterType DEF PickFails, Transition, TaskState, StoreOK
  <2>3. ExecutorsOK'
    BY <1>0, <1>5, <2>1 DEF PickFails, ExecutorsOK, ExecutorLocal, ExecutorPc
  <2>4. QED
    BY <1>0, <1>5, <2>2, <2>3 DEF PickFails, QueuesOK, LeasesOK, RecordsOK
<1>6. ASSUME Repush(e) PROVE Goal
  BY <1>0, <1>a, <1>b, <1>6 DEF Repush, PushReady, StoreOK, QueuesOK, LeasesOK, RecordsOK
<1>7. ASSUME Finish(e) PROVE Goal
  <2>1. ex[e].task \in Task
    BY <1>a, <1>7 DEF Finish
  <2>2. tasks[ex[e].task].version \in Nat /\ tasks[ex[e].task].retriesLeft \in Nat
    BY <1>0, <2>1 DEF StoreOK, TaskRec
  <2>d. CASE ToRelease(e)
    <3>1. ExecutorsOK'
      BY <1>c, <1>7, <2>d DEF Finish
    <3>2. UNCHANGED <<tasks, queueVars, leaseVars, records>>
      BY <1>7 DEF Finish
    <3>3. QED
      BY <1>0, <3>1, <3>2 DEF StoreOK, QueuesOK, LeasesOK, RecordsOK
  <2> SUFFICES ASSUME ~ToRelease(e) PROVE Goal
    BY <2>d
  <2> DEFINE seen == tasks[ex[e].task].version
             left == tasks[ex[e].task].retriesLeft
  <2>a. PICK status \in Status :
          ex' = [ex EXCEPT ![e] = [ex[e] EXCEPT !.pc = "check", !.status = status,
                                     !.now = clock, !.seen = seen, !.left = left]]
    BY <1>0, <1>7 DEF Finish, ExecutorsOK
  <2> HIDE DEF seen, left
  <2>b. seen \in Nat /\ left \in Nat
    BY <2>2 DEF seen, left
  <2> DEFINE r == [ex[e] EXCEPT !.pc = "check", !.status = status,
                                     !.now = clock, !.seen = seen, !.left = left]
  <2>c. r \in ExecutorLocal /\ r.task \in Task
    BY <1>0, <1>a, <2>1, <2>b DEF ExecutorLocal, ExecutorPc
  <2>3. ExecutorsOK'
    BY <1>0, <2>a, <2>c, ExecutorsUpdate
  <2>4. QED
    BY <1>0, <1>7, <2>3 DEF Finish, StoreOK, QueuesOK, LeasesOK, RecordsOK
<1>8. ASSUME CheckLease(e) PROVE Goal
  <2>1. ex[e].task \in Task /\ ex[e].status \in Status
    BY <1>a, <1>8 DEF CheckLease, ExecutorLocal
  <2>2. RecordsOK'
    <3>1. CASE UNCHANGED records
      BY <1>0, <3>1 DEF RecordsOK
    <3>2. CASE records' = [records EXCEPT ![ex[e].task][ex[e].status] = @ + 1]
      BY <1>0, <2>1, <3>2 DEF RecordsOK
    <3>3. QED
      BY <1>8, <3>1, <3>2 DEF CheckLease
  <2>3. ExecutorsOK'
    BY <1>0, <1>8, <1>c, <2>1 DEF CheckLease, ExecutorsOK, ExecutorLocal, ExecutorPc
  <2>4. QED
    BY <1>0, <1>8, <2>2, <2>3 DEF CheckLease, StoreOK, QueuesOK, LeasesOK
<1>9. ASSUME ApplyResult(e) PROVE Goal
  <2>1. ex[e].task \in Task /\ ex[e].seen \in Nat /\ ex[e].now + RetryDelay \in Time
    BY <1>a, <1>9 DEF ApplyResult, ExecutorLocal
  <2>2. ASSUME NEW to \in TaskState, ApplyFinal(e, to) PROVE StoreOK' /\ ExecutorsOK'
    BY <1>0, <1>9, <1>c, <2>1, <2>2, EnterType DEF ApplyResult, ApplyFinal, Transition, StoreOK
  <2>3. ASSUME ApplyRetry(e) PROVE StoreOK'
    BY <1>0, <2>1, <2>3, RetryType DEF ApplyRetry, StoreOK
  <2>4. ASSUME ApplyRetry(e) PROVE ExecutorsOK'
    BY <1>0, <1>9, <1>c, <2>1, <2>4 DEF ApplyResult, ApplyRetry, ExecutorsOK, ExecutorLocal, ExecutorPc
  <2>5. StoreOK' /\ ExecutorsOK'
    BY <1>9, <2>2, <2>3, <2>4 DEF ApplyResult, TaskState
  <2>6. QED
    BY <1>0, <1>9, <2>5 DEF ApplyResult, QueuesOK, LeasesOK, RecordsOK
<1>10. ASSUME ScheduleRetry(e) PROVE Goal
  <2>1. ex[e].task \in Task /\ ex[e].now + RetryDelay \in Time
    BY <1>a, <1>10 DEF ScheduleRetry, ExecutorLocal
  <2>2. ExecutorsOK'
    BY <1>10, <1>c DEF ScheduleRetry
  <2>3. QueuesOK'
    BY <1>0, <1>10, <2>1, PushDelayedType DEF ScheduleRetry, QueuesOK
  <2>4. QED
    BY <1>0, <1>10, <2>2, <2>3 DEF ScheduleRetry, StoreOK, LeasesOK, RecordsOK
<1>11. ASSUME ReleaseLease(e) PROVE Goal
  <2>1. LeasesOK'
    BY <1>0, <1>a, <1>11, ReleaseType DEF ReleaseLease, ExecutorLocal
  <2>2. QED
    BY <1>0, <1>b, <1>11, <2>1 DEF ReleaseLease, StoreOK, QueuesOK, RecordsOK
<1>12. Goal
  BY <1>1, <1>2, <1>3, <1>4, <1>5, <1>6, <1>7, <1>8, <1>9, <1>10, <1>11
     DEF ExecutorRuns, ExecutorStep
<1>13. UNCHANGED <<clock, registryVars, nextFire, tk, cl>>
  BY DEF ExecutorRuns
<1>14. QED
  BY <1>0, <1>12, <1>13 DEF TypeInv, registryVars, RosterOK, FireIndexOK, TickerOK, ClientsOK

\* One request slot moves on and its new local state is well-formed.
LEMMA ClientsUpdate ==
  ASSUME ClientsOK, NEW c \in Client, NEW r \in ClientLocal,
         r.pc \notin WorkerPc => r.task \in Task,
         r.pc = "enroll" => r.worker \in Worker,
         r.pc = "save" => r.state \notin Absent,
         r.pc = "cancel" => r.state \notin Terminal \cup Absent,
         cl' = [cl EXCEPT ![c] = r]
  PROVE  ClientsOK'
BY DEF ClientsOK

\* A request that arrives at a handler preserves the type invariant.
LEMMA TypeRequest ==
  ASSUME TypeInv, NEW c \in Client, RequestArrives(c)
  PROVE  TypeInv'
<1> DEFINE Goal == StoreOK' /\ QueuesOK' /\ LeasesOK' /\ RosterOK' /\ FireIndexOK' /\ ClientsOK'
<1> USE ModelAssumption DEF queueVars, leaseVars, registryVars, Time
<1>0. /\ StoreOK /\ QueuesOK /\ LeasesOK /\ RosterOK /\ FireIndexOK /\ TickerOK
      /\ clock \in Time /\ ExecutorsOK /\ ClientsOK /\ RecordsOK
  BY DEF TypeInv
<1>a. cl[c] \in ClientLocal
  BY <1>0 DEF ClientsOK
<1>1. ASSUME NEW id \in Task, RegisterSave(c, id) PROVE Goal
  <2>1. PICK at \in 0..MaxTime :
          /\ Insert(id, at)
          /\ cl' = [cl EXCEPT ![c] = [cl[c] EXCEPT !.pc = "track", !.task = id, !.at = at]]
    BY <1>0, <1>1 DEF RegisterSave, ClientsOK
  <2>2. StoreOK'
    BY <1>0, <2>1, InsertType
  <2> DEFINE r == [cl[c] EXCEPT !.pc = "track", !.task = id, !.at = at]
  <2>3. r \in ClientLocal /\ r.task = id /\ r.pc \notin {"enroll", "save", "cancel"}
    <3>1. at \in Time
      OBVIOUS
    <3>2. QED
      BY <1>a, <3>1 DEF ClientLocal, ClientPc
  <2>4. ClientsOK'
    BY <1>0, <2>1, <2>3, ClientsUpdate
  <2>5. QED
    BY <1>0, <1>1, <2>2, <2>4 DEF RegisterSave, QueuesOK, LeasesOK, RosterOK, FireIndexOK
<1>2. ASSUME NEW id \in Task, TriggerGet(c, id) PROVE Goal
  <2> DEFINE r == [cl[c] EXCEPT !.pc = "mark", !.task = id]
  <2>1. r \in ClientLocal /\ r.task = id /\ r.pc \notin {"enroll", "save", "cancel"}
    BY <1>a DEF ClientLocal, ClientPc
  <2>2. cl' = [cl EXCEPT ![c] = r]
    BY <1>0, <1>2 DEF TriggerGet, ClientsOK
  <2>3. ClientsOK'
    BY <1>0, <2>1, <2>2, ClientsUpdate
  <2>4. QED
    BY <1>0, <1>2, <2>3 DEF TriggerGet, StoreOK, QueuesOK, LeasesOK, RosterOK, FireIndexOK
<1>3. ASSUME NEW id \in Task, CancelGet(c, id) PROVE Goal
  <2> DEFINE state == tasks[id].state
             version == tasks[id].version
             r == [cl[c] EXCEPT !.pc = "cancel", !.task = id, !.state = state,
                                !.version = version]
  <2>1. cl' = [cl EXCEPT ![c] = r]
    BY <1>0, <1>3 DEF CancelGet, ClientsOK
  <2>2. state \in TaskState \ (Terminal \cup Absent) /\ version \in Nat
    BY <1>0, <1>3 DEF CancelGet, StoreOK, TaskRec
  <2> HIDE DEF state, version
  <2>3. r \in ClientLocal /\ r.task = id /\ r.pc = "cancel" /\ r.state \notin Terminal \cup Absent
    BY <1>a, <2>2 DEF ClientLocal, ClientPc
  <2>4. ClientsOK'
    BY <1>0, <2>1, <2>3, ClientsUpdate
  <2>5. QED
    BY <1>0, <1>3, <2>4 DEF CancelGet, StoreOK, QueuesOK, LeasesOK, RosterOK, FireIndexOK
<1>4. ASSUME NEW id \in CronTask, CronGet(c, id) PROVE Goal
  <2> DEFINE retries == tasks[id].retriesLeft
             state == tasks[id].state
  <2>1. id \in Task /\ retries \in Nat /\ state \in TaskState \ Absent
    BY <1>0, <1>4 DEF CronGet, StoreOK, TaskRec
  <2>2. PICK at \in CronNext(clock) :
          cl' = [cl EXCEPT ![c] = [cl[c] EXCEPT !.pc = "save", !.task = id, !.at = at,
                                                !.state = state, !.retries = retries]]
    BY <1>0, <1>4 DEF CronGet, ClientsOK
  <2>3. at \in Time
    BY <1>0 DEF CronNext
  <2> HIDE DEF retries, state
  <2> DEFINE r == [cl[c] EXCEPT !.pc = "save", !.task = id, !.at = at,
                                !.state = state, !.retries = retries]
  <2>4. r \in ClientLocal /\ r.task = id /\ r.pc = "save" /\ r.state \notin Absent
    BY <1>a, <2>1, <2>3 DEF ClientLocal, ClientPc
  <2>5. ClientsOK'
    BY <1>0, <2>1, <2>2, <2>4, ClientsUpdate
  <2>6. QED
    BY <1>0, <1>4, <2>5 DEF CronGet, StoreOK, QueuesOK, LeasesOK, RosterOK, FireIndexOK
<1>5. ASSUME NEW op, NEW pc \in WorkerPc \cap ClientPc, NEW w \in Worker,
             WorkerCalls(c, op, pc, w)
      PROVE  Goal
  <2> DEFINE r == [cl[c] EXCEPT !.pc = pc, !.worker = w, !.at = clock]
  <2>1. r \in ClientLocal /\ r.pc \in WorkerPc /\ r.worker \in Worker
    BY <1>0, <1>a DEF ClientLocal
  <2>2. cl' = [cl EXCEPT ![c] = r]
    BY <1>0, <1>5 DEF WorkerCalls, ClientsOK
  <2>3. ClientsOK'
    BY <1>0, <2>1, <2>2, ClientsUpdate DEF WorkerPc
  <2>4. QED
    BY <1>0, <1>5, <2>3 DEF WorkerCalls, StoreOK, QueuesOK, LeasesOK, RosterOK, FireIndexOK
<1>6. Goal
  BY <1>1, <1>2, <1>3, <1>4, <1>5 DEF RequestArrives, Request, WorkerPc, ClientPc
<1>7. UNCHANGED <<clock, tk, ex, records>>
  BY DEF RequestArrives
<1>8. QED
  BY <1>0, <1>6, <1>7 DEF TypeInv, TickerOK, ExecutorsOK, RecordsOK

\* Every further step of a request handler preserves the type invariant.
LEMMA TypeHandler ==
  ASSUME TypeInv, NEW c \in Client, HandlerRuns(c)
  PROVE  TypeInv'
<1> DEFINE Goal == StoreOK' /\ QueuesOK' /\ LeasesOK' /\ RosterOK' /\ FireIndexOK' /\ ClientsOK'
<1> USE ModelAssumption DEF queueVars, leaseVars, registryVars, Time
<1>0. /\ StoreOK /\ QueuesOK /\ LeasesOK /\ RosterOK /\ FireIndexOK /\ TickerOK
      /\ clock \in Time /\ ExecutorsOK /\ ClientsOK /\ RecordsOK
  BY DEF TypeInv
<1>a. /\ cl[c] \in ClientLocal
      /\ cl[c].pc \notin WorkerPc => cl[c].task \in Task
      /\ cl[c].pc = "enroll" => cl[c].worker \in Worker
      /\ cl[c].pc = "save" => cl[c].state \notin Absent
      /\ cl[c].pc = "cancel" => cl[c].state \notin Terminal \cup Absent
  BY <1>0 DEF ClientsOK
<1>b. IdleClient \in ClientLocal /\ IdleClient.pc = "idle"
  BY DEF IdleClient, ClientLocal, ClientPc, TaskState
<1>p. ASSUME cl[c].pc \in {"track", "mark", "push", "cancel", "unready", "undelay", "untrack",
                          "save", "refresh"}
      PROVE  cl[c].task \in Task
  BY <1>a, <1>p DEF WorkerPc
<1>c. ASSUME Done(c) PROVE ClientsOK'
  BY <1>0, <1>b, <1>c, ClientsUpdate DEF Done, WorkerPc
<1>d. ASSUME NEW pc \in ClientPc \ {"enroll", "save", "cancel"}, Goto(c, pc), cl[c].task \in Task PROVE ClientsOK'
  BY <1>0, <1>d DEF Goto, ClientsOK, ClientLocal
<1>1. ASSUME RegisterTrack(c) PROVE Goal
  BY <1>0, <1>a, <1>p, <1>c, <1>1 DEF RegisterTrack, SetNextFire, ClientLocal,
     StoreOK, QueuesOK, LeasesOK, RosterOK, FireIndexOK
<1>2. ASSUME TriggerMark(c) PROVE Goal
  <2>1. StoreOK'
    BY <1>0, <1>a, <1>p, <1>2, EnterType DEF TriggerMark, MarkReady, TaskState, StoreOK
  <2>2. ClientsOK'
    BY <1>a, <1>p, <1>d, <1>2 DEF TriggerMark, ClientPc
  <2>3. QED
    BY <1>0, <1>2, <2>1, <2>2 DEF TriggerMark, QueuesOK, LeasesOK, RosterOK, FireIndexOK
<1>3. ASSUME TriggerPush(c) PROVE Goal
  BY <1>0, <1>a, <1>p, <1>c, <1>3 DEF TriggerPush, PushReady, StoreOK, QueuesOK, LeasesOK, RosterOK, FireIndexOK
<1>4. ASSUME CancelTransition(c) PROVE Goal
  <2>1. cl[c].task \in Task
    BY <1>a, <1>p, <1>4 DEF CancelTransition
  <2>2. StoreOK'
    BY <1>0, <1>4, <2>1, EnterType DEF CancelTransition, Transition, TaskState, StoreOK
  <2> DEFINE r == [IdleClient EXCEPT !.pc = "unready", !.task = cl[c].task]
  <2>3. r \in ClientLocal /\ r.task \in Task /\ r.pc \notin {"enroll", "save", "cancel"}
    BY <1>b, <2>1 DEF IdleClient, ClientLocal, ClientPc
  <2>4. ClientsOK'
    BY <1>0, <1>c, <1>4, <2>3, ClientsUpdate DEF CancelTransition
  <2>5. QED
    BY <1>0, <1>4, <2>2, <2>4 DEF CancelTransition, QueuesOK, LeasesOK, RosterOK, FireIndexOK
<1>5. ASSUME CancelUnready(c) PROVE Goal
  <2>1. ClientsOK'
    BY <1>a, <1>p, <1>d, <1>5 DEF CancelUnready, ClientPc
  <2>2. QED
    BY <1>0, <1>5, <2>1 DEF CancelUnready, RemoveReady, StoreOK, QueuesOK, LeasesOK, RosterOK, FireIndexOK
<1>6. ASSUME CancelUndelay(c) PROVE Goal
  <2>1. ClientsOK'
    BY <1>a, <1>p, <1>d, <1>6 DEF CancelUndelay, ClientPc
  <2>2. QED
    BY <1>0, <1>6, <2>1 DEF CancelUndelay, RemoveDelayed, StoreOK, QueuesOK, LeasesOK, RosterOK, FireIndexOK
<1>7. ASSUME CancelUntrack(c) PROVE Goal
  BY <1>0, <1>c, <1>7 DEF CancelUntrack, SetNextFire, Untracked,
     StoreOK, QueuesOK, LeasesOK, RosterOK, FireIndexOK
<1>8. ASSUME CronSave(c) PROVE Goal
  <2>1. /\ cl[c].task \in Task /\ cl[c].retries \in Nat /\ cl[c].at \in Time
        /\ cl[c].state \in TaskState
    BY <1>a, <1>p, <1>8 DEF CronSave, ClientLocal
  <2>2. StoreOK'
    BY <1>0, <1>8, <2>1, OverwriteType, InsertCopyType DEF CronSave, StoreOK
  <2>3. ClientsOK'
    BY <1>c, <1>d, <1>8, <2>1 DEF CronSave, ClientPc
  <2>4. QED
    BY <1>0, <1>8, <2>2, <2>3 DEF CronSave, QueuesOK, LeasesOK, RosterOK, FireIndexOK
<1>9. ASSUME CronRefresh(c) PROVE Goal
  BY <1>0, <1>a, <1>p, <1>c, <1>9 DEF CronRefresh, SetNextFire, ClientLocal,
     StoreOK, QueuesOK, LeasesOK, RosterOK, FireIndexOK
<1>10. ASSUME HeartbeatRenew(c) PROVE Goal
  <2>1. PICK lid \in cl[c].todo :
          /\ Renew(lid, cl[c].worker, cl[c].at)
          /\ IF cl[c].todo = {lid} THEN Done(c)
                                   ELSE cl' = [cl EXCEPT ![c].todo = @ \ {lid}]
    BY <1>10 DEF HeartbeatRenew
  <2>2. lid \in Nat /\ cl[c].at \in Time
    BY <1>a DEF ClientLocal
  <2>3. LeasesOK'
    BY <1>0, <2>1, <2>2, RenewType
  <2>4. ClientsOK'
    BY <1>0, <1>c, <2>1 DEF ClientsOK, ClientLocal
  <2>5. QED
    BY <1>0, <1>10, <2>3, <2>4 DEF HeartbeatRenew, StoreOK, QueuesOK, RosterOK, FireIndexOK
<1>11. ASSUME EnrollWorker(c) PROVE Goal
  <2>1. cl[c].at \in Time /\ cl[c].worker \in Worker
    BY <1>0, <1>a, <1>11 DEF EnrollWorker, ClientLocal, ClientsOK
  <2>2. RosterOK'
    BY <1>0, <1>11, <2>1 DEF EnrollWorker, Register, RosterOK
  <2>3. QED
    BY <1>0, <1>c, <1>11, <2>2 DEF EnrollWorker, StoreOK, QueuesOK, LeasesOK, FireIndexOK
<1>12. ASSUME HeartbeatMark(c) PROVE Goal
  <2>1. cl[c].at \in Time
    BY <1>0, <1>a, <1>12 DEF HeartbeatMark, ClientLocal
  <2>2. RosterOK'
    BY <1>0, <1>12, <2>1 DEF HeartbeatMark, Heartbeat, RosterOK
  <2> DEFINE r == [cl[c] EXCEPT !.pc = "list", !.at = clock]
  <2>3. r \in ClientLocal /\ r.pc \in WorkerPc \ {"enroll"}
    BY <1>0, <1>a DEF ClientLocal, ClientPc, WorkerPc
  <2>4. ClientsOK'
    BY <1>0, <1>c, <1>12, <2>3, ClientsUpdate DEF HeartbeatMark, WorkerPc
  <2>5. QED
    BY <1>0, <1>12, <2>2, <2>4 DEF HeartbeatMark, StoreOK, QueuesOK, LeasesOK, FireIndexOK
<1>13. ASSUME HeartbeatList(c) PROVE Goal
  <2> DEFINE todo == LeasesOf(cl[c].worker)
             r == [cl[c] EXCEPT !.pc = "renew", !.todo = todo]
  <2>1. todo \in SUBSET Nat
    BY <1>0 DEF LeasesOf, LeasesOK, Lease
  <2>2. Done(c) \/ cl' = [cl EXCEPT ![c] = r]
    BY <1>0, <1>13 DEF HeartbeatList, ClientsOK
  <2> HIDE DEF todo
  <2>3. r \in ClientLocal /\ r.pc \in WorkerPc \ {"enroll"}
    BY <1>a, <2>1 DEF ClientLocal, ClientPc, WorkerPc
  <2>4. ClientsOK'
    BY <1>0, <1>c, <2>2, <2>3, ClientsUpdate DEF WorkerPc
  <2>5. QED
    BY <1>0, <1>13, <2>4 DEF HeartbeatList, StoreOK, QueuesOK, LeasesOK, RosterOK, FireIndexOK
<1>14. Goal
  BY <1>1, <1>2, <1>3, <1>4, <1>5, <1>6, <1>7, <1>8, <1>9, <1>10, <1>11, <1>12, <1>13
     DEF HandlerRuns, Handle
<1>15. UNCHANGED <<clock, tk, ex, records>>
  BY DEF HandlerRuns
<1>16. QED
  BY <1>0, <1>14, <1>15 DEF TypeInv, TickerOK, ExecutorsOK, RecordsOK

\* Every step of the scheduler, whoever takes it, preserves the type invariant.
LEMMA TypeStep ==
  ASSUME TypeInv, [Next]_vars
  PROVE  TypeInv'
<1>1. CASE TimePasses
  BY <1>1 DEF TimePasses, Advance, queueVars, leaseVars, registryVars, Time, TypeInv, StoreOK, QueuesOK,
     LeasesOK, RosterOK, FireIndexOK, TickerOK, ExecutorsOK, ClientsOK, RecordsOK
<1>2. CASE UNCHANGED vars
  BY <1>2 DEF vars, queueVars, leaseVars, registryVars, TypeInv, StoreOK, QueuesOK,
     LeasesOK, RosterOK, FireIndexOK, TickerOK, ExecutorsOK, ClientsOK, RecordsOK
<1>3. CASE WorkerBeats
  BY <1>3, RegistryAssumption DEF WorkerBeats, HomeHeartbeat, Heartbeat, queueVars, leaseVars,
     TypeInv, StoreOK, QueuesOK, LeasesOK, RosterOK, FireIndexOK, TickerOK, ExecutorsOK,
     ClientsOK, RecordsOK
<1>4. QED
  BY <1>1, <1>2, <1>3, TypeTicker, TypeExecutor, TypeRequest, TypeHandler DEF Next

\* Type correctness: every local task variable is set where it is used, no
\* retry budget or version goes below zero, and every lease that is stored or
\* in the reaper's hands names a task of the store and an identifier issued.
THEOREM TypeCorrect == Spec => []TypeOK
<1>1. Spec => []TypeInv
  BY TypeInit, TypeStep, PTL DEF Spec
<1>2. QED
  BY <1>1, TypeInvImpliesTypeOK, PTL

(***************************************************************************)
(* What one step of Schedd does to the record it updates, stated field by  *)
(* field.  The proofs about executors and about the store cite these       *)
(* lemmas and never look inside a record again.                            *)
(***************************************************************************)
(***************************************************************************)
(* The task store.                                                         *)
(***************************************************************************)
Others(id) == \A other \in Task \ {id} : tasks'[other] = tasks[other]

\* A state change of the store (Transition, MarkReady) touches state and version.
LEMMA EnterFacts ==
  ASSUME StoreOK, NEW id \in Task, NEW to, Enter(id, to)
  PROVE  /\ tasks'[id].state = to
         /\ tasks'[id].version = tasks[id].version + 1
         /\ tasks'[id].retriesLeft = tasks[id].retriesLeft
         /\ tasks'[id].nextRunAt = tasks[id].nextRunAt
         /\ Others(id)
BY DEF Enter, StoreOK, Others

\* TaskStore.Save of a new task brings it to life as Pending, with its budget.
LEMMA InsertFacts ==
  ASSUME StoreOK, NEW id \in Task, NEW at, Insert(id, at)
  PROVE  /\ tasks[id].state = "none"
         /\ tasks'[id].state = "pending"
         /\ tasks'[id].version = 1
         /\ tasks'[id].retriesLeft = MaxRetries
         /\ tasks'[id].nextRunAt = at
         /\ Others(id)
BY DEF Insert, StoreOK, Others

\* TaskStore.Save over a stored task keeps its state and nothing else.
LEMMA OverwriteFacts ==
  ASSUME StoreOK, NEW id \in Task, NEW retries, NEW at, Overwrite(id, retries, at)
  PROVE  /\ tasks[id].state \notin Absent \cup {"canceled"}
         /\ tasks'[id].state = tasks[id].state
         /\ tasks'[id].version = tasks[id].version + 1
         /\ tasks'[id].retriesLeft = retries
         /\ tasks'[id].nextRunAt = at
         /\ Others(id)
BY DEF Overwrite, StoreOK, Others

\* TaskStore.Save of a copy of a removed task brings the copy's state along.
LEMMA InsertCopyFacts ==
  ASSUME StoreOK, NEW id \in Task, NEW state, NEW retries, NEW at,
         InsertCopy(id, state, retries, at)
  PROVE  /\ tasks[id].state = "gone"
         /\ tasks'[id].state = state
         /\ tasks'[id].version = 1
         /\ tasks'[id].retriesLeft = retries
         /\ tasks'[id].nextRunAt = at
         /\ Others(id)
BY DEF InsertCopy, StoreOK, Others

\* TaskStore.SetNextRun touches the run time only.
LEMMA SetNextRunFacts ==
  ASSUME StoreOK, NEW id \in Task, NEW next, SetNextRun(id, next)
  PROVE  /\ tasks[id].state \notin Absent
         /\ tasks'[id].state = tasks[id].state
         /\ tasks'[id].version = tasks[id].version
         /\ tasks'[id].retriesLeft = tasks[id].retriesLeft
         /\ tasks'[id].nextRunAt = next
         /\ Others(id)
BY DEF SetNextRun, StoreOK, TaskRec, Others

\* TaskStore.Retry spends one retry and makes the task Ready, whatever it was.
LEMMA RetryFacts ==
  ASSUME StoreOK, NEW id \in Task, NEW next, NEW v, Retry(id, next, v)
  PROVE  /\ tasks[id].version = v /\ tasks[id].retriesLeft > 0
         /\ tasks'[id].state = "ready"
         /\ tasks'[id].version = tasks[id].version + 1
         /\ tasks'[id].retriesLeft = tasks[id].retriesLeft - 1
         /\ tasks'[id].nextRunAt = next
         /\ Others(id)
BY DEF Retry, CanRetry, StoreOK, Others

(***************************************************************************)
(* An executor.                                                            *)
(***************************************************************************)
\* It goes on with the task and the lease it has.
Carries(e) == ex'[e].task = ex[e].task /\ ex'[e].lease = ex[e].lease

\* RunNext changes the local variables of its own goroutine only.
LEMMA ExecutorAlone ==
  ASSUME ExecutorsOK, NEW e \in Executor, ExecutorStep(e)
  PROVE  \A f \in Executor \ {e} : ex'[f] = ex[f]
<1>1. ASSUME NEW f \in Executor \ {e} PROVE ex'[f] = ex[f]
  <2> USE DEF ExecutorsOK
  <2>1. ASSUME ToIdle(e) \/ ToRelease(e) PROVE ex'[f] = ex[f]
    BY <2>1 DEF ToIdle, ToRelease
  <2>2. ASSUME Pop(e) PROVE ex'[f] = ex[f]
    BY <2>2 DEF Pop
  <2>3. ASSUME TakeReady(e) PROVE ex'[f] = ex[f]
    BY <2>1, <2>3 DEF TakeReady
  <2>4. ASSUME BindLease(e) \/ PickFails(e) PROVE ex'[f] = ex[f]
    BY <2>4 DEF BindLease, PickFails
  <2>5. ASSUME Finish(e) \/ CheckLease(e) PROVE ex'[f] = ex[f]
    BY <2>1, <2>5 DEF Finish, CheckLease
  <2>6. ASSUME ApplyResult(e) PROVE ex'[f] = ex[f]
    BY <2>1, <2>6 DEF ApplyResult, ApplyFinal, ApplyRetry
  <2>7. QED
    BY <2>1, <2>2, <2>3, <2>4, <2>5, <2>6 DEF ExecutorStep, PopNothing, Repush, ScheduleRetry,
       ReleaseLease
<1>2. QED
  BY <1>1

\* Between two calls of RunNext an executor has neither task nor lease.
LEMMA IdleFacts ==
  ASSUME ExecutorsOK, NEW e \in Executor, ToIdle(e)
  PROVE  ex'[e].pc = "idle" /\ ex'[e].task = NoTask /\ ex'[e].lease = NoLease
BY DEF ToIdle, IdleExecutor, ExecutorsOK

\* An executor about to release still has its task and its lease.
LEMMA ReleaseFacts ==
  ASSUME ExecutorsOK, NEW e \in Executor, ToRelease(e)
  PROVE  ex'[e].pc = "release" /\ Carries(e)
<1>1. ex'[e] = [IdleExecutor EXCEPT !.pc = "release", !.task = ex[e].task, !.lease = ex[e].lease]
  BY DEF ToRelease, ExecutorsOK
<1>2. QED
  BY <1>1 DEF IdleExecutor, Carries

\* Assign pops a queued task.
LEMMA PopFacts ==
  ASSUME ExecutorsOK, NEW e \in Executor, Pop(e)
  PROVE  /\ ex[e].pc \in {"idle", "again"}
         /\ ex'[e].pc = "popped" /\ ex'[e].task \in ready
         /\ ready' = ready \ {ex'[e].task}
         /\ ex'[e].lease = ex[e].lease
         /\ UNCHANGED <<tasks, delayed, leaseVars, records>>
<1>1. PICK id \in ready :
        /\ PopReady(id)
        /\ ex' = [ex EXCEPT ![e] = [ex[e] EXCEPT !.pc = "popped", !.task = id,
                                      !.now = IF ex[e].pc = "idle" THEN clock ELSE ex[e].now]]
  BY DEF Pop, ExecutorsOK
<1>2. ex'[e].pc = "popped" /\ ex'[e].task = id /\ ex'[e].lease = ex[e].lease
  BY <1>1 DEF ExecutorsOK, ExecutorLocal
<1>3. QED
  BY <1>1, <1>2 DEF Pop, PopReady

\* Assign leases the popped task in the store, or finds that it is not Ready.
LEMMA TakeFacts ==
  ASSUME ExecutorsOK, NEW e \in Executor, TakeReady(e)
  PROVE  /\ ex[e].pc = "popped" /\ ex[e].task \in Task
         /\ ex'[e].lease \in {ex[e].lease, NoLease}
         /\ \/ /\ tasks[ex[e].task].state = "ready" /\ Enter(ex[e].task, "leased")
               /\ ex'[e].pc = "picking" /\ Carries(e)
               /\ ex'[e].version = tasks'[ex[e].task].version
            \/ /\ tasks[ex[e].task].state # "ready" /\ UNCHANGED tasks
               /\ ex'[e].pc \in {"again", "idle"}
         /\ UNCHANGED <<queueVars, leaseVars, records>>
<1>1. ex[e].pc = "popped" /\ ex[e].task \in Task
  BY DEF TakeReady, ExecutorsOK
<1> DEFINE t == ex[e].task
           v == tasks'[t].version
<1>2. CASE ex' = [ex EXCEPT ![e].pc = "picking", ![e].version = v] /\ Transition(t, "ready", "leased", AnyVersion)
  <2>1. tasks[t].state = "ready" /\ Enter(t, "leased")
    BY <1>2 DEF Transition, CanTransition
  <2> HIDE DEF v
  <2>2. ex'[e].pc = "picking" /\ Carries(e) /\ ex'[e].version = v
    BY <1>2 DEF ExecutorsOK, ExecutorLocal, Carries
  <2>3. QED
    BY <1>1, <2>1, <2>2 DEF TakeReady, Carries, v
<1>3. CASE /\ ~CanTransition(t, "ready", AnyVersion) /\ UNCHANGED tasks
           /\ ex' = [ex EXCEPT ![e].pc = "again", ![e].task = NoTask]
  <2>1. ex'[e].pc = "again" /\ ex'[e].lease = ex[e].lease
    BY <1>3 DEF ExecutorsOK, ExecutorLocal
  <2>2. QED
    BY <1>1, <1>3, <2>1 DEF TakeReady, CanTransition, AnyVersion
<1>4. CASE tasks[t].state \in Absent /\ UNCHANGED tasks /\ ToIdle(e)
  BY <1>1, <1>4, IdleFacts DEF TakeReady, Absent
<1>5. QED
  BY <1>2, <1>3, <1>4 DEF TakeReady

\* The handler starts under a lease with a fresh identifier.
LEMMA BindFacts ==
  ASSUME ExecutorsOK, NEW e \in Executor, BindLease(e)
  PROVE  /\ ex[e].pc = "picking" /\ ex[e].task \in Task
         /\ \E w \in Worker : Bind(ex[e].task, w, ex[e].version, ex[e].now)
         /\ ex'[e].pc = "running" /\ ex'[e].lease = leaseSeq'
         /\ ex'[e].task = ex[e].task /\ ex'[e].version = ex[e].version
         /\ UNCHANGED <<tasks, queueVars, records>>
<1> DEFINE lid == leaseSeq'
<1>1. /\ ex[e].pc = "picking"
      /\ ex' = [ex EXCEPT ![e] = [ex[e] EXCEPT !.pc = "running", !.lease = lid, !.now = 0]]
  BY DEF BindLease, ExecutorsOK
<1> HIDE DEF lid
<1>2. /\ ex'[e].pc = "running" /\ ex'[e].lease = lid
      /\ ex'[e].task = ex[e].task /\ ex'[e].version = ex[e].version
  BY <1>1 DEF ExecutorsOK, ExecutorLocal
<1>3. QED
  BY <1>1, <1>2 DEF BindLease, ExecutorsOK, lid

\* Without a live worker the task goes back, unless it has moved on.
LEMMA PickFailsFacts ==
  ASSUME ExecutorsOK, NEW e \in Executor, PickFails(e)
  PROVE  /\ ex[e].pc = "picking" /\ ex[e].task \in Task
         /\ ex'[e].pc = "repush" /\ Carries(e)
         /\ \/ /\ CanTransition(ex[e].task, "leased", ex[e].version)
               /\ Enter(ex[e].task, "ready")
            \/ /\ ~CanTransition(ex[e].task, "leased", ex[e].version)
               /\ UNCHANGED tasks
         /\ UNCHANGED <<queueVars, leaseVars, records>>
<1>1. ex' = [ex EXCEPT ![e].pc = "repush"] /\ ex[e].pc = "picking"
  BY DEF PickFails
<1>2. ex'[e].pc = "repush" /\ Carries(e)
  BY <1>1 DEF ExecutorsOK, ExecutorLocal, Carries
<1>3. QED
  BY <1>1, <1>2 DEF PickFails, Transition, ExecutorsOK

\* RecordResult has read the version and the budget of its task, or has none.
LEMMA FinishFacts ==
  ASSUME ExecutorsOK, NEW e \in Executor, Finish(e)
  PROVE  /\ ex[e].pc = "running" /\ ex[e].task \in Task /\ Carries(e)
         /\ \/ /\ tasks[ex[e].task].state \notin Absent
               /\ ex'[e].pc = "check" /\ ex'[e].version = ex[e].version
               /\ ex'[e].seen = tasks[ex[e].task].version
               /\ ex'[e].left = tasks[ex[e].task].retriesLeft
            \/ tasks[ex[e].task].state \in Absent /\ ex'[e].pc = "release"
         /\ UNCHANGED <<tasks, queueVars, leaseVars, records>>
<1> DEFINE seen == tasks[ex[e].task].version
           left == tasks[ex[e].task].retriesLeft
<1>1. ex[e].pc = "running" /\ ex[e].task \in Task /\ UNCHANGED <<tasks, queueVars, leaseVars, records>>
  BY DEF Finish, ExecutorsOK
<1>2. CASE tasks[ex[e].task].state \in Absent /\ ToRelease(e)
  BY <1>1, <1>2, ReleaseFacts
<1>3. CASE \E status \in Status :
             ex' = [ex EXCEPT ![e] = [ex[e] EXCEPT !.pc = "check", !.status = status,
                                        !.now = clock, !.seen = seen, !.left = left]]
  <2> HIDE DEF seen, left
  <2>1. PICK status \in Status :
          ex' = [ex EXCEPT ![e] = [ex[e] EXCEPT !.pc = "check", !.status = status,
                                     !.now = clock, !.seen = seen, !.left = left]]
    BY <1>3
  <2>2. /\ ex'[e].pc = "check" /\ ex'[e].version = ex[e].version
        /\ ex'[e].seen = seen /\ ex'[e].left = left /\ Carries(e)
    BY <2>1 DEF ExecutorsOK, ExecutorLocal, Carries
  <2>3. tasks[ex[e].task].state \notin Absent
    <3>1. ~ToRelease(e)
      BY <2>2, ReleaseFacts
    <3>2. QED
      BY <3>1 DEF Finish
  <2>4. QED
    BY <1>1, <2>2, <2>3 DEF seen, left
<1>4. QED
  BY <1>2, <1>3 DEF Finish, ExecutorsOK

\* The result is let through and recorded, or refused.
LEMMA CheckFacts ==
  ASSUME ExecutorsOK, NEW e \in Executor, CheckLease(e)
  PROVE  /\ ex[e].pc = "check" /\ ex[e].task \in Task /\ Carries(e)
         /\ \/ /\ IsCurrent(ex[e].task, ex[e].lease, ex[e].seen)
               /\ ex'[e].pc = "apply" /\ ex'[e].version = ex[e].version
               /\ ex'[e].seen = ex[e].seen /\ ex'[e].left = ex[e].left
               /\ ex'[e].status = ex[e].status
               /\ records' = [records EXCEPT ![ex[e].task][ex[e].status] = @ + 1]
            \/ /\ ~IsCurrent(ex[e].task, ex[e].lease, ex[e].seen)
               /\ ex'[e].pc = "release" /\ UNCHANGED records
         /\ UNCHANGED <<tasks, queueVars, leaseVars>>
<1>1. ex[e].pc = "check" /\ ex[e].task \in Task /\ UNCHANGED <<tasks, queueVars, leaseVars>>
  BY DEF CheckLease, ExecutorsOK
<1>2. ASSUME ToRelease(e) PROVE ex'[e].pc = "release" /\ Carries(e)
  BY <1>2, ReleaseFacts
<1>3. ASSUME ex' = [ex EXCEPT ![e].pc = "apply"]
      PROVE  /\ Carries(e) /\ ex'[e].pc = "apply" /\ ex'[e].version = ex[e].version
             /\ ex'[e].seen = ex[e].seen /\ ex'[e].left = ex[e].left
             /\ ex'[e].status = ex[e].status
  BY <1>3 DEF ExecutorsOK, ExecutorLocal, Carries
<1>4. QED
  BY <1>1, <1>2, <1>3 DEF CheckLease

\* The result is applied: a final state is entered, a retry is spent, or the
\* task has moved on.
LEMMA ApplyFacts ==
  ASSUME ExecutorsOK, NEW e \in Executor, ApplyResult(e)
  PROVE  /\ ex[e].pc = "apply" /\ ex[e].task \in Task /\ Carries(e)
         /\ \/ /\ ex'[e].pc = "release"
               /\ CanTransition(ex[e].task, "leased", ex[e].seen)
               /\ \/ ex[e].status = "success" /\ Enter(ex[e].task, "succeeded")
                  \/ ex[e].status = "failure" /\ ex[e].left <= 0 /\ Enter(ex[e].task, "dead")
            \/ /\ ex'[e].pc = "release" /\ UNCHANGED tasks
               /\ ~CanTransition(ex[e].task, "leased", ex[e].seen)
            \/ /\ ex'[e].pc = "schedule" /\ ex[e].status = "failure" /\ ex[e].left > 0
               /\ Retry(ex[e].task, ex[e].now + RetryDelay, ex[e].seen)
            \/ /\ ex'[e].pc = "release" /\ UNCHANGED tasks
               /\ ex[e].left > 0 /\ ~CanRetry(ex[e].task, ex[e].seen)
         /\ UNCHANGED <<queueVars, leaseVars, records>>
<1>1. /\ ex[e].pc = "apply" /\ ex[e].task \in Task
      /\ UNCHANGED <<queueVars, leaseVars, records>>
  BY DEF ApplyResult, ExecutorsOK
<1>2. ASSUME ToRelease(e) PROVE ex'[e].pc = "release" /\ Carries(e)
  BY <1>2, ReleaseFacts
<1>3. ASSUME NEW to, ApplyFinal(e, to)
      PROVE  /\ ex'[e].pc = "release" /\ Carries(e)
             /\ \/ CanTransition(ex[e].task, "leased", ex[e].seen) /\ Enter(ex[e].task, to)
                \/ ~CanTransition(ex[e].task, "leased", ex[e].seen) /\ UNCHANGED tasks
  BY <1>2, <1>3 DEF ApplyFinal, Transition
<1>4. ASSUME ex' = [ex EXCEPT ![e].pc = "schedule"] PROVE ex'[e].pc = "schedule" /\ Carries(e)
  BY <1>4 DEF ExecutorsOK, ExecutorLocal, Carries
<1>5. ASSUME ApplyRetry(e)
      PROVE  /\ Carries(e)
             /\ \/ /\ ex'[e].pc = "schedule"
                   /\ Retry(ex[e].task, ex[e].now + RetryDelay, ex[e].seen)
                \/ /\ ex'[e].pc = "release" /\ UNCHANGED tasks
                   /\ ~CanRetry(ex[e].task, ex[e].seen)
  BY <1>2, <1>4, <1>5 DEF ApplyRetry
<1>6. CASE ex[e].status = "failure" /\ ex[e].left > 0 /\ ApplyRetry(e)
  BY <1>1, <1>5, <1>6
<1>7. CASE ex[e].status = "success" /\ ApplyFinal(e, "succeeded")
  BY <1>1, <1>3, <1>7
<1>8. CASE ex[e].status = "failure" /\ ex[e].left <= 0 /\ ApplyFinal(e, "dead")
  BY <1>1, <1>3, <1>8
<1>9. QED
  BY <1>6, <1>7, <1>8 DEF ApplyResult

(***************************************************************************)
(* A request slot.                                                         *)
(***************************************************************************)
\* A handler changes the local variables of its own goroutine only.
LEMMA ClientAlone ==
  ASSUME ClientsOK, NEW c \in Client, Request(c) \/ Handle(c)
  PROVE  \A d \in Client \ {c} : cl'[d] = cl[d]
<1>1. ASSUME NEW d \in Client \ {c} PROVE cl'[d] = cl[d]
  <2> USE DEF ClientsOK
  <2>1. ASSUME Request(c) PROVE cl'[d] = cl[d]
    BY <2>1 DEF Request, RegisterSave, TriggerGet, CancelGet, CronGet, WorkerCalls
  <2>2. ASSUME Done(c) \/ \E pc : Goto(c, pc) PROVE cl'[d] = cl[d]
    BY <2>2 DEF Done, Goto
  <2>3. ASSUME CancelTransition(c) PROVE cl'[d] = cl[d]
    BY <2>2, <2>3 DEF CancelTransition
  <2>4. ASSUME HeartbeatMark(c) \/ HeartbeatList(c) \/ HeartbeatRenew(c) PROVE cl'[d] = cl[d]
    BY <2>2, <2>4 DEF HeartbeatMark, HeartbeatList, HeartbeatRenew
  <2>5. QED
    BY <2>1, <2>2, <2>3, <2>4 DEF Handle, RegisterTrack, TriggerMark, TriggerPush,
       CancelUnready, CancelUndelay, CancelUntrack, CronSave, CronRefresh, EnrollWorker
<1>2. QED
  BY <1>1

\* A request starts in an idle slot and has read what it will decide on.
LEMMA RequestFacts ==
  ASSUME ClientsOK, NEW c \in Client, Request(c)
  PROVE  /\ cl[c].pc = "idle"
         /\ \/ \E id \in Task, at \in 0..MaxTime :
                 /\ Insert(id, at)
                 /\ cl'[c].pc = "track" /\ cl'[c].task = id /\ cl'[c].at = at
            \/ /\ UNCHANGED tasks
               /\ \/ cl'[c].pc \in {"mark", "cancel", "enroll", "beat"}
                  \/ \E id \in CronTask :
                       /\ "update-cron" \in Ops /\ tasks[id].state \notin Absent
                       /\ cl'[c].pc = "save" /\ cl'[c].task = id
                       /\ cl'[c].retries = tasks[id].retriesLeft
                       /\ cl'[c].state = tasks[id].state
         /\ UNCHANGED <<queueVars, leaseVars, registryVars, nextFire>>
<1> USE DEF ClientsOK, ClientLocal
<1>1. ASSUME NEW id \in Task, RegisterSave(c, id)
      PROVE  \E at \in 0..MaxTime :
               /\ Insert(id, at)
               /\ cl'[c].pc = "track" /\ cl'[c].task = id /\ cl'[c].at = at
  BY <1>1 DEF RegisterSave
<1>2. ASSUME NEW id \in Task, TriggerGet(c, id) PROVE cl'[c].pc = "mark"
  BY <1>2 DEF TriggerGet
<1>3. ASSUME NEW id \in Task, CancelGet(c, id) PROVE cl'[c].pc = "cancel"
  BY <1>3 DEF CancelGet
<1>4. ASSUME NEW id \in CronTask, CronGet(c, id)
      PROVE  /\ "update-cron" \in Ops /\ tasks[id].state \notin Absent
             /\ cl'[c].pc = "save" /\ cl'[c].task = id
             /\ cl'[c].retries = tasks[id].retriesLeft
             /\ cl'[c].state = tasks[id].state
  <2> DEFINE state == tasks[id].state
             retries == tasks[id].retriesLeft
  <2>1. "update-cron" \in Ops /\ state \notin Absent
    BY <1>4 DEF CronGet, Begin
  <2>2. PICK at : cl' = [cl EXCEPT ![c] = [cl[c] EXCEPT !.pc = "save", !.task = id, !.at = at,
                                                       !.state = state, !.retries = retries]]
    BY <1>4 DEF CronGet
  <2> HIDE DEF state, retries
  <2>3. cl'[c].pc = "save" /\ cl'[c].task = id /\ cl'[c].retries = retries /\ cl'[c].state = state
    BY <2>2
  <2>4. QED
    BY <2>1, <2>3 DEF state, retries
<1>5. ASSUME NEW op, NEW pc, NEW w, WorkerCalls(c, op, pc, w) PROVE cl'[c].pc = pc
  BY <1>5 DEF WorkerCalls
<1>6. /\ cl[c].pc = "idle"
      /\ UNCHANGED <<queueVars, leaseVars, registryVars, nextFire>>
      /\ UNCHANGED tasks \/ \E id \in Task : RegisterSave(c, id)
  BY DEF Request, RegisterSave, TriggerGet, CancelGet, CronGet, WorkerCalls, Begin
<1>7. CASE \E id \in Task : RegisterSave(c, id)
  BY <1>1, <1>6, <1>7
<1>8. CASE UNCHANGED tasks /\ \E id \in CronTask : CronGet(c, id)
  BY <1>4, <1>6, <1>8
<1>9. CASE UNCHANGED tasks /\ ~\E id \in CronTask : CronGet(c, id)
  BY <1>2, <1>3, <1>5, <1>6, <1>7, <1>9 DEF Request
<1>10. QED
  BY <1>6, <1>7, <1>8, <1>9

\* A request goes on with its task, or ends.
LEMMA HandleFacts ==
  ASSUME ClientsOK, NEW c \in Client, Handle(c)
  PROVE  \/ cl'[c].pc = "idle"
         \/ /\ <<cl[c].pc, cl'[c].pc>> \in
                 {<<"mark", "push">>, <<"cancel", "unready">>, <<"unready", "undelay">>,
                  <<"undelay", "untrack">>, <<"save", "refresh">>, <<"beat", "list">>,
                  <<"list", "renew">>, <<"renew", "renew">>}
            /\ cl'[c].task = cl[c].task
            /\ cl'[c].pc = "refresh" => cl'[c].at = cl[c].at
<1>1. ASSUME Done(c) PROVE cl'[c].pc = "idle"
  BY <1>1 DEF Done, IdleClient, ClientsOK
<1>2. ASSUME NEW pc, Goto(c, pc)
      PROVE  cl'[c].pc = pc /\ cl'[c].task = cl[c].task /\ cl'[c].at = cl[c].at
  BY <1>2 DEF Goto, ClientsOK, ClientLocal
<1>3. ASSUME CancelTransition(c), ~Done(c)
      PROVE  cl[c].pc = "cancel" /\ cl'[c].pc = "unready" /\ cl'[c].task = cl[c].task
  <2>1. cl'[c] = [IdleClient EXCEPT !.pc = "unready", !.task = cl[c].task]
    BY <1>3 DEF CancelTransition, ClientsOK
  <2>2. QED
    BY <1>3, <2>1 DEF CancelTransition, IdleClient
<1>4. ASSUME HeartbeatMark(c), ~Done(c)
      PROVE  cl[c].pc = "beat" /\ cl'[c].pc = "list" /\ cl'[c].task = cl[c].task
  BY <1>4 DEF HeartbeatMark, ClientsOK, ClientLocal
<1>5. ASSUME HeartbeatList(c), ~Done(c)
      PROVE  cl[c].pc = "list" /\ cl'[c].pc = "renew" /\ cl'[c].task = cl[c].task
  BY <1>5 DEF HeartbeatList, ClientsOK, ClientLocal
<1>6. ASSUME HeartbeatRenew(c), ~Done(c)
      PROVE  cl[c].pc = "renew" /\ cl'[c].pc = "renew" /\ cl'[c].task = cl[c].task
  BY <1>6 DEF HeartbeatRenew, ClientsOK, ClientLocal
<1>7. ASSUME TriggerMark(c) \/ CancelUnready(c) \/ CancelUndelay(c) \/ CronSave(c), ~Done(c)
      PROVE  \E pc : /\ Goto(c, pc)
                     /\ <<cl[c].pc, pc>> \in
                          {<<"mark", "push">>, <<"unready", "undelay">>,
                           <<"undelay", "untrack">>, <<"save", "refresh">>}
  BY <1>7 DEF TriggerMark, CancelUnready, CancelUndelay, CronSave
<1>8. CASE Done(c)
  BY <1>1, <1>8
<1>9. CASE ~Done(c) /\ (TriggerMark(c) \/ CancelUnready(c) \/ CancelUndelay(c) \/ CronSave(c))
  BY <1>2, <1>7, <1>9
<1>10. CASE ~Done(c) /\ (\/ CancelTransition(c) \/ HeartbeatMark(c) \/ HeartbeatList(c)
                         \/ HeartbeatRenew(c))
  BY <1>3, <1>4, <1>5, <1>6, <1>10
<1>11. QED
  BY <1>8, <1>9, <1>10 DEF Handle, RegisterTrack, TriggerPush, CancelUntrack, CronRefresh,
     EnrollWorker

(***************************************************************************)
(* What a step of Schedd leaves alone: a quiet step ends no task and       *)
(* changes no retry budget, except that a registered task gets a full one. *)
(***************************************************************************)
Quiet ==
  \A id \in Task :
    \/ /\ tasks'[id].retriesLeft = tasks[id].retriesLeft
       /\ tasks'[id].state \in {"dead", "succeeded"} => tasks'[id].state = tasks[id].state
    \/ tasks'[id].retriesLeft = MaxRetries /\ tasks'[id].state = "pending"

RecordsGrow == \A id \in Task, s \in Status : records'[id][s] >= records[id][s]

\* A state change other than to a final state of its own is quiet.
LEMMA EnterQuiet ==
  ASSUME StoreOK, NEW id \in Task, NEW to, to \notin {"dead", "succeeded"}, Enter(id, to)
  PROVE  Quiet
BY EnterFacts DEF Others, Quiet

\* Records are appended, by RecordResult, and never removed while the service runs.
LEMMA RecordsStep ==
  ASSUME TypeInv, [Next]_vars
  PROVE  RecordsGrow
<1>1. RecordsOK /\ ExecutorsOK
  BY DEF TypeInv
<1>2. ASSUME UNCHANGED records PROVE RecordsGrow
  BY <1>1, <1>2 DEF RecordsGrow, RecordsOK
<1>3. ASSUME NEW e \in Executor, CheckLease(e) PROVE RecordsGrow
  <2>1. CASE records' = [records EXCEPT ![ex[e].task][ex[e].status] = @ + 1]
    BY <1>1, <2>1 DEF RecordsGrow, RecordsOK
  <2>2. QED
    BY <1>1, <1>2, <1>3, <2>1, CheckFacts
<1>4. ASSUME NEW e \in Executor, ExecutorRuns(e) PROVE RecordsGrow
  BY <1>2, <1>3, <1>4 DEF ExecutorRuns, ExecutorStep, Pop, PopNothing, TakeReady, BindLease,
     PickFails, Repush, Finish, ApplyResult, ScheduleRetry, ReleaseLease
<1>5. QED
  BY <1>2, <1>4 DEF Next, vars, TimePasses, WorkerBeats, TickerRuns, RequestArrives, HandlerRuns

\* Tick and ReapExpired are quiet.
LEMMA TickerQuiet ==
  ASSUME TypeInv, TickerRuns
  PROVE  Quiet
<1>0. StoreOK /\ TickerOK /\ \A l \in tk.expired : l.task \in Task
  BY DEF TypeInv, TickerOK, TickerLocal, Lease
<1>1. ASSUME UNCHANGED tasks PROVE Quiet
  BY <1>1 DEF Quiet
<1>2. ASSUME TickMark PROVE Quiet
  BY <1>0, <1>1, <1>2, EnterQuiet DEF TickMark, TickerOK, MarkReady
<1>3. ASSUME TickSetNextRun PROVE Quiet
  BY <1>0, <1>1, <1>3, SetNextRunFacts DEF TickSetNextRun, TickerOK, Others, Quiet
<1>4. ASSUME NEW l \in tk.expired, ReapRequeue(l) PROVE Quiet
  BY <1>0, <1>1, <1>4, EnterQuiet DEF ReapRequeue, Transition
<1>5. QED
  BY <1>1, <1>2, <1>3, <1>4 DEF TickerRuns, Ticker, TickScan, TickGet, TickDrop, TickPush,
     TickSetFire, TickPopDue, TickEntry, TickPushEntry, ReapCollect, ReapPush

\* RunNext is quiet until it applies a result.
LEMMA ExecutorQuiet ==
  ASSUME TypeInv, NEW e \in Executor, ExecutorRuns(e), ~ApplyResult(e)
  PROVE  Quiet
<1>0. StoreOK /\ ExecutorsOK /\ ExecutorStep(e)
  BY DEF TypeInv, ExecutorRuns
<1>1. ASSUME UNCHANGED tasks PROVE Quiet
  BY <1>1 DEF Quiet
<1>2. ASSUME TakeReady(e) PROVE Quiet
  BY <1>0, <1>1, <1>2, TakeFacts, EnterQuiet
<1>3. ASSUME PickFails(e) PROVE Quiet
  BY <1>0, <1>1, <1>3, PickFailsFacts, EnterQuiet
<1>4. QED
  BY <1>0, <1>1, <1>2, <1>3 DEF ExecutorStep, Pop, PopNothing, BindLease,
     Repush, Finish, CheckLease, ScheduleRetry, ReleaseLease

\* So is every request, except UpdateCron's Save.
LEMMA ClientQuiet ==
  ASSUME TypeInv, NEW c \in Client, RequestArrives(c) \/ HandlerRuns(c), ~CronSave(c)
  PROVE  Quiet
<1>0. StoreOK /\ ClientsOK
  BY DEF TypeInv
<1>1. ASSUME UNCHANGED tasks PROVE Quiet
  BY <1>1 DEF Quiet
<1>2. ASSUME NEW id \in Task, NEW at, Insert(id, at) PROVE Quiet
  BY <1>0, <1>2, InsertFacts DEF Others, Quiet
<1>3. cl[c].pc \notin WorkerPc => cl[c].task \in Task
  BY <1>0 DEF ClientsOK
<1>4. ASSUME TriggerMark(c) PROVE Quiet
  BY <1>0, <1>1, <1>3, <1>4, EnterQuiet DEF TriggerMark, WorkerPc, MarkReady
<1>5. ASSUME CancelTransition(c) PROVE Quiet
  BY <1>0, <1>1, <1>3, <1>5, EnterQuiet DEF CancelTransition, WorkerPc, Transition
<1>6. CASE RequestArrives(c)
  BY <1>0, <1>1, <1>2, <1>6, RequestFacts DEF RequestArrives
<1>7. CASE HandlerRuns(c)
  BY <1>1, <1>4, <1>5, <1>7 DEF HandlerRuns, Handle, RegisterTrack, TriggerPush,
     CancelUnready, CancelUndelay, CancelUntrack, CronRefresh, EnrollWorker, HeartbeatMark,
     HeartbeatList, HeartbeatRenew
<1>8. QED
  BY <1>6, <1>7

\* An executor reaches the point where a result is applied through the check of
\* RecordResult only, and leaves it by applying the result.
LEMMA ApplyingFacts ==
  ASSUME ExecutorsOK, NEW e \in Executor, ExecutorStep(e)
  PROVE  /\ ex[e].pc = "apply" <=> ApplyResult(e)
         /\ ex'[e].pc = "apply" => CheckLease(e)
<1>1. ex[e].pc = "apply" => ApplyResult(e)
  BY DEF ExecutorStep, Pop, PopNothing, TakeReady, BindLease, PickFails, Repush, Finish,
     CheckLease, ScheduleRetry, ReleaseLease
<1>2. ~CheckLease(e) => ex'[e].pc # "apply"
  BY IdleFacts, ReleaseFacts, PopFacts, TakeFacts, BindFacts, PickFailsFacts,
     FinishFacts, ApplyFacts DEF ExecutorStep, PopNothing, Repush, ScheduleRetry, ReleaseLease
<1>3. QED
  BY <1>1, <1>2 DEF ApplyResult
=============================================================================
