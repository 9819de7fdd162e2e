---------------------------- MODULE FenceProofs ----------------------------
(***************************************************************************)
(* Ownership: the version a lease carries fences out every executor that   *)
(* lost its task, for any number of executors, and a terminal state is     *)
(* never left.                                                             *)
(***************************************************************************)
EXTENDS TypeProofs

\* A task the store does not hold has no version.
Fresh == \A id \in Task : tasks[id].state \in Absent => tasks[id].version = 0

\* No operation of the service composed in Schedd removes a task.
NoneGone == \A id \in Task : tasks[id].state # "gone"

\* A request that is cleaning up has cancelled its task, which may be removed since.
CancelOK ==
  \A c \in Client :
    cl[c].pc \in {"unready", "undelay", "untrack"} =>
      tasks[cl[c].task].state \in {"canceled", "gone"}

\* VersionFence among the executors of S only.
FenceAmong(S) ==
  \A e \in S :
    HoldsVersion(e) =>
      /\ ex[e].version <= tasks[ex[e].task].version
      /\ ex[e].version = tasks[ex[e].task].version => tasks[ex[e].task].state = "leased"
      /\ \A f \in S \ {e} :
           HoldsVersion(f) /\ ex[f].task = ex[e].task => ex[f].version # ex[e].version

\* Whoever holds a task has taken it, so its version has moved since it was saved.
HoldersTook == \A e \in Executor : HoldsVersion(e) => ex[e].version > 0

FenceInv ==
  TypeInv /\ Fresh /\ NoneGone /\ VersionFence /\ LeaseFence /\ HoldersTook /\ CancelOK

(***************************************************************************)
(* What is left of it where tasks may be removed, as long as none comes    *)
(* back: those who hold a removed task hold nothing.                       *)
(***************************************************************************)
GoneStays == \A id \in Task : tasks[id].state = "gone" => tasks'[id].state = "gone"

Stored(e) == HoldsVersion(e) => tasks[ex[e].task].state # "gone"

\* VersionFence among the executors whose task is in the store.
StoredFence ==
  \A e \in Executor :
    HoldsVersion(e) /\ Stored(e) =>
      /\ ex[e].version <= tasks[ex[e].task].version
      /\ ex[e].version = tasks[ex[e].task].version => tasks[ex[e].task].state = "leased"
      /\ \A f \in Executor \ {e} :
           HoldsVersion(f) /\ ex[f].task = ex[e].task => ex[f].version # ex[e].version

HoldInv == TypeInv /\ Fresh /\ StoredFence /\ LeaseFence /\ HoldersTook /\ CancelOK

\* While no task is removed the two are the same, and nothing has to stay removed.
LEMMA FenceHolds ==
  ASSUME FenceInv
  PROVE  HoldInv /\ GoneStays
BY DEF FenceInv, HoldInv, NoneGone, GoneStays, VersionFence, StoredFence

\* The fence the service relies on is the one among all its executors.
LEMMA FenceOfAll == VersionFence <=> FenceAmong(Executor)
BY DEF VersionFence, FenceAmong

(***************************************************************************)
(* Versions only move forward, neither the state nor the retry budget      *)
(* changes under an unchanged version, and no task is removed.  A removed  *)
(* task may come back, by a Save of a copy, at version one.                *)
(***************************************************************************)
Advances(id) ==
  /\ tasks'[id].state \in Absent => tasks'[id].state = tasks[id].state
  /\ \/ /\ tasks'[id].version = tasks[id].version
        /\ tasks'[id].state = tasks[id].state
        /\ tasks'[id].retriesLeft = tasks[id].retriesLeft
     \/ tasks'[id].version = tasks[id].version + 1

StoreAdvances == Fresh' /\ \A id \in Task : Advances(id)

\* A state change of the store (Transition, MarkReady) moves the version on by one.
LEMMA EnterAdvances ==
  ASSUME StoreOK, Fresh, NEW id \in Task, NEW to \in TaskState \ Absent, Enter(id, to)
  PROVE  StoreAdvances
BY DEF Enter, Absent, StoreOK, TaskRec, Fresh, StoreAdvances, Advances

\* TaskStore.Save of a new task starts its version at one.
LEMMA InsertAdvances ==
  ASSUME StoreOK, Fresh, NEW id \in Task, NEW at \in Time, Insert(id, at)
  PROVE  StoreAdvances
BY DEF Insert, Absent, StoreOK, TaskRec, Fresh, StoreAdvances, Advances

\* TaskStore.Save over a stored task moves its version on by one.
LEMMA OverwriteAdvances ==
  ASSUME StoreOK, Fresh, NEW id \in Task, NEW n, NEW at, Overwrite(id, n, at)
  PROVE  StoreAdvances
BY DEF Overwrite, Absent, StoreOK, TaskRec, Fresh, StoreAdvances, Advances

\* TaskStore.Save of a copy of a removed task starts its version at one.
LEMMA InsertCopyAdvances ==
  ASSUME StoreOK, Fresh, NEW id \in Task, NEW state, state \notin Absent, NEW n, NEW at,
         InsertCopy(id, state, n, at)
  PROVE  StoreAdvances
BY DEF InsertCopy, Absent, StoreOK, TaskRec, Fresh, StoreAdvances, Advances

\* TaskStore.SetNextRun leaves state and version alone.
LEMMA SetNextRunAdvances ==
  ASSUME StoreOK, Fresh, NEW id \in Task, NEW at, SetNextRun(id, at)
  PROVE  StoreAdvances
BY DEF SetNextRun, StoreOK, TaskRec, Fresh, StoreAdvances, Advances

\* TaskStore.Retry moves the version on by one.
LEMMA RetryAdvances ==
  ASSUME StoreOK, Fresh, NEW id \in Task, NEW at, NEW v, Retry(id, at, v)
  PROVE  StoreAdvances
BY DEF Retry, StoreOK, TaskRec, Absent, Fresh, StoreAdvances, Advances

\* A step outside the store moves no version.
LEMMA UnchangedAdvances ==
  ASSUME Fresh, UNCHANGED tasks
  PROVE  StoreAdvances
BY DEF Fresh, StoreAdvances, Advances

\* No step of the scheduler takes a version back, and none changes a state
\* under an unchanged version.
LEMMA VersionsAdvance ==
  ASSUME TypeInv, Fresh, [Next]_vars
  PROVE  StoreAdvances
<1> USE UnchangedAdvances
<1>0. StoreOK /\ QueuesOK /\ TickerOK /\ ExecutorsOK /\ ClientsOK /\ LeasesOK
  BY DEF TypeInv
<1>1. CASE TimePasses \/ WorkerBeats \/ UNCHANGED vars
  BY <1>1 DEF TimePasses, WorkerBeats, vars
<1>2. CASE TickerRuns
  <2>2. \A l \in tk.expired : l.task \in Task
    BY <1>0 DEF TickerOK, TickerLocal, Lease
  <2>3. ASSUME TickMark PROVE StoreAdvances
    BY <1>0, <2>3, EnterAdvances DEF TickMark, TickerOK, MarkReady, TaskState, Absent
  <2>4. ASSUME TickSetNextRun PROVE StoreAdvances
    BY <1>0, <2>4, SetNextRunAdvances DEF TickSetNextRun, TickerOK
  <2>5. ASSUME NEW l \in tk.expired, ReapRequeue(l) PROVE StoreAdvances
    BY <1>0, <2>2, <2>5, EnterAdvances DEF ReapRequeue, Transition, TaskState, Absent
  <2>6. QED
    BY <1>2, <2>3, <2>4, <2>5 DEF TickerRuns, Ticker, TickScan, TickGet, TickDrop, TickPush, TickSetFire,
       TickPopDue, TickEntry, TickPushEntry, ReapCollect, ReapPush
<1>3. ASSUME NEW e \in Executor, ExecutorRuns(e) PROVE StoreAdvances
  <2>1. ex[e].pc \notin {"idle", "again"} => ex[e].task \in Task
    BY <1>0 DEF ExecutorsOK
  <2>2. ASSUME TakeReady(e) PROVE StoreAdvances
    BY <1>0, <2>1, <2>2, EnterAdvances DEF TakeReady, Transition, TaskState, Absent
  <2>3. ASSUME PickFails(e) PROVE StoreAdvances
    BY <1>0, <2>1, <2>3, EnterAdvances DEF PickFails, Transition, TaskState, Absent
  <2>4. ASSUME ApplyResult(e) PROVE StoreAdvances
    <3>1. ASSUME NEW to \in TaskState \ Absent, ApplyFinal(e, to) PROVE StoreAdvances
      BY <1>0, <2>1, <2>4, <3>1, EnterAdvances DEF ApplyFinal, ApplyResult, Transition
    <3>2. ASSUME ApplyRetry(e) PROVE StoreAdvances
      BY <1>0, <2>1, <2>4, <3>2, RetryAdvances DEF ApplyRetry, ApplyResult
    <3>3. QED
      BY <2>4, <3>1, <3>2 DEF ApplyResult, TaskState, Absent
  <2>5. QED
    BY <1>3, <2>2, <2>3, <2>4 DEF ExecutorRuns, ExecutorStep, Pop, PopNothing, BindLease,
       Repush, Finish, CheckLease, ScheduleRetry, ReleaseLease
<1>4. ASSUME NEW c \in Client, RequestArrives(c) PROVE StoreAdvances
  <2>1. ASSUME NEW id \in Task, RegisterSave(c, id) PROVE StoreAdvances
    BY <1>0, <2>1, InsertAdvances, ModelAssumption DEF RegisterSave, Time
  <2>2. QED
    BY <1>4, <2>1 DEF RequestArrives, Request, TriggerGet, CancelGet, CronGet, WorkerCalls
<1>5. ASSUME NEW c \in Client, HandlerRuns(c) PROVE StoreAdvances
  <2>1. /\ cl[c].pc \notin WorkerPc => cl[c].task \in Task
        /\ cl[c].pc = "save" => cl[c].state \notin Absent
    BY <1>0 DEF ClientsOK
  <2>2. ASSUME TriggerMark(c) PROVE StoreAdvances
    BY <1>0, <2>1, <2>2, EnterAdvances DEF WorkerPc, TriggerMark, MarkReady, TaskState, Absent
  <2>3. ASSUME CancelTransition(c) PROVE StoreAdvances
    BY <1>0, <2>1, <2>3, EnterAdvances DEF WorkerPc, CancelTransition, Transition, TaskState, Absent
  <2>4. ASSUME CronSave(c) PROVE StoreAdvances
    BY <1>0, <2>1, <2>4, OverwriteAdvances, InsertCopyAdvances DEF WorkerPc, CronSave
  <2>5. QED
    BY <1>5, <2>2, <2>3, <2>4 DEF HandlerRuns, Handle, RegisterTrack, TriggerPush,
       CancelUnready, CancelUndelay, CancelUntrack, CronRefresh, EnrollWorker, HeartbeatMark,
       HeartbeatList, HeartbeatRenew
<1>6. QED
  BY <1>1, <1>2, <1>3, <1>4, <1>5 DEF Next

(***************************************************************************)
(* VersionFence.                                                           *)
(***************************************************************************)
\* Executors keep their claims: whoever holds a version after the step held
\* the same version of the same task before it.
HoldersKept ==
  \A f \in Executor :
    HoldsVersion(f)' =>
      HoldsVersion(f) /\ ex'[f].task = ex[f].task /\ ex'[f].version = ex[f].version

\* The fence survives every step after which the holders are as before: the
\* store only moves versions forward.
LEMMA FenceKept ==
  ASSUME NEW S \in SUBSET Executor, TypeInv, FenceAmong(S), StoreAdvances, HoldersKept
  PROVE  FenceAmong(S)'
<1>1. \A f \in Executor : HoldsVersion(f) => ex[f].task \in Task /\ ex[f].version \in Nat
  BY DEF TypeInv, ExecutorsOK, ExecutorLocal, HoldsVersion
<1>2. \A id \in Task : tasks[id].version \in Nat
  BY DEF TypeInv, StoreOK, TaskRec
<1>3. QED
  BY <1>1, <1>2 DEF FenceAmong, StoreAdvances, Advances, HoldersKept

\* Apart from Assign's Transition to Leased, no step of RunNext makes an
\* executor a holder or changes what it holds.
LEMMA ExecutorKeeps ==
  ASSUME TypeInv, NEW e \in Executor, ExecutorRuns(e), ~TakeReady(e)
  PROVE  HoldersKept
<1>1. ExecutorsOK /\ ExecutorStep(e)
  BY DEF TypeInv, ExecutorRuns
<1>2. \A f \in Executor \ {e} : ex'[f] = ex[f]
  BY <1>1, ExecutorAlone
<1>3. ASSUME ex'[e].pc \notin {"picking", "running", "check", "apply"} PROVE HoldersKept
  BY <1>2, <1>3 DEF HoldersKept, HoldsVersion
<1>4. ASSUME HoldsVersion(e), ex'[e].task = ex[e].task, ex'[e].version = ex[e].version
      PROVE  HoldersKept
  BY <1>2, <1>4 DEF HoldersKept, HoldsVersion
<1>5. ASSUME ToIdle(e) \/ ToRelease(e) PROVE HoldersKept
  BY <1>1, <1>3, <1>5, IdleFacts, ReleaseFacts
<1>6. ASSUME Pop(e) PROVE HoldersKept
  BY <1>1, <1>3, <1>6, PopFacts
<1>7. ASSUME BindLease(e) PROVE HoldersKept
  BY <1>1, <1>4, <1>7, BindFacts DEF HoldsVersion
<1>8. ASSUME PickFails(e) PROVE HoldersKept
  BY <1>1, <1>3, <1>8, PickFailsFacts
<1>9. ASSUME Finish(e) PROVE HoldersKept
  BY <1>1, <1>3, <1>4, <1>9, FinishFacts DEF HoldsVersion, Carries
<1>10. ASSUME CheckLease(e) PROVE HoldersKept
  BY <1>1, <1>3, <1>4, <1>10, CheckFacts DEF HoldsVersion, Carries
<1>11. ASSUME ApplyResult(e) PROVE HoldersKept
  BY <1>1, <1>3, <1>11, ApplyFacts
<1>12. QED
  BY <1>1, <1>5, <1>6, <1>7, <1>8, <1>9, <1>10, <1>11 DEF ExecutorStep, PopNothing, Repush,
     ScheduleRetry, ReleaseLease

\* Assign's Transition to Leased gives its executor a version no other holder
\* has, since it is one more than the task's version before.
LEMMA TakeReadyFences ==
  ASSUME NEW S \in SUBSET Executor, TypeInv, FenceAmong(S), StoreAdvances,
         NEW e \in Executor, TakeReady(e)
  PROVE  FenceAmong(S)'
<1>1. ex \in [Executor -> ExecutorLocal] /\ ex[e].task \in Task /\ StoreOK
  BY DEF TypeInv, ExecutorsOK, TakeReady
<1>2. CASE ~CanTransition(ex[e].task, "ready", AnyVersion)
  <2>1. \/ ex' = [ex EXCEPT ![e].pc = "again", ![e].task = NoTask]
        \/ ToIdle(e)
    BY <1>2 DEF TakeReady, Transition
  <2>2. ex'[e].pc \in {"idle", "again"} /\ \A f \in Executor \ {e} : ex'[f] = ex[f]
    BY <1>1, <2>1 DEF ToIdle, IdleExecutor, ExecutorLocal
  <2>3. HoldersKept
    BY <2>2 DEF HoldersKept, HoldsVersion
  <2>4. QED
    BY <2>3, FenceKept
<1>3. CASE CanTransition(ex[e].task, "ready", AnyVersion)
  <2> DEFINE id == ex[e].task
             v == tasks'[id].version
  <2>1. Enter(id, "leased") /\ ex' = [ex EXCEPT ![e].pc = "picking", ![e].version = v]
    BY <1>3 DEF TakeReady, Transition, CanTransition, Absent
  <2>2. v = tasks[id].version + 1 /\ tasks'[id].state = "leased"
    BY <1>1, <2>1 DEF Enter, StoreOK
  <2>3. \A f \in Executor \ {e} : ex'[f] = ex[f]
    BY <1>1, <2>1
  <2>4. ex'[e].pc = "picking" /\ ex'[e].task = id /\ ex'[e].version = v
    BY <1>1, <2>1 DEF ExecutorLocal
  <2>5. \A f \in Executor : HoldsVersion(f) => ex[f].task \in Task /\ ex[f].version \in Nat
    BY DEF TypeInv, ExecutorsOK, ExecutorLocal, HoldsVersion
  <2>6. \A t \in Task : tasks[t].version \in Nat
    BY <1>1 DEF StoreOK, TaskRec
  <2> HIDE DEF v, id
  <2>7. \A f \in Executor \ {e} : HoldsVersion(f)' <=> HoldsVersion(f)
    BY <2>3 DEF HoldsVersion
  <2>8. id \in Task
    BY <1>1 DEF id
  <2>9. tasks'[id].version = v
    BY DEF v
  <2>10. \A f \in S \ {e} : HoldsVersion(f) /\ ex[f].task = id => ex[f].version < v
    BY <2>2, <2>5, <2>6, <2>8 DEF FenceAmong
  <2>11. v \in Nat
    BY <2>2, <2>6, <2>8
  <2>12. ASSUME NEW f \in S \ {e}, HoldsVersion(f)
         PROVE  /\ ex[f].version <= tasks'[ex[f].task].version
                /\ ex[f].version = tasks'[ex[f].task].version =>
                     tasks'[ex[f].task].state = "leased"
    BY <2>5, <2>6, <2>12 DEF FenceAmong, StoreAdvances, Advances
  <2>13. QED
    BY <2>2, <2>3, <2>4, <2>7, <2>9, <2>10, <2>11, <2>12, <2>5 DEF FenceAmong
<1>4. QED
  BY <1>2, <1>3

\* Every step of the scheduler preserves the version fence among any executors.
LEMMA FenceAmongStep ==
  ASSUME NEW S \in SUBSET Executor, TypeInv, Fresh, FenceAmong(S), [Next]_vars
  PROVE  FenceAmong(S)'
<1>1. StoreAdvances
  BY VersionsAdvance
<1>2. CASE UNCHANGED ex
  BY <1>1, <1>2, FenceKept DEF HoldersKept, HoldsVersion
<1>3. ASSUME NEW e \in Executor, ExecutorRuns(e) PROVE FenceAmong(S)'
  BY <1>1, <1>3, ExecutorKeeps, TakeReadyFences, FenceKept
<1>4. QED
  BY <1>2, <1>3 DEF Next, vars, TimePasses, WorkerBeats, TickerRuns, RequestArrives, HandlerRuns

\* An executor that holds a task after a step held it before, or held none.
LEMMA HoldersFrom ==
  ASSUME TypeInv, [Next]_vars, NEW f \in Executor, HoldsVersion(f), HoldsVersion(f)'
  PROVE  ex'[f].task = ex[f].task /\ ex'[f].version = ex[f].version
<1>1. CASE UNCHANGED ex
  BY <1>1
<1>2. ASSUME NEW e \in Executor, ExecutorRuns(e)
      PROVE  ex'[f].task = ex[f].task /\ ex'[f].version = ex[f].version
  <2>1. CASE TakeReady(e)
    BY <2>1, <1>2, ExecutorAlone DEF TypeInv, ExecutorRuns, TakeReady, HoldsVersion
  <2>2. CASE ~TakeReady(e)
    BY <1>2, <2>2, ExecutorKeeps DEF HoldersKept
  <2>3. QED
    BY <2>1, <2>2
<1>3. QED
  BY <1>1, <1>2 DEF Next, vars, TimePasses, WorkerBeats, TickerRuns, RequestArrives, HandlerRuns

\* So the fence holds on among those whose task is in the store.
LEMMA StoredFenceStep ==
  ASSUME TypeInv, Fresh, StoredFence, GoneStays, [Next]_vars
  PROVE  StoredFence'
<1>1. PICK S \in SUBSET Executor : S = {e \in Executor : Stored(e)}
  OBVIOUS
<1>2. FenceAmong(S)'
  <2>1. FenceAmong(S)
    BY <1>1 DEF FenceAmong, StoredFence
  <2>2. QED
    BY <2>1, FenceAmongStep
<1>3. \A f \in Executor : HoldsVersion(f) => ex[f].task \in Task
  BY DEF TypeInv, ExecutorsOK, HoldsVersion
<1>4. ASSUME NEW f \in Executor, HoldsVersion(f)', Stored(f)' PROVE f \in S
  BY <1>1, <1>3, <1>4, HoldersFrom DEF Stored, GoneStays
<1>5. QED
  BY <1>2, <1>4 DEF StoredFence, FenceAmong, Stored

\* Every step of the scheduler preserves the version fence.
LEMMA VersionFenceStep ==
  ASSUME TypeInv, Fresh, VersionFence, [Next]_vars
  PROVE  VersionFence'
<1>1. FenceAmong(Executor)'
  BY FenceOfAll, FenceAmongStep
<1>2. QED
  BY <1>1 DEF VersionFence, FenceAmong

(***************************************************************************)
(* LeaseFence.                                                             *)
(***************************************************************************)
\* No lease is added or changed in what the fence compares.
LeasesKept ==
  /\ leaseSeq' = leaseSeq
  /\ \A l \in leases' : \E m \in leases :
       m.id = l.id /\ m.task = l.task /\ m.version = l.version

HoldsLease(e) == ex[e].pc \in {"running", "check", "apply"}

\* Executors keep or drop their leases, and a result is let through to
\* "apply" only for the version the executor leased.
LeaseHoldersKept ==
  \A f \in Executor :
    /\ ex'[f].lease \in {ex[f].lease, NoLease}
    /\ HoldsLease(f)' =>
         /\ HoldsLease(f)
         /\ ex'[f].lease = ex[f].lease
         /\ ex'[f].task = ex[f].task
         /\ ex'[f].version = ex[f].version
    /\ ex'[f].pc = "apply" => ex'[f].seen = ex'[f].version

\* The lease fence survives every step that adds no lease and changes no
\* holder's lease.
LEMMA LeaseFenceKept ==
  ASSUME TypeInv, LeaseFence, LeasesKept, LeaseHoldersKept
  PROVE  LeaseFence'
<1>1. leaseSeq \in Nat
  BY DEF TypeInv, LeasesOK
<1>2. \A l \in leases' : l.id <= leaseSeq'
  BY DEF LeaseFence, LeasesKept
<1>3. ASSUME NEW e \in Executor
      PROVE  ex'[e].lease <= leaseSeq'
  BY <1>1 DEF LeaseFence, LeasesKept, LeaseHoldersKept, NoLease
<1>4. ASSUME NEW e \in Executor, HoldsLease(e)', NEW l \in leases', l.id = ex'[e].lease
      PROVE  l.task = ex'[e].task /\ l.version = ex'[e].version
  BY <1>4 DEF LeaseFence, LeasesKept, LeaseHoldersKept, HoldsLease
<1>5. QED
  BY <1>2, <1>3, <1>4 DEF LeaseFence, LeaseHoldersKept, HoldsLease

\* Release, Renew and the reaper's collection add no lease and change no
\* lease's task or version.
LEMMA LeaseOpsKeep ==
  ASSUME NEW lid, NEW w, NEW now,
         Release(lid) \/ Renew(lid, w, now) \/ CollectExpired(now) \/ UNCHANGED leaseVars,
         LeasesOK
  PROVE  LeasesKept
<1> USE DEF LeasesKept, LeasesOK, Lease, leaseVars
<1>1. CASE Release(lid) \/ UNCHANGED leaseVars
  BY <1>1 DEF Release, DropLease
<1>2. CASE Renew(lid, w, now)
  BY <1>2 DEF Renew, DropLease
<1>3. CASE CollectExpired(now)
  BY <1>3 DEF CollectExpired
<1>4. QED
  BY <1>1, <1>2, <1>3

\* Apart from storing a lease at the end of Assign, no step of RunNext changes
\* which lease its executor holds; RecordResult goes on only with the version
\* of its own lease.
LEMMA ExecutorKeepsLease ==
  ASSUME TypeInv, LeaseFence, NEW e \in Executor, ExecutorRuns(e), ~BindLease(e)
  PROVE  LeaseHoldersKept
<1> DEFINE Kept(f) ==
             /\ ex'[f].lease \in {ex[f].lease, NoLease}
             /\ HoldsLease(f)' =>
                  /\ HoldsLease(f)
                  /\ ex'[f].lease = ex[f].lease
                  /\ ex'[f].task = ex[f].task
                  /\ ex'[f].version = ex[f].version
             /\ ex'[f].pc = "apply" => ex'[f].seen = ex'[f].version
<1>1. ExecutorsOK /\ ExecutorStep(e)
  BY DEF TypeInv, ExecutorRuns
<1>2. ASSUME NEW f \in Executor \ {e} PROVE Kept(f)
  BY <1>1, ExecutorAlone DEF LeaseFence, HoldsLease
<1>3. Kept(e)
  <2>1. ASSUME ex'[e].pc \notin {"running", "check", "apply"},
               ex'[e].lease \in {ex[e].lease, NoLease}
        PROVE  Kept(e)
    BY <2>1 DEF HoldsLease
  <2>2. ASSUME ToIdle(e) \/ ToRelease(e) PROVE Kept(e)
    BY <1>1, <2>1, <2>2, IdleFacts, ReleaseFacts DEF Carries
  <2>3. ASSUME Pop(e) PROVE Kept(e)
    BY <1>1, <2>1, <2>3, PopFacts
  <2>4. ASSUME TakeReady(e) PROVE Kept(e)
    BY <1>1, <2>1, <2>4, TakeFacts
  <2>5. ASSUME PickFails(e) PROVE Kept(e)
    BY <1>1, <2>1, <2>5, PickFailsFacts DEF Carries
  <2>6. ASSUME Finish(e) PROVE Kept(e)
    BY <1>1, <2>1, <2>6, FinishFacts DEF HoldsLease, Carries
  <2>7. ASSUME CheckLease(e) PROVE Kept(e)
    <3>1. CASE IsCurrent(ex[e].task, ex[e].lease, ex[e].seen)
      <4>1. ex[e].pc = "check"
        BY <2>7 DEF CheckLease
      <4>2. ex[e].seen = ex[e].version
        BY <3>1, <4>1 DEF IsCurrent, LeaseFence
      <4>3. QED
        BY <1>1, <2>7, <3>1, <4>1, <4>2, CheckFacts DEF HoldsLease, Carries
    <3>2. CASE ~IsCurrent(ex[e].task, ex[e].lease, ex[e].seen)
      BY <1>1, <2>1, <2>7, <3>2, CheckFacts DEF Carries
    <3>3. QED
      BY <3>1, <3>2
  <2>8. ASSUME ApplyResult(e) PROVE Kept(e)
    BY <1>1, <2>1, <2>8, ApplyFacts DEF Carries
  <2>9. QED
    BY <1>1, <2>2, <2>3, <2>4, <2>5, <2>6, <2>7, <2>8 DEF ExecutorStep, PopNothing, Repush,
       ScheduleRetry, ReleaseLease
<1>4. QED
  BY <1>2, <1>3 DEF LeaseHoldersKept

\* The lease Assign stores has an identifier no other lease has, and the task
\* and version its executor took from the Transition.
LEMMA BindLeaseFences ==
  ASSUME TypeInv, LeaseFence, NEW e \in Executor, BindLease(e)
  PROVE  LeaseFence'
<1>1. /\ ex \in [Executor -> ExecutorLocal]
      /\ leaseSeq \in Nat
      /\ leases \in SUBSET Lease
  BY DEF TypeInv, ExecutorsOK, LeasesOK
<1> DEFINE lid == leaseSeq'
<1>2. PICK w \in Worker : Bind(ex[e].task, w, ex[e].version, ex[e].now)
  BY DEF BindLease
<1>3. lid = leaseSeq + 1
  BY <1>2 DEF Bind
<1>4. \A l \in leases' : \/ l \in leases
                         \/ l.id = lid /\ l.task = ex[e].task /\ l.version = ex[e].version
  BY <1>2 DEF Bind
<1>5. ex' = [ex EXCEPT ![e] = [ex[e] EXCEPT !.pc = "running", !.lease = lid, !.now = 0]]
  BY <1>1 DEF BindLease
<1> HIDE DEF lid
<1>6. /\ ex'[e].pc = "running" /\ ex'[e].lease = lid
      /\ ex'[e].task = ex[e].task /\ ex'[e].version = ex[e].version
  BY <1>1, <1>5 DEF ExecutorLocal
<1>7. \A f \in Executor \ {e} : ex'[f] = ex[f]
  BY <1>1, <1>5
<1>8. \A f \in Executor : ex[f].lease \in Nat
  BY <1>1 DEF ExecutorLocal
<1>9. \A l \in leases : l.id \in Nat
  BY <1>1 DEF Lease
<1>10. leaseSeq' = lid
  BY DEF lid
<1>11. QED
  BY <1>1, <1>3, <1>4, <1>6, <1>7, <1>8, <1>9, <1>10 DEF LeaseFence

\* Every step of the scheduler preserves the lease fence.
LEMMA LeaseFenceStep ==
  ASSUME TypeInv, LeaseFence, [Next]_vars
  PROVE  LeaseFence'
<1>1. LeasesOK
  BY DEF TypeInv
<1>2. ASSUME UNCHANGED ex PROVE LeaseHoldersKept
  BY <1>2 DEF LeaseHoldersKept, HoldsLease, LeaseFence
<1>3. ASSUME NEW e \in Executor, ExecutorRuns(e) PROVE LeaseFence'
  <2>1. ~BindLease(e) => LeasesKept
    BY <1>1, <1>3, LeaseOpsKeep DEF ExecutorRuns, ExecutorStep, Pop, PopNothing, TakeReady,
       PickFails, Repush, Finish, CheckLease, ApplyResult, ScheduleRetry, ReleaseLease
  <2>2. QED
    BY <1>3, <2>1, ExecutorKeepsLease, BindLeaseFences, LeaseFenceKept
<1>4. CASE TickerRuns
  <2>1. LeasesKept
    BY <1>1, <1>4, LeaseOpsKeep DEF TickerRuns, Ticker, TickScan, TickGet, TickDrop,
       TickMark, TickPush, TickSetNextRun, TickSetFire, TickPopDue, TickEntry, TickPushEntry, ReapCollect,
       ReapRequeue, ReapPush
  <2>2. QED
    BY <1>2, <1>4, <2>1, LeaseFenceKept DEF TickerRuns
<1>5. ASSUME NEW c \in Client, RequestArrives(c) \/ HandlerRuns(c) PROVE LeaseFence'
  <2>1. LeasesKept
    BY <1>1, <1>5, LeaseOpsKeep DEF RequestArrives, Request, RegisterSave, TriggerGet,
       CancelGet, CronGet, WorkerCalls, HandlerRuns, Handle, RegisterTrack, TriggerMark,
       TriggerPush, CancelTransition, CancelUnready, CancelUndelay, CancelUntrack, CronSave,
       CronRefresh, EnrollWorker, HeartbeatMark, HeartbeatList, HeartbeatRenew
  <2>2. QED
    BY <1>2, <1>5, <2>1, LeaseFenceKept DEF RequestArrives, HandlerRuns
<1>6. CASE TimePasses \/ WorkerBeats \/ UNCHANGED vars
  <2>1. LeasesKept
    BY <1>6 DEF TimePasses, WorkerBeats, vars, LeasesKept, leaseVars
  <2>2. QED
    BY <1>2, <1>6, <2>1, LeaseFenceKept DEF TimePasses, WorkerBeats, vars
<1>7. QED
  BY <1>3, <1>4, <1>5, <1>6 DEF Next

\* Assign takes a task at a version greater than the one it had.
LEMMA HoldersTookStep ==
  ASSUME TypeInv, HoldersTook, [Next]_vars
  PROVE  HoldersTook'
<1>0. StoreOK /\ ExecutorsOK
  BY DEF TypeInv
<1>1. ASSUME HoldersKept PROVE HoldersTook'
  BY <1>1 DEF HoldersKept, HoldersTook, HoldsVersion
<1>2. CASE UNCHANGED ex
  BY <1>1, <1>2 DEF HoldersKept, HoldsVersion
<1>3. ASSUME NEW e \in Executor, ExecutorRuns(e) PROVE HoldersTook'
  <2>1. CASE TakeReady(e)
    <3>1. \A f \in Executor \ {e} : ex'[f] = ex[f]
      BY <1>0, <1>3, ExecutorAlone DEF ExecutorRuns
    <3>2. ASSUME ex'[e].pc = "picking" PROVE ex'[e].version > 0
      BY <1>0, <2>1, <3>2, TakeFacts, EnterFacts DEF StoreOK, TaskRec
    <3>3. ex'[e].pc \in {"picking", "idle", "again"}
      BY <1>0, <2>1, TakeFacts
    <3>4. QED
      BY <3>1, <3>2, <3>3 DEF HoldersTook, HoldsVersion
  <2>2. QED
    BY <1>1, <1>3, <2>1, ExecutorKeeps
<1>4. QED
  BY <1>2, <1>3 DEF Next, vars, TimePasses, WorkerBeats, TickerRuns, RequestArrives, HandlerRuns

(***************************************************************************)
(* Terminal states.                                                        *)
(***************************************************************************)
StatesFinal ==
  \A id \in Task : tasks[id].state \in Terminal => tasks'[id].state = tasks[id].state

\* The same, but for the tasks of executors that are not in S.
FinalAmong(S) ==
  \A id \in Task :
    tasks[id].state \in Terminal =>
      \/ tasks'[id].state = tasks[id].state
      \/ \E e \in Executor \ S : ex[e].pc = "apply" /\ ex[e].task = id

\* A state change of the store disturbs no terminal task but the one it names.
LEMMA EnterFinal ==
  ASSUME StoreOK, NEW id \in Task, NEW to, Enter(id, to), tasks[id].state \notin Terminal
  PROVE  StatesFinal
BY DEF StoreOK, TaskRec, Enter, StatesFinal

\* A step outside the store changes no state.
LEMMA UnchangedFinal ==
  ASSUME UNCHANGED tasks
  PROVE  StatesFinal
BY DEF StatesFinal

\* Among executors with the fence, a retry is only consumed on behalf of the one
\* that owns the task.
LEMMA RetryIsOwnedAmong ==
  ASSUME NEW S, FenceAmong(S), LeaseFence, NEW e \in S \cap Executor, ex[e].pc = "apply",
         tasks[ex[e].task].version = ex[e].seen
  PROVE  tasks[ex[e].task].state = "leased"
BY DEF FenceAmong, LeaseFence, HoldsVersion

\* A retry is only consumed on behalf of the executor that owns the task.
LEMMA RetryIsOwned ==
  ASSUME VersionFence, LeaseFence, NEW e \in Executor, ex[e].pc = "apply",
         tasks[ex[e].task].version = ex[e].seen
  PROVE  tasks[ex[e].task].state = "leased"
BY FenceOfAll, RetryIsOwnedAmong

\* No step of the ticker or of a handler takes a task out of a terminal state,
\* and none of RunNext does but a Retry that is not owned.
LEMMA TerminalStepAmong ==
  ASSUME NEW S \in SUBSET Executor, TypeInv, LeaseFence, FenceAmong(S), [Next]_vars
  PROVE  FinalAmong(S)
<1>a. StatesFinal => FinalAmong(S)
  BY DEF StatesFinal, FinalAmong
<1> USE UnchangedFinal
<1>0. StoreOK /\ TickerOK /\ ExecutorsOK /\ ClientsOK
  BY DEF TypeInv
<1>1. CASE TimePasses \/ WorkerBeats \/ UNCHANGED vars
  BY <1>a, <1>1 DEF TimePasses, WorkerBeats, vars
<1>2. CASE TickerRuns
  <2>2. \A l \in tk.expired : l.task \in Task
    BY <1>0 DEF TickerOK, TickerLocal, Lease
  <2>3. ASSUME TickMark PROVE StatesFinal
    BY <1>0, <2>3, EnterFinal DEF TickMark, TickerOK, MarkReady, Terminal
  <2>4. ASSUME TickSetNextRun PROVE StatesFinal
    <3>1. CASE UNCHANGED tasks
      BY <3>1
    <3>2. CASE ~UNCHANGED tasks
      <4>1. PICK next : SetNextRun(tk.cur, next)
        BY <2>4, <3>2 DEF TickSetNextRun
      <4>2. QED
        BY <1>0, <4>1 DEF SetNextRun, StoreOK, TaskRec, StatesFinal
    <3>3. QED
      BY <3>1, <3>2
  <2>5. ASSUME NEW l \in tk.expired, ReapRequeue(l) PROVE StatesFinal
    BY <1>0, <2>2, <2>5, EnterFinal DEF ReapRequeue, Transition, CanTransition, Terminal
  <2>6. QED
    BY <1>a, <1>2, <2>3, <2>4, <2>5 DEF TickerRuns, Ticker, TickScan, TickGet, TickDrop,
       TickPush, TickSetFire, TickPopDue, TickEntry, TickPushEntry, ReapCollect, ReapPush
<1>3. ASSUME NEW e \in Executor, ExecutorRuns(e) PROVE FinalAmong(S)
  <2>0. ExecutorStep(e)
    BY <1>3 DEF ExecutorRuns
  <2>1. ex[e].pc \notin {"idle", "again"} => ex[e].task \in Task
    BY <1>0 DEF ExecutorsOK
  <2>2. ASSUME TakeReady(e) PROVE StatesFinal
    BY <1>0, <2>1, <2>2, EnterFinal DEF TakeReady, Transition, CanTransition, Terminal
  <2>3. ASSUME PickFails(e) PROVE StatesFinal
    BY <1>0, <2>1, <2>3, EnterFinal DEF PickFails, Transition, CanTransition, Terminal
  <2>4. ASSUME ApplyResult(e) PROVE FinalAmong(S)
    <3>1. ASSUME NEW to, ApplyFinal(e, to) PROVE StatesFinal
      BY <1>0, <2>1, <2>4, <3>1, EnterFinal
         DEF ApplyFinal, ApplyResult, Transition, CanTransition, Terminal
    <3>2. ASSUME ApplyRetry(e) PROVE FinalAmong(S)
      <4>1. CASE UNCHANGED tasks
        BY <1>a, <4>1
      <4>2. CASE Retry(ex[e].task, ex[e].now + RetryDelay, ex[e].seen)
        <5>0. PICK t \in Task : t = ex[e].task /\ ex[e].pc = "apply"
          BY <2>1, <2>4 DEF ApplyResult
        <5>1. tasks[t].version = ex[e].seen /\ Others(t)
          BY <1>0, <4>2, <5>0, RetryFacts
        <5>2. CASE e \in S
          <6>1. tasks[t].state = "leased"
            BY <5>0, <5>1, <5>2, RetryIsOwnedAmong
          <6>2. QED
            BY <1>a, <5>1, <6>1 DEF Others, StatesFinal, Terminal
        <5>3. CASE e \notin S
          BY <5>0, <5>1, <5>3 DEF Others, FinalAmong
        <5>4. QED
          BY <5>2, <5>3
      <4>3. QED
        BY <3>2, <4>1, <4>2 DEF ApplyRetry
    <3>3. QED
      BY <1>a, <2>4, <3>1, <3>2 DEF ApplyResult
  <2>5. QED
    BY <1>a, <1>3, <2>2, <2>3, <2>4 DEF ExecutorRuns, ExecutorStep, Pop, PopNothing, BindLease,
       Repush, Finish, CheckLease, ScheduleRetry, ReleaseLease
<1>4. ASSUME NEW c \in Client, RequestArrives(c) PROVE StatesFinal
  <2>1. ASSUME NEW id \in Task, RegisterSave(c, id) PROVE StatesFinal
    BY <1>0, <2>1 DEF RegisterSave, Insert, StoreOK, TaskRec, StatesFinal, Terminal
  <2>2. QED
    BY <1>4, <2>1 DEF RequestArrives, Request, TriggerGet, CancelGet, CronGet, WorkerCalls
<1>5. ASSUME NEW c \in Client, HandlerRuns(c) PROVE StatesFinal
  <2>1. /\ cl[c].pc \notin WorkerPc => cl[c].task \in Task
        /\ cl[c].pc = "cancel" => cl[c].state \notin Terminal
    BY <1>0 DEF ClientsOK
  <2>2. ASSUME TriggerMark(c) PROVE StatesFinal
    BY <1>0, <2>1, <2>2, EnterFinal DEF WorkerPc, TriggerMark, MarkReady, Terminal
  <2>3. ASSUME CancelTransition(c) PROVE StatesFinal
    BY <1>0, <2>1, <2>3, EnterFinal DEF WorkerPc, CancelTransition, Transition, CanTransition
  <2>4. ASSUME CronSave(c) PROVE StatesFinal
    BY <1>0, <2>1, <2>4 DEF WorkerPc, CronSave, Overwrite, InsertCopy, StoreOK, TaskRec,
       StatesFinal, Terminal
  <2>5. QED
    BY <1>5, <2>2, <2>3, <2>4 DEF HandlerRuns, Handle, RegisterTrack, TriggerPush,
       CancelUnready, CancelUndelay, CancelUntrack, CronRefresh, EnrollWorker, HeartbeatMark,
       HeartbeatList, HeartbeatRenew
<1>6. QED
  BY <1>a, <1>1, <1>2, <1>3, <1>4, <1>5 DEF Next

\* No step of Tick, ReapExpired, RunNext or a handler takes a task out of a
\* terminal state.
LEMMA TerminalStep ==
  ASSUME HoldInv, [Next]_vars
  PROVE  StatesFinal
<1>1. PICK S \in SUBSET Executor : S = {e \in Executor : Stored(e)}
  OBVIOUS
<1>2. FenceAmong(S)
  BY <1>1 DEF FenceAmong, HoldInv, StoredFence
<1>3. FinalAmong(S)
  BY <1>2, TerminalStepAmong DEF HoldInv
<1>4. QED
  BY <1>1, <1>3 DEF FinalAmong, StatesFinal, Stored, Terminal

\* What Scheduler.Cancel did stays true while it cleans up.
LEMMA CancelStep ==
  ASSUME HoldInv, GoneStays, [Next]_vars
  PROVE  CancelOK'
<1>0. StatesFinal /\ StoreOK /\ ClientsOK /\ CancelOK
  BY TerminalStep DEF HoldInv, TypeInv
<1> DEFINE Cleans(pc) == pc \in {"unready", "undelay", "untrack"}
           Good(d) == Cleans(cl'[d].pc) => tasks'[cl'[d].task].state \in {"canceled", "gone"}
<1>1. ASSUME NEW d \in Client, Cleans(cl[d].pc), cl'[d].task = cl[d].task PROVE Good(d)
  BY <1>0, <1>1 DEF CancelOK, StatesFinal, GoneStays, Terminal, WorkerPc, ClientsOK
<1>2. ASSUME NEW d \in Client, cl'[d] = cl[d] PROVE Good(d)
  BY <1>1, <1>2
<1>3. CASE UNCHANGED cl
  BY <1>2, <1>3 DEF CancelOK
<1>4. ASSUME NEW c \in Client, RequestArrives(c) PROVE CancelOK'
  <2>1. Good(c) /\ \A d \in Client \ {c} : cl'[d] = cl[d]
    BY <1>0, <1>4, RequestFacts, ClientAlone DEF RequestArrives
  <2>2. QED
    BY <1>2, <2>1 DEF CancelOK
<1>5. ASSUME NEW c \in Client, HandlerRuns(c) PROVE CancelOK'
  <2>1. Handle(c) /\ \A d \in Client \ {c} : cl'[d] = cl[d]
    BY <1>0, <1>5, ClientAlone DEF HandlerRuns
  <2>2. CASE cl[c].pc = "cancel"
    <3>1. CancelTransition(c) /\ cl[c].task \in Task
      BY <1>0, <2>1, <2>2 DEF ClientsOK, WorkerPc, Handle, RegisterTrack, TriggerMark,
         TriggerPush, CancelUnready, CancelUndelay, CancelUntrack, CronSave, CronRefresh,
         EnrollWorker, HeartbeatMark, HeartbeatList, HeartbeatRenew
    <3>2. ASSUME Done(c) PROVE Good(c)
      BY <1>0, <3>2 DEF Done, IdleClient, ClientsOK
    <3>3. ASSUME ~Done(c) PROVE Good(c)
      <4>1. PICK t \in Task : t = cl[c].task
        BY <3>1
      <4>2. Enter(t, "canceled")
        BY <3>1, <3>3, <4>1 DEF CancelTransition, Transition
      <4>3. tasks'[t].state = "canceled" /\ cl'[c].pc \in {"idle", "unready"}
        BY <1>0, <2>1, <2>2, <4>2, EnterFacts, HandleFacts
      <4>4. QED
        BY <1>0, <2>1, <4>1, <4>3, HandleFacts
    <3>4. QED
      BY <1>2, <2>1, <3>2, <3>3 DEF CancelOK
  <2>3. CASE cl[c].pc # "cancel"
    <3>1. Good(c)
      BY <1>0, <1>1, <2>1, <2>3, HandleFacts
    <3>2. QED
      BY <1>2, <2>1, <3>1 DEF CancelOK
  <2>4. QED
    BY <2>2, <2>3
<1>6. QED
  BY <1>3, <1>4, <1>5 DEF Next, vars, TimePasses, WorkerBeats, TickerRuns, ExecutorRuns

\* Every step that brings no removed task back keeps what FenceInv says of the rest.
LEMMA HoldStep ==
  ASSUME HoldInv, GoneStays, [Next]_vars
  PROVE  HoldInv'
<1>1. TypeInv' /\ StoredFence' /\ LeaseFence' /\ HoldersTook' /\ CancelOK'
  BY TypeStep, StoredFenceStep, LeaseFenceStep, HoldersTookStep, CancelStep DEF HoldInv
<1>2. Fresh'
  BY VersionsAdvance DEF HoldInv, StoreAdvances
<1>3. QED
  BY <1>1, <1>2 DEF HoldInv

(***************************************************************************)
(* The theorems.                                                           *)
(***************************************************************************)
\* The state main.go starts from satisfies the fence invariant.
LEMMA FenceInit == Init => FenceInv
<1>1. Init => TypeInv
  BY TypeInit
<1>2. Init => Fresh /\ NoneGone /\ VersionFence /\ LeaseFence /\ HoldersTook /\ CancelOK
  BY DEF Init, InitStore, InitLeases, InitExecution, InitApi, IdleExecutor, IdleClient, NoLease,
     Fresh, NoneGone, Absent, VersionFence, LeaseFence, HoldersTook, CancelOK,
     HoldsVersion
<1>3. QED
  BY <1>1, <1>2 DEF FenceInv

\* Every step of the scheduler preserves the fence invariant.
LEMMA FenceStep ==
  ASSUME FenceInv, [Next]_vars
  PROVE  FenceInv'
<1>1. TypeInv' /\ VersionFence' /\ LeaseFence' /\ HoldersTook' /\ CancelOK'
  BY FenceHolds, HoldStep, VersionFenceStep DEF FenceInv, HoldInv
<1>2. Fresh' /\ NoneGone'
  BY VersionsAdvance DEF FenceInv, StoreAdvances, Advances, NoneGone, Absent
<1>3. QED
  BY <1>1, <1>2 DEF FenceInv

\* The version fence is an invariant: whatever executors, ticker and handlers do,
\* a holder's version is at most the task's, equal to it only while the task is
\* Leased, and shared with no other holder of the task.
THEOREM FenceIsInvariant == Spec => []FenceInv
BY FenceInit, FenceStep, PTL DEF Spec

\* Whoever holds a task holds it at a version of its own, which the task has only
\* while it is Leased: the fence Retry relies on when it tests no state.
THEOREM HoldersAreFenced == Spec => []VersionFence
BY FenceIsInvariant, PTL DEF FenceInv

\* And holds it by a lease made for that version, wherever the lease is: a result
\* RecordResult accepts is for the version Assign leased.
THEOREM LeasesAreFenced == Spec => []LeaseFence
BY FenceIsInvariant, PTL DEF FenceInv

\* No two executors ever own a task, however many there are and however
\* their leases expire, are renewed, cancelled or overtaken.
THEOREM OwnershipIsExclusive == Spec => []ExclusiveOwnership
<1>1. FenceInv => ExclusiveOwnership
  BY DEF FenceInv, VersionFence, ExclusiveOwnership, Owns
<1>2. QED
  BY <1>1, FenceIsInvariant, PTL

\* No operation of any goroutine takes a task out of a terminal state.
THEOREM TerminalStatesAreFinal == Spec => TerminalIsFinal
<1>1. FenceInv /\ [Next]_vars => [StatesFinal]_vars
  BY FenceHolds, TerminalStep
<1>2. Spec => [][StatesFinal]_vars
  BY <1>1, FenceIsInvariant, PTL DEF Spec
<1>3. QED
  BY <1>2 DEF TerminalIsFinal, StatesFinal
=============================================================================
