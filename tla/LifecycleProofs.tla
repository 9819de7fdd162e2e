-------------------------- MODULE LifecycleProofs --------------------------
(***************************************************************************)
(* The retry budget: Schedd implements TaskLifecycle, and every result is  *)
(* backed by its record.                                                   *)
(***************************************************************************)
EXTENDS FenceProofs

(***************************************************************************)
(* The inductive invariant, beyond FenceInv.                               *)
(***************************************************************************)
\* No task has more retries left than it was registered with.
BudgetOK ==
  \A id \in Task :
    /\ tasks[id].retriesLeft <= MaxRetries
    /\ tasks[id].state = "none" => tasks[id].retriesLeft = MaxRetries

\* A copy about to be saved is UpdateCron's, of a cron task, with a budget the
\* task had when it was read.
CopyOK ==
  \A c \in Client :
    cl[c].pc = "save" =>
      "update-cron" \in Ops /\ cl[c].task \in CronTask /\ cl[c].retries <= MaxRetries

\* No request has a copy to save.
NoSaves == \A c \in Client : cl[c].pc # "save"

\* What RecordResult read of a stored task is old, or still the task's budget.
SeenOK ==
  \A e \in Executor :
    ex[e].pc \in {"check", "apply"} /\ Stored(e) =>
      /\ ex[e].seen <= tasks[ex[e].task].version
      /\ ex[e].seen = tasks[ex[e].task].version => ex[e].left = tasks[ex[e].task].retriesLeft

BudgetInv == BudgetOK /\ CopyOK /\ SeenOK

(***************************************************************************)
(* The steps of the store, seen as steps of the abstract lifecycle.        *)
(***************************************************************************)
lifeOf == [id \in Task |-> [state |-> tasks[id].state, retriesLeft |-> tasks[id].retriesLeft]]

\* No request rewrites the retry budget of any task.
NoUpdates == "update-cron" \notin Ops \/ CronTask = {}

Lives(id) ==
  \/ Lifecycle!Register(id)
  \/ Lifecycle!Start(id)
  \/ Lifecycle!Take(id)
  \/ Lifecycle!GiveBack(id)
  \/ Lifecycle!Retry(id)
  \/ Lifecycle!Succeed(id)
  \/ Lifecycle!Die(id)
  \/ Lifecycle!Cancel(id)
  \/ Lifecycle!Amend(id) /\ ~NoUpdates

LifeGoesOn == UNCHANGED lifeOf \/ \E id \in Task : Lives(id)

\* A state change of the store that keeps the budget is a move of the lifecycle.
LEMMA EnterMoves ==
  ASSUME StoreOK, NEW id \in Task, NEW to, Enter(id, to)
  PROVE  Lifecycle!Moves(id, tasks[id].state, to)
<1>1. /\ tasks'[id].state = to /\ tasks'[id].retriesLeft = tasks[id].retriesLeft
      /\ Others(id)
  BY EnterFacts
<1>2. lifeOf' = [lifeOf EXCEPT ![id].state = to] /\ lifeOf[id].state = tasks[id].state
  BY <1>1 DEF lifeOf, Others
<1>3. QED
  BY <1>2 DEF lifeOf, Lifecycle!Moves

\* TaskStore.Save of a new task is its registration.
LEMMA InsertRegisters ==
  ASSUME StoreOK, BudgetOK, NEW id \in Task, NEW at, Insert(id, at)
  PROVE  Lifecycle!Register(id)
<1>1. /\ tasks[id].state = "none" /\ tasks'[id].state = "pending"
      /\ tasks'[id].retriesLeft = tasks[id].retriesLeft /\ Others(id)
  BY InsertFacts DEF BudgetOK
<1>2. lifeOf' = [lifeOf EXCEPT ![id].state = "pending"] /\ lifeOf[id].state = "none"
  BY <1>1 DEF lifeOf, Others
<1>3. QED
  BY <1>2 DEF lifeOf, Lifecycle!Register, Lifecycle!Moves

\* TaskStore.SetNextRun does not show in the lifecycle.
LEMMA SetNextRunHides ==
  ASSUME StoreOK, NEW id \in Task, NEW next, SetNextRun(id, next)
  PROVE  UNCHANGED lifeOf
BY SetNextRunFacts DEF Others, lifeOf

\* TaskStore.Retry of a Leased task is the lifecycle's.
LEMMA RetryRetries ==
  ASSUME StoreOK, NEW id \in Task, NEW next, NEW v, Retry(id, next, v),
         tasks[id].state = "leased"
  PROVE  Lifecycle!Retry(id)
<1>1. /\ tasks[id].retriesLeft > 0 /\ tasks'[id].state = "ready"
      /\ tasks'[id].retriesLeft = tasks[id].retriesLeft - 1 /\ Others(id)
  BY RetryFacts
<1>2. /\ lifeOf[id].state = "leased" /\ lifeOf[id].retriesLeft > 0
      /\ lifeOf' = [lifeOf EXCEPT ![id] = [state |-> "ready",
                                          retriesLeft |-> lifeOf[id].retriesLeft - 1]]
  BY <1>1 DEF lifeOf, Others
<1>3. QED
  BY <1>2 DEF lifeOf, Lifecycle!Retry

\* TaskStore.Save of UpdateCron's copy amends the budget and keeps the state.
LEMMA OverwriteAmends ==
  ASSUME StoreOK, NEW id \in CronTask, NEW retries \in 0..MaxRetries, NEW at,
         Overwrite(id, retries, at)
  PROVE  Lifecycle!Amend(id)
<1>1. id \in Task
  BY ModelAssumption
<1>2. /\ tasks[id].state \notin Absent
      /\ tasks'[id].state = tasks[id].state /\ tasks'[id].retriesLeft = retries
      /\ Others(id)
  BY <1>1, OverwriteFacts
<1>3. lifeOf' = [lifeOf EXCEPT ![id].retriesLeft = retries] /\ lifeOf[id].state # "none"
  BY <1>1, <1>2 DEF lifeOf, Others, Absent
<1>4. QED
  BY <1>3 DEF lifeOf, Lifecycle!Amend

\* Whatever the ticker does to a task is a move of its life: MarkReady starts it,
\* the reaper gives it back.
LEMMA TickerLives ==
  ASSUME TypeInv, TickerRuns
  PROVE  LifeGoesOn
<1>0. StoreOK /\ TickerOK /\ \A l \in tk.expired : l.task \in Task
  BY DEF TypeInv, TickerOK, TickerLocal, Lease
<1>1. ASSUME UNCHANGED tasks PROVE LifeGoesOn
  BY <1>1 DEF LifeGoesOn, lifeOf
<1>2. ASSUME TickMark PROVE LifeGoesOn
  <2>1. tk.cur \in Task
    BY <1>0, <1>2 DEF TickMark, TickerOK
  <2>2. CASE MarkReady(tk.cur)
    BY <1>0, <2>1, <2>2, EnterMoves DEF MarkReady, LifeGoesOn, Lives, Lifecycle!Start
  <2>3. QED
    BY <1>1, <1>2, <2>2 DEF TickMark
<1>3. ASSUME TickSetNextRun PROVE LifeGoesOn
  <2>1. tk.cur \in Task
    BY <1>0, <1>3 DEF TickSetNextRun, TickerOK
  <2>2. QED
    BY <1>0, <1>1, <1>3, <2>1, SetNextRunHides DEF TickSetNextRun, LifeGoesOn
<1>4. ASSUME NEW l \in tk.expired, ReapRequeue(l) PROVE LifeGoesOn
  <2>1. CASE Transition(l.task, "leased", "ready", l.version)
    BY <1>0, <2>1, EnterMoves DEF Transition, CanTransition, LifeGoesOn, Lives,
       Lifecycle!GiveBack
  <2>2. QED
    BY <1>1, <1>4, <2>1 DEF ReapRequeue
<1>5. QED
  BY <1>1, <1>2, <1>3, <1>4 DEF TickerRuns, Ticker, TickScan, TickGet, TickDrop, TickPush,
     TickSetFire, TickPopDue, TickEntry, TickPushEntry, ReapCollect, ReapPush

\* Whatever an executor does to a task is a move of its life: a result is applied
\* to a task the executor still owns, and the budget it read is the task's.
LEMMA ExecutorLives ==
  ASSUME FenceInv, BudgetInv, NEW e \in Executor, ExecutorRuns(e)
  PROVE  LifeGoesOn
<1>0. StoreOK /\ ExecutorsOK /\ ExecutorStep(e)
  BY DEF FenceInv, TypeInv, ExecutorRuns
<1>1. ASSUME UNCHANGED tasks PROVE LifeGoesOn
  BY <1>1 DEF LifeGoesOn, lifeOf
<1>2. ASSUME TakeReady(e) PROVE LifeGoesOn
  BY <1>0, <1>1, <1>2, TakeFacts, EnterMoves DEF LifeGoesOn, Lives, Lifecycle!Take
<1>3. ASSUME PickFails(e) PROVE LifeGoesOn
  BY <1>0, <1>1, <1>3, PickFailsFacts, EnterMoves
     DEF CanTransition, LifeGoesOn, Lives, Lifecycle!GiveBack
<1>4. ASSUME ApplyResult(e) PROVE LifeGoesOn
  <2>0. ex[e].task \in Task
    BY <1>0, <1>4, ApplyFacts
  <2>1. PICK t \in Task : t = ex[e].task /\ ex[e].pc = "apply"
    BY <1>0, <1>4, <2>0, ApplyFacts
  <2>2. CASE ~UNCHANGED tasks /\ ex'[e].pc = "schedule"
    <3>1. Retry(t, ex[e].now + RetryDelay, ex[e].seen)
      BY <1>0, <1>4, <2>1, <2>2, ApplyFacts
    <3>2. tasks[t].version = ex[e].seen
      BY <3>1 DEF Retry, CanRetry
    <3>3. tasks[t].state = "leased"
      BY <2>1, <3>2, RetryIsOwned DEF FenceInv
    <3>4. Lifecycle!Retry(t)
      BY <1>0, <2>1, <3>1, <3>3, RetryRetries
    <3>5. QED
      BY <2>1, <3>4 DEF LifeGoesOn, Lives
  <2>3. CASE ~UNCHANGED tasks /\ ex'[e].pc = "release"
    <3>1. /\ CanTransition(t, "leased", ex[e].seen)
          /\ \/ Enter(t, "succeeded")
             \/ ex[e].left <= 0 /\ Enter(t, "dead")
      BY <1>0, <1>4, <2>1, <2>3, ApplyFacts
    <3>2. tasks[t].state = "leased" /\ ex[e].seen \in Nat /\ tasks[t].version = ex[e].seen
      BY <1>0, <3>1 DEF CanTransition, ExecutorsOK, ExecutorLocal
    <3>3. ex[e].left = tasks[t].retriesLeft /\ tasks[t].retriesLeft \in Nat
      BY <1>0, <2>1, <3>2 DEF BudgetInv, SeenOK, Stored, StoreOK, TaskRec
    <3>4. CASE Enter(t, "succeeded")
      BY <1>0, <2>1, <3>2, <3>4, EnterMoves DEF LifeGoesOn, Lives, Lifecycle!Succeed
    <3>5. CASE ex[e].left <= 0 /\ Enter(t, "dead")
      <4>1. lifeOf[t].retriesLeft = 0
        BY <2>1, <3>3, <3>5 DEF lifeOf
      <4>2. Lifecycle!Moves(t, "leased", "dead")
        BY <1>0, <2>1, <3>2, <3>5, EnterMoves
      <4>3. QED
        BY <2>1, <4>1, <4>2 DEF LifeGoesOn, Lives, Lifecycle!Die, lifeOf
    <3>6. QED
      BY <3>1, <3>4, <3>5
  <2>4. QED
    BY <1>0, <1>1, <1>4, <2>2, <2>3, ApplyFacts
<1>5. QED
  BY <1>0, <1>1, <1>2, <1>3, <1>4 DEF ExecutorStep, Pop, PopNothing, BindLease,
     Repush, Finish, CheckLease, ScheduleRetry, ReleaseLease

\* Whatever a request does to a task is a move of its life: Cancel leaves only
\* states it may leave, and UpdateCron writes back a budget the task once had.
LEMMA ClientLives ==
  ASSUME FenceInv, BudgetInv, NEW c \in Client, RequestArrives(c) \/ HandlerRuns(c)
  PROVE  LifeGoesOn
<1>0. StoreOK /\ NoneGone /\ ClientsOK /\ BudgetOK /\ CopyOK
  BY DEF FenceInv, TypeInv, BudgetInv
<1>1. ASSUME UNCHANGED tasks PROVE LifeGoesOn
  BY <1>1 DEF LifeGoesOn, lifeOf
<1>2. ASSUME NEW id \in Task, RegisterSave(c, id) PROVE LifeGoesOn
  BY <1>0, <1>2, InsertRegisters DEF RegisterSave, LifeGoesOn, Lives
<1>3. cl[c].pc \notin WorkerPc => cl[c].task \in Task
  BY <1>0 DEF ClientsOK
<1>4. ASSUME TriggerMark(c) PROVE LifeGoesOn
  <2>1. CASE MarkReady(cl[c].task)
    BY <1>0, <1>3, <1>4, <2>1, EnterMoves
       DEF TriggerMark, WorkerPc, MarkReady, LifeGoesOn, Lives, Lifecycle!Start
  <2>2. QED
    BY <1>1, <1>4, <2>1 DEF TriggerMark
<1>5. ASSUME CancelTransition(c) PROVE LifeGoesOn
  <2>1. CASE Transition(cl[c].task, cl[c].state, "canceled", cl[c].version)
    <3> DEFINE t == cl[c].task
    <3>1. t \in Task /\ cl[c].state \notin Terminal \cup Absent
      BY <1>0, <1>3, <1>5 DEF CancelTransition, WorkerPc, ClientsOK
    <3>2. tasks[t].state \in {"pending", "ready", "leased"} /\ Enter(t, "canceled")
      BY <1>0, <2>1, <3>1
         DEF Transition, CanTransition, StoreOK, TaskRec, TaskState, Terminal, Absent
    <3>3. Lifecycle!Moves(t, tasks[t].state, "canceled")
      BY <1>0, <3>1, <3>2, EnterMoves
    <3>4. QED
      BY <3>1, <3>2, <3>3 DEF LifeGoesOn, Lives, Lifecycle!Cancel
  <2>2. QED
    BY <1>1, <1>5, <2>1 DEF CancelTransition
<1>6. ASSUME CronSave(c) PROVE LifeGoesOn
  <2>0. /\ cl[c].pc = "save" /\ cl[c].task \in CronTask
        /\ "update-cron" \in Ops /\ cl[c].retries \in 0..MaxRetries
    BY <1>0, <1>6, ModelAssumption DEF CronSave, CopyOK, ClientsOK, ClientLocal
  <2>1. PICK t \in CronTask : t = cl[c].task /\ t \in Task
    BY <2>0, ModelAssumption
  <2>2. CASE Overwrite(t, cl[c].retries, cl[c].at)
    <3>1. Lifecycle!Amend(t)
      BY <1>0, <2>0, <2>1, <2>2, OverwriteAmends
    <3>2. QED
      BY <2>0, <2>1, <3>1 DEF LifeGoesOn, Lives, NoUpdates
  <2>3. ~InsertCopy(t, cl[c].state, cl[c].retries, cl[c].at)
    BY <1>0, <2>1 DEF InsertCopy, NoneGone
  <2>4. QED
    BY <1>1, <1>6, <2>1, <2>2, <2>3 DEF CronSave
<1>7. CASE RequestArrives(c)
  BY <1>1, <1>2, <1>7 DEF RequestArrives, Request, TriggerGet, CancelGet, CronGet, WorkerCalls
<1>8. CASE HandlerRuns(c)
  BY <1>1, <1>4, <1>5, <1>6, <1>8 DEF HandlerRuns, Handle, RegisterTrack, TriggerPush,
     CancelUnready, CancelUndelay, CancelUntrack, CronRefresh, EnrollWorker, HeartbeatMark,
     HeartbeatList, HeartbeatRenew
<1>9. QED
  BY <1>7, <1>8

\* Every step of the scheduler is a step of the lifecycle of one task, or does
\* not show in it.
LEMMA LifecycleStep ==
  ASSUME FenceInv, BudgetInv, [Next]_vars
  PROVE  LifeGoesOn
<1>1. ASSUME UNCHANGED tasks PROVE LifeGoesOn
  BY <1>1 DEF LifeGoesOn, lifeOf
<1>2. QED
  BY <1>1, TickerLives, ExecutorLives, ClientLives
     DEF Next, vars, TimePasses, WorkerBeats, FenceInv

(***************************************************************************)
(* The budget invariant.                                                   *)
(***************************************************************************)
\* Only one task shows a change of state or budget.
OthersLive(id) ==
  \A other \in Task \ {id} :
    /\ tasks'[other].state = tasks[other].state
    /\ tasks'[other].retriesLeft = tasks[other].retriesLeft

\* What a step of the lifecycle that is not an amendment does to the state.
MovesOn(id) ==
  /\ tasks'[id].retriesLeft = tasks[id].retriesLeft
  /\ tasks'[id].state # "none"
  /\ tasks'[id].state = "dead" => tasks[id].retriesLeft = 0

\* A retry is spent.
Spends(id) ==
  /\ tasks[id].state = "leased" /\ tasks'[id].state = "ready"
  /\ tasks[id].retriesLeft > 0
  /\ tasks'[id].retriesLeft = tasks[id].retriesLeft - 1

\* A budget is written back.
Amended(id) ==
  /\ ~NoUpdates
  /\ tasks'[id].state = tasks[id].state /\ tasks[id].state # "none"
  /\ tasks'[id].retriesLeft \in 0..MaxRetries

\* A move of the lifecycle, read off the store.
LEMMA MovesFacts ==
  ASSUME NEW id \in Task, NEW from, NEW to, Lifecycle!Moves(id, from, to)
  PROVE  /\ tasks[id].state = from /\ tasks'[id].state = to
         /\ tasks'[id].retriesLeft = tasks[id].retriesLeft
         /\ OthersLive(id)
<1>1. \A i \in Task : /\ lifeOf[i].state = tasks[i].state
                      /\ lifeOf[i].retriesLeft = tasks[i].retriesLeft
                      /\ lifeOf'[i].state = tasks'[i].state
                      /\ lifeOf'[i].retriesLeft = tasks'[i].retriesLeft
  BY DEF lifeOf
<1>2. lifeOf[id].state = from /\ lifeOf' = [lifeOf EXCEPT ![id].state = to]
  BY DEF Lifecycle!Moves, lifeOf
<1>3. \A i \in Task : lifeOf[i] = [state |-> lifeOf[i].state, retriesLeft |-> lifeOf[i].retriesLeft]
  BY DEF lifeOf
<1>4. DOMAIN lifeOf = Task /\ \A i \in Task : DOMAIN lifeOf[i] = {"state", "retriesLeft"}
  BY DEF lifeOf
<1> HIDE DEF lifeOf
<1>5. lifeOf'[id].state = to /\ lifeOf'[id].retriesLeft = lifeOf[id].retriesLeft
  BY <1>2, <1>3, <1>4
<1>6. \A other \in Task \ {id} : lifeOf'[other] = lifeOf[other]
  BY <1>2, <1>4
<1>7. QED
  BY <1>1, <1>2, <1>5, <1>6 DEF OthersLive

\* A retry of the lifecycle, read off the store.
LEMMA SpendsFacts ==
  ASSUME NEW id \in Task, Lifecycle!Retry(id)
  PROVE  Spends(id) /\ OthersLive(id)
<1>1. \A i \in Task : /\ lifeOf[i].state = tasks[i].state
                      /\ lifeOf[i].retriesLeft = tasks[i].retriesLeft
                      /\ lifeOf'[i].state = tasks'[i].state
                      /\ lifeOf'[i].retriesLeft = tasks'[i].retriesLeft
  BY DEF lifeOf
<1>2. /\ lifeOf[id].state = "leased" /\ lifeOf[id].retriesLeft > 0
      /\ lifeOf' = [lifeOf EXCEPT ![id] = [state |-> "ready",
                                          retriesLeft |-> lifeOf[id].retriesLeft - 1]]
  BY DEF Lifecycle!Retry, lifeOf
<1>3. DOMAIN lifeOf = Task
  BY DEF lifeOf
<1> HIDE DEF lifeOf
<1>4. QED
  BY <1>1, <1>2, <1>3 DEF Spends, OthersLive

\* An amendment of the lifecycle, read off the store.
LEMMA AmendedFacts ==
  ASSUME NEW id \in Task, Lifecycle!Amend(id), ~NoUpdates
  PROVE  Amended(id) /\ OthersLive(id)
<1>1. \A i \in Task : /\ lifeOf[i].state = tasks[i].state
                      /\ lifeOf[i].retriesLeft = tasks[i].retriesLeft
                      /\ lifeOf'[i].state = tasks'[i].state
                      /\ lifeOf'[i].retriesLeft = tasks'[i].retriesLeft
  BY DEF lifeOf
<1>2. PICK left \in 0..MaxRetries : lifeOf' = [lifeOf EXCEPT ![id].retriesLeft = left]
  BY DEF Lifecycle!Amend, lifeOf
<1>3. lifeOf[id].state # "none"
  BY DEF Lifecycle!Amend, lifeOf
<1>4. DOMAIN lifeOf = Task /\ \A i \in Task : DOMAIN lifeOf[i] = {"state", "retriesLeft"}
  BY DEF lifeOf
<1> HIDE DEF lifeOf
<1>5. lifeOf'[id].retriesLeft = left /\ lifeOf'[id].state = lifeOf[id].state
  BY <1>2, <1>4
<1>6. \A other \in Task \ {id} : lifeOf'[other] = lifeOf[other]
  BY <1>2, <1>4
<1>7. QED
  BY <1>1, <1>3, <1>5, <1>6 DEF Amended, OthersLive

\* So a step of the lifecycle moves one task on, spends a retry of one that was
\* Leased, or writes back a budget.
LEMMA LivesFacts ==
  ASSUME NEW id \in Task, Lives(id)
  PROVE  OthersLive(id) /\ (MovesOn(id) \/ Spends(id) \/ Amended(id))
<1>1. CASE Lifecycle!Retry(id)
  BY <1>1, SpendsFacts
<1>2. CASE Lifecycle!Amend(id) /\ ~NoUpdates
  BY <1>2, AmendedFacts
<1>3. ASSUME NEW from, NEW to, Lifecycle!Moves(id, from, to), to \notin {"none", "dead"}
      PROVE  OthersLive(id) /\ MovesOn(id)
  BY <1>3, MovesFacts DEF MovesOn
<1>4. CASE Lifecycle!Die(id)
  <2>1. Lifecycle!Moves(id, "leased", "dead") /\ lifeOf[id].retriesLeft = 0
    BY <1>4 DEF Lifecycle!Die, lifeOf
  <2>2. tasks[id].retriesLeft = 0
    BY <2>1 DEF lifeOf
  <2>3. QED
    BY <2>1, <2>2, MovesFacts DEF MovesOn
<1>5. CASE \/ Lifecycle!Register(id) \/ Lifecycle!Start(id) \/ Lifecycle!Take(id)
           \/ Lifecycle!GiveBack(id) \/ Lifecycle!Succeed(id) \/ Lifecycle!Cancel(id)
  BY <1>3, <1>5 DEF Lifecycle!Register, Lifecycle!Start, Lifecycle!Take, Lifecycle!GiveBack,
     Lifecycle!Succeed, Lifecycle!Cancel
<1>6. QED
  BY <1>1, <1>2, <1>4, <1>5 DEF Lives

\* No step leaves a task more retries than it was registered with: a retry spends
\* one, and what UpdateCron writes back was in the budget before.
LEMMA BudgetStep ==
  ASSUME FenceInv, BudgetInv, [Next]_vars
  PROVE  BudgetOK'
<1>0. StoreOK /\ BudgetOK /\ LifeGoesOn
  BY LifecycleStep DEF FenceInv, TypeInv, BudgetInv
<1>1. \A id \in Task : tasks[id].retriesLeft \in Nat
  BY <1>0 DEF StoreOK, TaskRec
<1>2. CASE UNCHANGED lifeOf
  <2>1. \A id \in Task : lifeOf'[id] = lifeOf[id]
    BY <1>2
  <2>2. \A id \in Task : /\ tasks'[id].state = tasks[id].state
                         /\ tasks'[id].retriesLeft = tasks[id].retriesLeft
    BY <2>1 DEF lifeOf
  <2>3. QED
    BY <1>0, <2>2 DEF BudgetOK
<1>3. ASSUME NEW id \in Task, Lives(id) PROVE BudgetOK'
  <2>1. OthersLive(id) /\ (MovesOn(id) \/ Spends(id) \/ Amended(id))
    BY <1>3, LivesFacts
  <2>2. /\ tasks'[id].state # "none"
        /\ tasks'[id].retriesLeft <= MaxRetries
    BY <1>0, <1>1, <2>1, ModelAssumption DEF MovesOn, Spends, Amended, BudgetOK
  <2>3. QED
    BY <1>0, <2>1, <2>2 DEF BudgetOK, OthersLive
<1>4. QED
  BY <1>0, <1>2, <1>3 DEF LifeGoesOn

\* The only request that saves a copy is UpdateCron, of a task it has just read.
LEMMA CopyStep ==
  ASSUME FenceInv, BudgetInv, [Next]_vars
  PROVE  CopyOK'
<1>0. ClientsOK /\ BudgetOK /\ CopyOK
  BY DEF FenceInv, TypeInv, BudgetInv
<1>1. CASE UNCHANGED cl
  BY <1>0, <1>1 DEF CopyOK
<1>2. ASSUME NEW c \in Client, Request(c) \/ Handle(c) PROVE CopyOK'
  <2>1. \A d \in Client \ {c} : cl'[d] = cl[d]
    BY <1>0, <1>2, ClientAlone
  <2>2. CASE Request(c)
    <3>1. ASSUME cl'[c].pc = "save"
          PROVE  /\ "update-cron" \in Ops /\ cl'[c].task \in CronTask
                 /\ cl'[c].retries <= MaxRetries
      BY <1>0, <2>2, <3>1, RequestFacts, ModelAssumption DEF BudgetOK
    <3>2. QED
      BY <1>0, <2>1, <3>1 DEF CopyOK
  <2>3. CASE Handle(c)
    <3>1. cl'[c].pc # "save"
      BY <1>0, <2>3, HandleFacts
    <3>2. QED
      BY <1>0, <2>1, <3>1 DEF CopyOK
  <2>4. QED
    BY <1>2, <2>2, <2>3
<1>3. QED
  BY <1>1, <1>2 DEF Next, vars, TimePasses, WorkerBeats, TickerRuns, ExecutorRuns,
     RequestArrives, HandlerRuns

\* What RecordResult has read, it keeps.
SeenKept ==
  \A f \in Executor :
    ex'[f].pc \in {"check", "apply"} =>
      /\ ex[f].pc \in {"check", "apply"} /\ ex'[f].task = ex[f].task
      /\ ex'[f].seen = ex[f].seen /\ ex'[f].left = ex[f].left

\* What was read stays old, or the budget, over any step that reads nothing.
LEMMA SeenStays ==
  ASSUME TypeInv, StoreAdvances, GoneStays, SeenOK, SeenKept
  PROVE  SeenOK'
<1>1. ASSUME NEW f \in Executor, ex[f].pc \in {"check", "apply"}
      PROVE  ex[f].task \in Task /\ ex[f].seen \in Nat /\ tasks[ex[f].task].version \in Nat
  BY <1>1 DEF TypeInv, ExecutorsOK, ExecutorLocal, StoreOK, TaskRec
<1>2. QED
  BY <1>1 DEF SeenOK, SeenKept, Stored, HoldsVersion, GoneStays, StoreAdvances, Advances

\* RecordResult reads version and budget of its task together, once.
LEMMA ExecutorSees ==
  ASSUME TypeInv, SeenOK, NEW e \in Executor, ExecutorRuns(e), StoreAdvances, GoneStays
  PROVE  SeenOK'
<1>1. ExecutorsOK /\ StoreOK /\ ExecutorStep(e)
  BY DEF TypeInv, ExecutorRuns
<1>2. \A f \in Executor \ {e} : ex'[f] = ex[f]
  BY <1>1, ExecutorAlone
<1>3. ASSUME ex'[e].pc \notin {"check", "apply"} PROVE SeenOK'
  BY <1>1, <1>2, <1>3, SeenStays DEF SeenKept
<1>4. CASE ToIdle(e) \/ ToRelease(e)
  BY <1>1, <1>3, <1>4, IdleFacts, ReleaseFacts
<1>5. CASE Pop(e) \/ TakeReady(e) \/ BindLease(e)
  BY <1>1, <1>3, <1>5, PopFacts, TakeFacts, BindFacts
<1>6. CASE PickFails(e) \/ ApplyResult(e)
  BY <1>1, <1>3, <1>6, PickFailsFacts, ApplyFacts
<1>7. CASE Finish(e)
  <2>1. CASE ex'[e].pc = "release"
    BY <1>3, <2>1
  <2>2. CASE ex'[e].pc = "check"
    <3>1. /\ UNCHANGED tasks /\ ex'[e].task = ex[e].task /\ ex[e].task \in Task
          /\ ex'[e].seen = tasks[ex[e].task].version
          /\ ex'[e].left = tasks[ex[e].task].retriesLeft
      BY <1>1, <1>7, <2>2, FinishFacts DEF Carries
    <3>2. tasks[ex[e].task].version \in Nat
      BY <1>1, <3>1 DEF StoreOK, TaskRec
    <3>3. QED
      BY <1>2, <3>1, <3>2 DEF SeenOK, Stored, HoldsVersion
  <2>3. QED
    BY <1>1, <1>7, <2>1, <2>2, FinishFacts
<1>8. CASE CheckLease(e)
  <2>1. SeenKept
    BY <1>1, <1>2, <1>8, CheckFacts DEF SeenKept, Carries
  <2>2. QED
    BY <1>1, <2>1, SeenStays
<1>9. QED
  BY <1>1, <1>4, <1>5, <1>6, <1>7, <1>8 DEF ExecutorStep, PopNothing, Repush, ScheduleRetry,
     ReleaseLease

\* The state main.go starts from has full budgets and no request in progress.
LEMMA BudgetInit == Init => BudgetInv
BY ModelAssumption DEF Init, InitStore, InitApi, InitExecution, IdleClient, IdleExecutor,
   BudgetInv, BudgetOK, CopyOK, SeenOK

\* What RecordResult read stays old, or the task's budget, as long as no removed
\* task comes back.
LEMMA SeenStep ==
  ASSUME TypeInv, Fresh, SeenOK, GoneStays, [Next]_vars
  PROVE  SeenOK'
<1>1. StoreAdvances
  BY VersionsAdvance
<1>2. ASSUME UNCHANGED ex PROVE SeenOK'
  <2>1. SeenKept
    BY <1>2 DEF SeenKept
  <2>2. QED
    BY <1>1, <2>1, SeenStays
<1>3. ASSUME NEW e \in Executor, ExecutorRuns(e) PROVE SeenOK'
  BY <1>1, <1>3, ExecutorSees
<1>4. QED
  BY <1>2, <1>3 DEF Next, vars, TimePasses, WorkerBeats, TickerRuns, RequestArrives, HandlerRuns

\* Every step of the scheduler preserves the budget invariant.
LEMMA BudgetInvStep ==
  ASSUME FenceInv, BudgetInv, [Next]_vars
  PROVE  BudgetInv'
<1>1. SeenOK'
  BY FenceHolds, SeenStep DEF FenceInv, BudgetInv
<1>2. QED
  BY <1>1, BudgetStep, CopyStep DEF BudgetInv

\* No budget ever exceeds MaxRetries, and RecordResult never acts on a budget the
\* task has not, whatever requests and executors do in between.
THEOREM BudgetIsInvariant == Spec => [](FenceInv /\ BudgetInv)
<1>1. Init => BudgetInv
  BY BudgetInit
<1>2. FenceInv /\ BudgetInv /\ [Next]_vars => BudgetInv'
  BY BudgetInvStep
<1>3. QED
  BY <1>1, <1>2, FenceIsInvariant, PTL DEF Spec

(***************************************************************************)
(* The refinement.                                                         *)
(***************************************************************************)
\* Hidden behind state and retry budget, every behaviour of the goroutines is an
\* orderly life of each task: taken only when Ready, given back or retried at the
\* price of the budget, dead only with none left, never revived.
THEOREM LifecycleIsImplemented == Spec => ImplementsLifecycle
<1>1. Init => Lifecycle!Init
  BY DEF Init, InitStore, Lifecycle!Init, Lifecycle!Unborn
<1>2. FenceInv /\ BudgetInv /\ [Next]_vars =>
        [Lifecycle!Next]_[id \in Task |-> [state |-> tasks[id].state,
                                           retriesLeft |-> tasks[id].retriesLeft]]
  BY LifecycleStep DEF LifeGoesOn, Lives, Lifecycle!Next, lifeOf
<1>3. QED
  BY <1>1, <1>2, BudgetIsInvariant, PTL DEF Spec, ImplementsLifecycle, Lifecycle!Spec


\* Without a request that writes a budget back, only a retry changes it, and a task
\* that dies has spent it.
LEMMA BudgetShrinksStep ==
  ASSUME NoUpdates, FenceInv, BudgetInv, [Next]_vars, NEW id \in Task
  PROVE  /\ \/ tasks'[id].retriesLeft = tasks[id].retriesLeft
            \/ /\ tasks'[id].retriesLeft = tasks[id].retriesLeft - 1
               /\ tasks[id].state = "leased" /\ tasks'[id].state = "ready"
         /\ tasks'[id].state = "dead" =>
              \/ tasks'[id].retriesLeft = 0
              \/ tasks[id].state = "dead" /\ tasks'[id].retriesLeft = tasks[id].retriesLeft
<1>1. CASE UNCHANGED lifeOf
  <2>1. lifeOf'[id] = lifeOf[id]
    BY <1>1
  <2>2. tasks'[id].state = tasks[id].state /\ tasks'[id].retriesLeft = tasks[id].retriesLeft
    BY <2>1 DEF lifeOf
  <2>3. QED
    BY <2>2
<1>2. ASSUME NEW other \in Task, Lives(other)
      PROVE  OthersLive(other) /\ (MovesOn(other) \/ Spends(other))
  BY <1>2, LivesFacts DEF Amended
<1>3. CASE \E other \in Task \ {id} : Lives(other)
  BY <1>2, <1>3 DEF OthersLive
<1>4. CASE Lives(id)
  BY <1>2, <1>4 DEF MovesOn, Spends
<1>5. QED
  BY <1>1, <1>3, <1>4, LifecycleStep DEF LifeGoesOn

\* RetriesLeft is only ever spent: one at a time, by the retry that makes a Leased
\* task Ready, as long as no cron update writes an old copy of it back.
THEOREM RetryBudgetOnlyShrinks ==
  ASSUME NoUpdates
  PROVE  Spec => RetryBudgetShrinks
<1>1. FenceInv /\ BudgetInv /\ [Next]_vars =>
        [\A id \in Task :
           \/ tasks'[id].retriesLeft = tasks[id].retriesLeft
           \/ /\ tasks'[id].retriesLeft = tasks[id].retriesLeft - 1
              /\ tasks[id].state = "leased" /\ tasks'[id].state = "ready"]_vars
  BY BudgetShrinksStep
<1>2. QED
  BY <1>1, BudgetIsInvariant, PTL DEF Spec, RetryBudgetShrinks

(***************************************************************************)
(* Results: what the records say of a task.                                *)
(***************************************************************************)
\* A result about to be applied to the version it was recorded for has its record.
AppliedOK ==
  \A e \in Executor :
    ex[e].pc = "apply" /\ ex[e].seen = tasks[ex[e].task].version =>
      /\ ex[e].status = "failure" => records[ex[e].task]["failure"] > Consumed(ex[e].task)
      /\ ex[e].status = "success" => records[ex[e].task]["success"] > 0

\* A budget UpdateCron is about to write back is backed already.
CopiesBacked ==
  \A c \in Client :
    cl[c].pc = "save" => records[cl[c].task]["failure"] >= MaxRetries - cl[c].retries

\* A task that died has no retries left.
DeadSpent == \A id \in Task : tasks[id].state = "dead" => tasks[id].retriesLeft = 0

ResultsInv == OutcomesBacked /\ AppliedOK /\ CopiesBacked

\* What is backed stays backed over a quiet step.
LEMMA QuietBacked ==
  ASSUME TypeInv, TypeInv', RecordsGrow, Quiet, OutcomesBacked
  PROVE  OutcomesBacked'
<1>1. ASSUME NEW id \in Task
      PROVE  /\ records[id]["failure"] \in Nat /\ records'[id]["failure"] \in Nat
             /\ records[id]["success"] \in Nat /\ records'[id]["success"] \in Nat
             /\ records'[id]["failure"] >= records[id]["failure"]
             /\ records'[id]["success"] >= records[id]["success"]
             /\ tasks[id].retriesLeft \in Nat
  BY DEF TypeInv, RecordsOK, Status, RecordsGrow, StoreOK, TaskRec
<1>2. QED
  BY <1>1, ModelAssumption DEF Quiet, OutcomesBacked, Consumed

\* A result is applied under the version it was recorded for, or not at all.
LEMMA ApplyBacked ==
  ASSUME TypeInv, SeenOK, ResultsInv, NEW e \in Executor, ExecutorRuns(e), ApplyResult(e)
  PROVE  OutcomesBacked'
<1>0. StoreOK /\ ExecutorsOK /\ RecordsOK
  BY DEF TypeInv
<1>1. /\ ex[e].pc = "apply" /\ ex[e].task \in Task /\ UNCHANGED records
      /\ ex[e].seen \in Nat
  BY <1>0, ApplyFacts DEF ExecutorsOK, ExecutorLocal
<1>2. CASE UNCHANGED tasks
  BY <1>1, <1>2 DEF ResultsInv, OutcomesBacked, Consumed
<1> PICK t \in Task : t = ex[e].task
  BY <1>1
<1>3. \A id \in Task : /\ records[id]["failure"] \in Nat /\ records[id]["success"] \in Nat
                       /\ Consumed(id) \in Int
  BY <1>0, ModelAssumption DEF RecordsOK, Status, Consumed, StoreOK, TaskRec
<1>4. ASSUME tasks[t].version = ex[e].seen
      PROVE  /\ ex[e].status = "failure" => records[t]["failure"] > Consumed(t)
             /\ ex[e].status = "success" => records[t]["success"] > 0
  BY <1>1, <1>4 DEF ResultsInv, AppliedOK
<1>5. OutcomesBacked
  BY DEF ResultsInv
<1>6. ASSUME Others(t),
             records[t]["failure"] >= Consumed(t)',
             tasks'[t].state = "dead" => records[t]["failure"] > MaxRetries,
             tasks'[t].state = "succeeded" => records[t]["success"] > 0
      PROVE  OutcomesBacked'
  BY <1>1, <1>5, <1>6 DEF Others, OutcomesBacked, Consumed
<1>7. CASE ex[e].status = "success" /\ Enter(t, "succeeded") /\ CanTransition(t, "leased", ex[e].seen)
  <2>1. tasks[t].version = ex[e].seen
    BY <1>1, <1>7 DEF CanTransition
  <2>2. /\ tasks'[t].state = "succeeded" /\ tasks'[t].retriesLeft = tasks[t].retriesLeft
        /\ Others(t)
    BY <1>0, <1>1, <1>7, EnterFacts
  <2>3. Consumed(t)' = Consumed(t) /\ records[t]["failure"] >= Consumed(t)
    BY <1>1, <1>5, <2>2 DEF Consumed, OutcomesBacked
  <2>4. QED
    BY <1>4, <1>6, <1>7, <2>1, <2>2, <2>3
<1>8. CASE /\ ex[e].status = "failure" /\ ex[e].left <= 0 /\ Enter(t, "dead")
           /\ CanTransition(t, "leased", ex[e].seen)
  <2>1. tasks[t].version = ex[e].seen /\ tasks[t].retriesLeft = 0
    BY <1>0, <1>1, <1>8 DEF CanTransition, SeenOK, Stored, StoreOK, TaskRec
  <2>2. /\ tasks'[t].state = "dead" /\ tasks'[t].retriesLeft = tasks[t].retriesLeft
        /\ Others(t)
    BY <1>0, <1>1, <1>8, EnterFacts
  <2>3. Consumed(t)' = Consumed(t) /\ Consumed(t) = MaxRetries
    BY <2>1, <2>2, ModelAssumption DEF Consumed
  <2>4. QED
    BY <1>1, <1>3, <1>4, <1>6, <1>8, <2>1, <2>2, <2>3, ModelAssumption
<1>9. CASE ex[e].status = "failure" /\ Retry(t, ex[e].now + RetryDelay, ex[e].seen)
  <2>1. /\ tasks[t].version = ex[e].seen /\ tasks'[t].state = "ready"
        /\ tasks'[t].retriesLeft = tasks[t].retriesLeft - 1 /\ Others(t)
    BY <1>0, <1>1, <1>9, RetryFacts
  <2>2. Consumed(t)' = Consumed(t) + 1
    BY <1>0, <1>1, <2>1, ModelAssumption DEF Consumed, StoreOK, TaskRec
  <2>3. QED
    BY <1>1, <1>3, <1>4, <1>6, <1>9, <2>1, <2>2
<1>10. QED
  BY <1>0, <1>1, <1>2, <1>7, <1>8, <1>9, ApplyFacts

\* UpdateCron writes back a budget whose spent retries are on record.
LEMMA SaveBacked ==
  ASSUME TypeInv, NoneGone, ResultsInv, NEW c \in Client, HandlerRuns(c), CronSave(c)
  PROVE  OutcomesBacked'
<1>0. StoreOK /\ ClientsOK /\ OutcomesBacked /\ CopiesBacked
  BY DEF TypeInv, ResultsInv
<1>1. cl[c].pc = "save" /\ UNCHANGED records
  BY DEF CronSave, HandlerRuns
<1> PICK t \in Task : t = cl[c].task
  BY <1>0, <1>1 DEF ClientsOK, WorkerPc
<1>2. CASE UNCHANGED tasks
  BY <1>0, <1>1, <1>2 DEF OutcomesBacked, Consumed
<1>3. CASE Overwrite(t, cl[c].retries, cl[c].at)
  <2>1. /\ tasks'[t].state = tasks[t].state /\ tasks'[t].retriesLeft = cl[c].retries
        /\ Others(t)
    BY <1>0, <1>3, OverwriteFacts
  <2>2. records[t]["failure"] >= Consumed(t)'
    BY <1>0, <1>1, <2>1 DEF CopiesBacked, Consumed
  <2>3. QED
    BY <1>0, <1>1, <2>1, <2>2 DEF OutcomesBacked, Consumed, Others
<1>4. ~InsertCopy(t, cl[c].state, cl[c].retries, cl[c].at)
  BY DEF InsertCopy, NoneGone
<1>5. QED
  BY <1>2, <1>3, <1>4 DEF CronSave

\* Every step keeps what is consumed, dead or succeeded backed by records.
LEMMA BackedStep ==
  ASSUME FenceInv, BudgetInv, ResultsInv, [Next]_vars
  PROVE  OutcomesBacked'
<1>1. TypeInv /\ TypeInv' /\ NoneGone /\ RecordsGrow /\ OutcomesBacked /\ SeenOK /\ BudgetOK
  BY TypeStep, RecordsStep DEF FenceInv, ResultsInv, BudgetInv
<1>2. ASSUME Quiet PROVE OutcomesBacked'
  BY <1>1, <1>2, QuietBacked
<1>3. ASSUME UNCHANGED tasks PROVE Quiet
  BY <1>3 DEF Quiet
<1>4. ASSUME NEW e \in Executor, ExecutorRuns(e) PROVE OutcomesBacked'
  BY <1>1, <1>2, <1>4, ExecutorQuiet, ApplyBacked
<1>5. ASSUME NEW c \in Client, RequestArrives(c) \/ HandlerRuns(c) PROVE OutcomesBacked'
  <2>1. CASE HandlerRuns(c) /\ CronSave(c)
    BY <1>1, <2>1, SaveBacked
  <2>2. ASSUME RequestArrives(c), CronSave(c) PROVE FALSE
    BY <1>1, <2>2, RequestFacts DEF RequestArrives, CronSave, TypeInv
  <2>3. QED
    BY <1>1, <1>2, <1>5, <2>1, <2>2, ClientQuiet
<1>6. QED
  BY <1>1, <1>2, <1>3, <1>4, <1>5, TickerQuiet DEF Next, vars, TimePasses, WorkerBeats

\* A result passes the check of RecordResult with its record, and keeps it as long
\* as the task stays at the version it was recorded for.
LEMMA AppliedStep ==
  ASSUME FenceInv, BudgetInv, ResultsInv, [Next]_vars
  PROVE  AppliedOK'
<1>0. /\ StoreOK /\ ExecutorsOK /\ RecordsOK /\ RecordsOK' /\ RecordsGrow /\ StoreAdvances
      /\ SeenOK /\ NoneGone /\ OutcomesBacked /\ AppliedOK
  BY TypeStep, RecordsStep, VersionsAdvance DEF FenceInv, TypeInv, ResultsInv, BudgetInv
<1>1. \A id \in Task : /\ records[id]["failure"] \in Nat /\ records'[id]["failure"] \in Nat
                       /\ records[id]["success"] \in Nat /\ records'[id]["success"] \in Nat
                       /\ records'[id]["failure"] >= records[id]["failure"]
                       /\ records'[id]["success"] >= records[id]["success"]
                       /\ tasks[id].version \in Nat /\ tasks[id].retriesLeft \in Nat
  BY <1>0 DEF RecordsOK, Status, RecordsGrow, StoreOK, TaskRec
<1>2. ASSUME NEW f \in Executor, ex'[f] = ex[f], ex[f].pc = "apply",
             ex[f].seen = tasks'[ex[f].task].version
      PROVE  /\ ex[f].status = "failure" => records'[ex[f].task]["failure"] > Consumed(ex[f].task)'
             /\ ex[f].status = "success" => records'[ex[f].task]["success"] > 0
  <2> PICK t \in Task : t = ex[f].task
    BY <1>0, <1>2 DEF ExecutorsOK
  <2>1. ex[f].seen \in Nat /\ ex[f].seen <= tasks[t].version
    BY <1>0, <1>2 DEF SeenOK, Stored, NoneGone, ExecutorsOK, ExecutorLocal
  <2>2. tasks'[t].version = tasks[t].version /\ tasks'[t].retriesLeft = tasks[t].retriesLeft
    BY <1>0, <1>1, <1>2, <2>1 DEF StoreAdvances, Advances
  <2>3. /\ ex[f].status = "failure" => records[t]["failure"] > Consumed(t)
        /\ ex[f].status = "success" => records[t]["success"] > 0
    BY <1>0, <1>2, <2>2 DEF AppliedOK
  <2>4. Consumed(t)' = Consumed(t) /\ Consumed(t) \in Int
    BY <1>1, <2>2, ModelAssumption DEF Consumed
  <2>5. QED
    BY <1>1, <1>2, <2>3, <2>4 DEF Consumed
<1>3. CASE UNCHANGED ex
  BY <1>2, <1>3 DEF AppliedOK
<1>4. ASSUME NEW e \in Executor, ExecutorRuns(e) PROVE AppliedOK'
  <2>1. ExecutorStep(e) /\ \A f \in Executor \ {e} : ex'[f] = ex[f]
    BY <1>0, <1>4, ExecutorAlone DEF ExecutorRuns
  <2>2. ASSUME ex'[e].pc # "apply" PROVE AppliedOK'
    BY <1>2, <2>1, <2>2 DEF AppliedOK
  <2>3. CASE CheckLease(e) /\ ex'[e].pc = "apply"
    <3>1. /\ ex'[e].task = ex[e].task /\ ex'[e].status = ex[e].status
          /\ UNCHANGED tasks
          /\ records' = [records EXCEPT ![ex[e].task][ex[e].status] = @ + 1]
          /\ ex[e].task \in Task
      BY <1>0, <2>3, CheckFacts DEF Carries
    <3> PICK t \in Task : t = ex[e].task
      BY <3>1
    <3>2. /\ ex[e].status = "failure" => records'[t]["failure"] = records[t]["failure"] + 1
          /\ ex[e].status = "success" => records'[t]["success"] = records[t]["success"] + 1
      BY <1>0, <3>1 DEF RecordsOK, Status
    <3>3. records[t]["failure"] >= Consumed(t) /\ Consumed(t)' = Consumed(t) /\ Consumed(t) \in Int
      BY <1>0, <1>1, <3>1, ModelAssumption DEF OutcomesBacked, Consumed
    <3>4. /\ ex[e].status = "failure" => records'[t]["failure"] > Consumed(t)'
          /\ ex[e].status = "success" => records'[t]["success"] > 0
      BY <1>1, <3>2, <3>3
    <3>5. QED
      BY <1>2, <2>1, <3>1, <3>4 DEF AppliedOK, Consumed
  <2>4. ASSUME ~CheckLease(e) PROVE ex'[e].pc # "apply"
    BY <1>0, <2>1, <2>4, ApplyingFacts
  <2>5. QED
    BY <2>2, <2>3, <2>4
<1>5. QED
  BY <1>3, <1>4 DEF Next, vars, TimePasses, WorkerBeats, TickerRuns, RequestArrives, HandlerRuns

\* UpdateCron reads a budget that is backed, and records are never removed.
LEMMA CopiesStep ==
  ASSUME FenceInv, ResultsInv, [Next]_vars
  PROVE  CopiesBacked'
<1>0. ClientsOK /\ StoreOK /\ RecordsOK /\ RecordsOK' /\ RecordsGrow /\ OutcomesBacked /\ CopiesBacked
  BY TypeStep, RecordsStep DEF FenceInv, TypeInv, ResultsInv
<1>1. \A id \in Task : /\ records[id]["failure"] \in Nat /\ records'[id]["failure"] \in Nat
                       /\ records'[id]["failure"] >= records[id]["failure"]
                       /\ tasks[id].retriesLeft \in Nat
  BY <1>0 DEF RecordsOK, Status, RecordsGrow, StoreOK, TaskRec
<1>2. ASSUME NEW c \in Client, cl'[c] = cl[c], cl[c].pc = "save"
      PROVE  records'[cl[c].task]["failure"] >= MaxRetries - cl[c].retries
  <2>1. cl[c].task \in Task /\ cl[c].retries \in Nat
    BY <1>0, <1>2 DEF ClientsOK, ClientLocal, WorkerPc
  <2>2. records[cl[c].task]["failure"] >= MaxRetries - cl[c].retries
    BY <1>0, <1>2 DEF CopiesBacked
  <2>3. QED
    BY <1>1, <2>1, <2>2, ModelAssumption
<1>3. CASE UNCHANGED cl
  BY <1>2, <1>3 DEF CopiesBacked
<1>4. ASSUME NEW c \in Client, RequestArrives(c) \/ HandlerRuns(c) PROVE CopiesBacked'
  <2>1. \A d \in Client \ {c} : cl'[d] = cl[d]
    BY <1>0, <1>4, ClientAlone DEF RequestArrives, HandlerRuns
  <2>2. ASSUME cl'[c].pc = "save"
        PROVE  records'[cl'[c].task]["failure"] >= MaxRetries - cl'[c].retries
    <3>1. PICK id \in Task : cl'[c].task = id /\ cl'[c].retries = tasks[id].retriesLeft
      BY <1>0, <1>4, <2>2, RequestFacts, HandleFacts, ModelAssumption
         DEF RequestArrives, HandlerRuns
    <3>2. records[id]["failure"] >= MaxRetries - tasks[id].retriesLeft
      BY <1>0 DEF OutcomesBacked, Consumed
    <3>3. QED
      BY <1>1, <3>1, <3>2, ModelAssumption
  <2>3. QED
    BY <1>2, <2>1, <2>2 DEF CopiesBacked
<1>5. QED
  BY <1>3, <1>4 DEF Next, vars, TimePasses, WorkerBeats, TickerRuns, ExecutorRuns

\* Nothing is consumed, dead or succeeded when the service starts.
LEMMA ResultsInit == Init => ResultsInv /\ DeadSpent
BY ModelAssumption DEF Init, InitStore, InitApi, InitExecution, IdleClient, IdleExecutor,
   Status, ResultsInv, OutcomesBacked, AppliedOK, CopiesBacked, DeadSpent, Consumed

\* The records are backed together with what the goroutines hold of them: a result
\* about to be applied and a budget about to be written back have theirs already.
LEMMA ResultsAreInvariant == Spec => [](FenceInv /\ BudgetInv /\ ResultsInv)
<1>1. Init => ResultsInv
  BY ResultsInit
<1>2. FenceInv /\ BudgetInv /\ ResultsInv /\ [Next]_vars => ResultsInv'
  BY BackedStep, AppliedStep, CopiesStep DEF ResultsInv
<1>3. QED
  BY <1>1, <1>2, BudgetIsInvariant, PTL DEF Spec

\* Every retry consumed has a failure record, a dead task more of them than its
\* budget, a succeeded task a success, whatever requests do.
THEOREM ResultsAreBacked == Spec => []OutcomesBacked
<1>1. ResultsInv => OutcomesBacked
  BY DEF ResultsInv
<1>2. QED
  BY <1>1, ResultsAreInvariant, PTL

\* And when no cron update writes a spent budget back, a dead letter is also known
\* by its empty budget: every outcome RecordResult has applied is on record.
THEOREM OutcomesAreRecorded ==
  ASSUME NoUpdates
  PROVE  Spec => []OutcomeIsRecorded
<1>1. Init => DeadSpent
  BY ResultsInit
<1>2. FenceInv /\ BudgetInv /\ DeadSpent /\ [Next]_vars => DeadSpent'
  BY BudgetShrinksStep DEF DeadSpent
<1>3. ResultsInv /\ DeadSpent => OutcomeIsRecorded
  BY DEF ResultsInv, DeadSpent, OutcomeIsRecorded
<1>4. QED
  BY <1>1, <1>2, <1>3, ResultsAreInvariant, PTL DEF Spec
=============================================================================
