--------------------------- MODULE HandoverProofs ---------------------------
(***************************************************************************)
(* Hand-over: a Ready task is never forgotten between the store and the    *)
(* queues, nor a Pending one by the fire index, whatever requests cross;   *)
(* and a failed one waits out its retry delay.                             *)
(***************************************************************************)
EXTENDS LifecycleProofs

(***************************************************************************)
(* Who may cover a task: a queue, or a goroutine about to push or take it. *)
(***************************************************************************)
QueueCovers(id) == id \in ready \/ \E entry \in delayed : entry.task = id

TickerCovers(id) ==
  \/ tk.pc \in {"push", "pushEntry", "pushReaped"} /\ tk.cur = id
  \/ tk.pc \in {"entries", "pushEntry"} /\ id \in tk.todo

ExecutorCovers(id) ==
  \E e \in Executor : ex[e].pc \in {"popped", "repush", "schedule"} /\ ex[e].task = id

ClientCovers(id) == \E c \in Client : cl[c].pc = "push" /\ cl[c].task = id

Covered(id) ==
  \/ QueueCovers(id)
  \/ TickerCovers(id)
  \/ ExecutorCovers(id)
  \/ ClientCovers(id)

\* The four kinds of cover are the ones ReadyIsCovered names.
LEMMA CoveredIsReadyIsCovered ==
  ReadyIsCovered <=> \A id \in Task : tasks[id].state = "ready" => Covered(id)
BY DEF ReadyIsCovered, Covered, PushPending, QueueCovers, TickerCovers, ExecutorCovers,
       ClientCovers

\* ReadyQueue.Push queues its task and forgets no other, whether it adds an
\* entry or skips a second one.
LEMMA PushReadyCovers ==
  ASSUME NEW t, PushReady(t), UNCHANGED delayed, NEW id
  PROVE  QueueCovers(id) \/ id = t => QueueCovers(id)'
BY DEF PushReady, QueueCovers

\* DelayedQueue.Push queues its task and forgets no other, whether it adds an
\* entry or moves one to an earlier time.
LEMMA PushDelayedCovers ==
  ASSUME QueuesOK, NEW t \in Task, NEW at \in Time, PushDelayed(t, at), UNCHANGED ready,
         NEW id
  PROVE  QueueCovers(id) \/ id = t => QueueCovers(id)'
<1> DEFINE old == {entry \in delayed : entry.task = t}
           moved(entry) == IF entry.task = t /\ entry.at > at
                             THEN [entry EXCEPT !.at = at] ELSE entry
<1>1. CASE old = {}
  <2> DEFINE new == [task |-> t, at |-> at]
  <2>1. delayed' = delayed \cup {new} /\ new.task = t
    BY <1>1 DEF PushDelayed
  <2> HIDE DEF new
  <2>2. QED
    BY <2>1 DEF QueueCovers
<1>2. CASE old # {}
  <2>1. delayed' = {moved(entry) : entry \in delayed}
    BY <1>2 DEF PushDelayed
  <2>2. \A entry \in delayed : moved(entry).task = entry.task
    BY DEF QueuesOK, DelayedEntry
  <2> HIDE DEF moved
  <2>3. id = t => \E entry \in delayed : entry.task = id
    BY <1>2
  <2>4. QED
    BY <2>1, <2>2, <2>3 DEF QueueCovers
<1>3. QED
  BY <1>1, <1>2

\* Tick and ReapExpired leave every Ready task covered: what they pop from the
\* delayed queue or make Ready stays in the ticker's hands until it is pushed.
LEMMA TickerHandsOver ==
  ASSUME TypeInv, ReadyIsCovered, TickerRuns, NEW id \in Task, tasks'[id].state = "ready"
  PROVE  Covered(id)'
<1>0. StoreOK /\ TickerOK /\ QueuesOK
  BY DEF TypeInv
<1>1. tasks[id].state = "ready" => Covered(id)
  BY CoveredIsReadyIsCovered
<1>2. /\ ExecutorCovers(id) => ExecutorCovers(id)'
      /\ ClientCovers(id) => ClientCovers(id)'
  BY DEF TickerRuns, ExecutorCovers, ClientCovers
<1> USE DEF Covered
<1>3. ASSUME UNCHANGED tasks, UNCHANGED queueVars, ~TickerCovers(id) PROVE Covered(id)'
  BY <1>1, <1>2, <1>3 DEF QueueCovers, queueVars
<1>4. CASE TickScan
  BY <1>3, <1>4 DEF TickScan, TickerCovers, IdleTicker
<1>4a. ASSUME TickDrop \/ \E t \in tk.todo : TickGet(t) PROVE Covered(id)'
  BY <1>3, <1>4a DEF TickDrop, TickGet, TickerCovers
<1>5. CASE TickMark
  <2> DEFINE t == tk.cur
  <2>1. t \in Task /\ ~TickerCovers(id)
    BY <1>0, <1>5 DEF TickMark, TickerCovers, TickerOK, TickerLocal
  <2>2. CASE MarkReady(t) /\ id = t
    BY <1>0, <1>5, <2>1, <2>2 DEF TickMark, MarkReady, TickerCovers, TickerOK, TickerLocal
  <2>3. CASE MarkReady(t) /\ id # t
    BY <1>0, <1>1, <1>2, <1>5, <2>1, <2>3
       DEF TickMark, MarkReady, Enter, StoreOK, QueueCovers, queueVars
  <2>4. QED
    BY <1>3, <1>5, <2>1, <2>2, <2>3 DEF TickMark
<1>6. CASE TickPush \/ TickPushEntry \/ ReapPush
  <2>1. PushReady(tk.cur) /\ UNCHANGED <<tasks, delayed>>
    BY <1>6 DEF TickPush, TickPushEntry, ReapPush
  <2>2. TickerCovers(id) => id = tk.cur \/ TickerCovers(id)'
    BY <1>0, <1>6 DEF TickPush, TickPushEntry, ReapPush, TickerCovers, TickerOK, TickerLocal
  <2>3. QED
    BY <1>1, <1>2, <2>1, <2>2, PushReadyCovers
<1>7. CASE TickSetNextRun
  <2>1. UNCHANGED tasks \/ \E next : SetNextRun(tk.cur, next)
    BY <1>7 DEF TickSetNextRun
  <2>2. tasks[id].state = "ready" /\ ~TickerCovers(id)
    <3>1. \A next : SetNextRun(tk.cur, next) => tasks'[id].state = tasks[id].state
      BY <1>0 DEF SetNextRun, StoreOK, TaskRec
    <3>2. QED
      BY <1>7, <2>1, <3>1 DEF TickSetNextRun, TickerCovers
  <2>3. QED
    BY <1>1, <1>2, <1>7, <2>2 DEF TickSetNextRun, QueueCovers, queueVars
<1>8. CASE TickSetFire
  BY <1>3, <1>8 DEF TickSetFire, TickerCovers
<1>9. CASE TickPopDue
  <2> DEFINE due == {entry.task : entry \in DueEntries(tk.now)}
  <2>1. tk' = [tk EXCEPT !.pc = "entries", !.now = 0, !.todo = due]
    BY <1>9 DEF TickPopDue
  <2>2. \A entry \in delayed : entry \in delayed' \/ entry.task \in due
    BY <1>9 DEF TickPopDue
  <2> HIDE DEF due
  <2>3. tk'.pc = "entries" /\ tk'.todo = due
    BY <1>0, <2>1 DEF TickerOK, TickerLocal
  <2>4. ~TickerCovers(id)
    BY <1>9 DEF TickPopDue, TickerCovers
  <2>5. QED
    BY <1>1, <1>2, <1>9, <2>2, <2>3, <2>4 DEF TickPopDue, QueueCovers, TickerCovers
<1>10. ASSUME NEW t \in tk.todo, TickEntry(t) PROVE Covered(id)'
  <2> DEFINE rest == tk.todo \ {t}
  <2>1. /\ tk.pc = "entries"
        /\ UNCHANGED <<tasks, queueVars>>
        /\ \/ tk' = [tk EXCEPT !.pc = "pushEntry", !.todo = rest, !.cur = t]
           \/ tasks[t].state # "ready" /\ tk' = [tk EXCEPT !.todo = rest]
    BY <1>10 DEF TickEntry
  <2>2. id \in tk.todo => id \in rest \/ id = t
    OBVIOUS
  <2> HIDE DEF rest
  <2>3. \/ tk'.pc = "pushEntry" /\ tk'.todo = rest /\ tk'.cur = t
        \/ tasks[t].state # "ready" /\ tk'.pc = "entries" /\ tk'.todo = rest
    BY <1>0, <2>1 DEF TickerOK, TickerLocal
  <2>4. id \in tk.todo => TickerCovers(id)'
    BY <2>1, <2>2, <2>3 DEF TickerCovers
  <2>5. QED
    BY <1>3, <2>1, <2>4 DEF TickerCovers
<1>11. CASE ReapCollect
  <2>1. tk.pc = "entries" /\ tk.todo = {}
    BY <1>11 DEF ReapCollect
  <2>2. QED
    BY <1>3, <1>11, <2>1 DEF ReapCollect, TickerCovers
<1>12. ASSUME NEW l \in tk.expired, ReapRequeue(l) PROVE Covered(id)'
  <2>1. l.task \in Task /\ ~TickerCovers(id)
    BY <1>0, <1>12 DEF ReapRequeue, TickerCovers, TickerOK, TickerLocal, Lease
  <2>2. CASE Transition(l.task, "leased", "ready", l.version) /\ id = l.task
    BY <1>0, <1>12, <2>1, <2>2
       DEF ReapRequeue, Transition, TickerCovers, TickerOK, TickerLocal
  <2>3. CASE Transition(l.task, "leased", "ready", l.version) /\ id # l.task
    BY <1>0, <1>1, <1>2, <1>12, <2>1, <2>3
       DEF ReapRequeue, Transition, Enter, StoreOK, QueueCovers, queueVars
  <2>4. QED
    BY <1>3, <1>12, <2>1, <2>2, <2>3 DEF ReapRequeue
<1>13. QED
  BY <1>4, <1>4a, <1>5, <1>6, <1>7, <1>8, <1>9, <1>10, <1>11, <1>12 DEF TickerRuns, Ticker

\* RunNext leaves every Ready task covered: what Assign pops it leases or drops
\* as not Ready, and what Retry makes Ready it goes on to schedule.
LEMMA ExecutorHandsOver ==
  ASSUME TypeInv, ReadyIsCovered, NEW e \in Executor, ExecutorRuns(e),
         NEW id \in Task, tasks'[id].state = "ready"
  PROVE  Covered(id)'
<1>0. StoreOK /\ ExecutorsOK /\ QueuesOK /\ ex[e] \in ExecutorLocal
  BY DEF TypeInv, ExecutorsOK
<1>1. tasks[id].state = "ready" => Covered(id)
  BY CoveredIsReadyIsCovered
<1>2. /\ TickerCovers(id) => TickerCovers(id)'
      /\ ClientCovers(id) => ClientCovers(id)'
  BY DEF ExecutorRuns, TickerCovers, ClientCovers
<1> DEFINE Has(f) == ex[f].pc \in {"popped", "repush", "schedule"} /\ ex[f].task = id
<1>3. \A f \in Executor \ {e} : ex'[f] = ex[f]
  BY <1>0 DEF ExecutorsOK, ExecutorRuns, ExecutorStep, BindLease, TakeReady, Pop, PopNothing,
     PickFails, Repush, Finish, CheckLease, ApplyResult, ApplyFinal, ApplyRetry, ScheduleRetry,
     ReleaseLease, ToIdle, ToRelease
<1>4. ASSUME ~Has(e) PROVE ExecutorCovers(id) => ExecutorCovers(id)'
  BY <1>3, <1>4 DEF ExecutorCovers
<1> USE DEF Covered
<1>5. ASSUME UNCHANGED tasks, UNCHANGED queueVars, ~Has(e) PROVE Covered(id)'
  BY <1>1, <1>2, <1>4, <1>5 DEF QueueCovers, queueVars
<1>6. CASE Pop(e)
  <2>1. PICK t \in ready : /\ ready' = ready \ {t}
                           /\ ex'[e].pc = "popped"
                           /\ ex'[e].task = t
    BY <1>0, <1>6 DEF Pop, PopReady, ExecutorsOK, ExecutorLocal
  <2>2. ~Has(e) /\ UNCHANGED <<tasks, delayed>>
    BY <1>6 DEF Pop
  <2>3. QueueCovers(id) => QueueCovers(id)' \/ id = t
    BY <2>1, <2>2 DEF QueueCovers
  <2>4. id = t => ExecutorCovers(id)'
    BY <2>1 DEF ExecutorCovers
  <2>5. QED
    BY <1>1, <1>2, <1>4, <2>2, <2>3, <2>4
<1>7. CASE PopNothing(e) \/ BindLease(e) \/ Finish(e) \/ CheckLease(e) \/ ReleaseLease(e)
  BY <1>5, <1>7 DEF PopNothing, BindLease, Finish, CheckLease, ReleaseLease
<1>8. CASE TakeReady(e)
  <2>1. ex[e].pc = "popped" /\ ex[e].task \in Task /\ UNCHANGED queueVars
    BY <1>0, <1>8 DEF TakeReady, ExecutorsOK
  <2>2. id # ex[e].task /\ tasks[id].state = "ready"
    BY <1>0, <1>8, <2>1 DEF TakeReady, Transition, CanTransition, Enter, StoreOK, AnyVersion,
       Absent
  <2>3. QED
    BY <1>1, <1>2, <1>4, <2>1, <2>2 DEF QueueCovers, queueVars
<1>9. CASE PickFails(e)
  <2>1. /\ ex[e].pc = "picking" /\ ex[e].task \in Task /\ UNCHANGED queueVars
        /\ ex' = [ex EXCEPT ![e].pc = "repush"]
    BY <1>0, <1>9 DEF PickFails, ExecutorsOK
  <2>2. ex'[e].pc = "repush" /\ ex'[e].task = ex[e].task
    BY <1>0, <2>1 DEF ExecutorsOK, ExecutorLocal
  <2>3. id = ex[e].task => ExecutorCovers(id)'
    BY <2>2 DEF ExecutorCovers
  <2>4. id # ex[e].task => tasks[id].state = "ready"
    BY <1>0, <1>9, <2>1 DEF PickFails, Transition, Enter, StoreOK
  <2>5. QED
    BY <1>1, <1>2, <1>4, <2>1, <2>3, <2>4 DEF QueueCovers, queueVars
<1>10. CASE Repush(e)
  <2>1. PushReady(ex[e].task) /\ UNCHANGED <<tasks, delayed>>
    BY <1>10 DEF Repush
  <2>2. QED
    BY <1>1, <1>2, <1>4, <2>1, PushReadyCovers
<1>11. CASE ApplyResult(e)
  <2>1. /\ ex[e].pc = "apply" /\ ex[e].task \in Task /\ UNCHANGED queueVars
    BY <1>0, <1>11 DEF ApplyResult, ExecutorsOK
  <2>2. ASSUME UNCHANGED tasks PROVE Covered(id)'
    BY <1>5, <2>1, <2>2
  <2>3. ASSUME NEW to \in {"succeeded", "dead"}, Enter(ex[e].task, to) PROVE Covered(id)'
    <3>1. tasks[id].state = "ready"
      BY <1>0, <2>1, <2>3 DEF Enter, StoreOK
    <3>2. QED
      BY <1>1, <1>2, <1>4, <2>1, <3>1 DEF QueueCovers, queueVars
  <2>4. ASSUME Retry(ex[e].task, ex[e].now + RetryDelay, ex[e].seen),
               ex' = [ex EXCEPT ![e].pc = "schedule"]
        PROVE Covered(id)'
    <3>1. ex'[e].pc = "schedule" /\ ex'[e].task = ex[e].task
      BY <1>0, <2>4 DEF ExecutorsOK, ExecutorLocal
    <3>2. id = ex[e].task => ExecutorCovers(id)'
      BY <3>1 DEF ExecutorCovers
    <3>3. id # ex[e].task => tasks[id].state = "ready"
      BY <1>0, <2>1, <2>4 DEF Retry, StoreOK
    <3>4. QED
      BY <1>1, <1>2, <1>4, <2>1, <3>2, <3>3 DEF QueueCovers, queueVars
  <2>5. QED
    BY <1>11, <2>2, <2>3, <2>4 DEF ApplyResult, ApplyFinal, ApplyRetry, Transition
<1>12. CASE ScheduleRetry(e)
  <2>1. /\ PushDelayed(ex[e].task, ex[e].now + RetryDelay) /\ UNCHANGED <<tasks, ready>>
        /\ ex[e].task \in Task /\ ex[e].now + RetryDelay \in Time
    BY <1>0, <1>12, ModelAssumption DEF ScheduleRetry, ExecutorsOK, ExecutorLocal, Time
  <2>2. QED
    BY <1>0, <1>1, <1>2, <1>4, <2>1, PushDelayedCovers
<1>13. QED
  BY <1>6, <1>7, <1>8, <1>9, <1>10, <1>11, <1>12 DEF ExecutorRuns, ExecutorStep

\* The request handlers leave every Ready task covered: Cancel clears the
\* queues of a cancelled task only, and TriggerNow pushes what it marked.
LEMMA ClientHandsOver ==
  ASSUME TypeInv, CancelOK, GoneStays, ReadyIsCovered,
         NEW c \in Client, RequestArrives(c) \/ HandlerRuns(c),
         NEW id \in Task, tasks'[id].state = "ready"
  PROVE  Covered(id)'
<1>0. StoreOK /\ ClientsOK /\ QueuesOK /\ CancelOK
  BY DEF TypeInv
<1>1. tasks[id].state = "ready" => Covered(id)
  BY CoveredIsReadyIsCovered
<1>2. /\ TickerCovers(id) => TickerCovers(id)'
      /\ ExecutorCovers(id) => ExecutorCovers(id)'
  BY DEF RequestArrives, HandlerRuns, TickerCovers, ExecutorCovers
<1> DEFINE Has(d) == cl[d].pc = "push" /\ cl[d].task = id
<1>3. \A d \in Client \ {c} : cl'[d] = cl[d]
  BY <1>0 DEF ClientsOK, RequestArrives, Request, RegisterSave, TriggerGet, CancelGet,
     CronGet, WorkerCalls, HandlerRuns, Handle, RegisterTrack, TriggerMark, TriggerPush,
     CancelTransition, CancelUnready, CancelUndelay, CancelUntrack, CronSave, CronRefresh,
     EnrollWorker, HeartbeatMark, HeartbeatList, HeartbeatRenew, Done, Goto
<1>4. ASSUME ~Has(c) PROVE ClientCovers(id) => ClientCovers(id)'
  BY <1>3, <1>4 DEF ClientCovers
<1> USE DEF Covered
<1>5. ASSUME tasks[id].state = "ready", UNCHANGED queueVars, ~Has(c) PROVE Covered(id)'
  BY <1>1, <1>2, <1>4, <1>5 DEF QueueCovers, queueVars
<1>6. CASE RequestArrives(c)
  <2>1. ASSUME NEW t \in Task, RegisterSave(c, t) PROVE Covered(id)'
    <3>1. tasks[id].state = "ready"
      BY <1>0, <2>1 DEF RegisterSave, Insert, StoreOK
    <3>2. QED
      BY <1>5, <2>1, <3>1 DEF RegisterSave
  <2>2. QED
    BY <1>5, <1>6, <2>1 DEF RequestArrives, Request, TriggerGet, CancelGet, CronGet,
       WorkerCalls, Begin
<1>7. CASE HandlerRuns(c)
  <2>1. CASE \/ RegisterTrack(c) \/ CancelUntrack(c) \/ CronRefresh(c)
             \/ EnrollWorker(c) \/ HeartbeatMark(c) \/ HeartbeatList(c) \/ HeartbeatRenew(c)
    BY <1>5, <2>1 DEF RegisterTrack, CancelUntrack, CronRefresh, EnrollWorker, HeartbeatMark,
       HeartbeatList, HeartbeatRenew
  <2>2. CASE TriggerMark(c)
    <3>1. cl[c].pc = "mark" /\ cl[c].task \in Task /\ UNCHANGED queueVars
          /\ cl' = [cl EXCEPT ![c].pc = "push"]
      BY <1>0, <2>2 DEF TriggerMark, Goto, WorkerPc, ClientsOK
    <3>2. cl'[c].pc = "push" /\ cl'[c].task = cl[c].task
      BY <1>0, <3>1 DEF ClientsOK, ClientLocal
    <3>3. id = cl[c].task => ClientCovers(id)'
      BY <3>2 DEF ClientCovers
    <3>4. id # cl[c].task => tasks[id].state = "ready"
      BY <1>0, <2>2, <3>1 DEF TriggerMark, MarkReady, Enter, StoreOK
    <3>5. QED
      BY <1>5, <3>1, <3>3, <3>4
  <2>3. CASE TriggerPush(c)
    <3>1. PushReady(cl[c].task) /\ UNCHANGED <<tasks, delayed>>
      BY <2>3 DEF TriggerPush
    <3>2. QED
      BY <1>1, <1>2, <1>4, <3>1, PushReadyCovers
  <2>4. CASE CancelTransition(c)
    <3>1. tasks[id].state = "ready"
      BY <1>0, <2>4 DEF CancelTransition, Transition, Enter, StoreOK, WorkerPc, ClientsOK
    <3>2. QED
      BY <1>5, <2>4, <3>1 DEF CancelTransition
  <2>5. CASE CancelUnready(c) \/ CancelUndelay(c)
    <3>1. /\ UNCHANGED tasks /\ ~Has(c)
          /\ \/ RemoveReady(cl[c].task) /\ UNCHANGED delayed
             \/ RemoveDelayed(cl[c].task) /\ UNCHANGED ready
      BY <2>5 DEF CancelUnready, CancelUndelay
    <3>2. tasks[cl[c].task].state \in {"canceled", "gone"}
      BY <1>0, <2>5 DEF CancelUnready, CancelUndelay, CancelOK
    <3>3. QueueCovers(id) => QueueCovers(id)'
      BY <3>1, <3>2 DEF RemoveReady, RemoveDelayed, QueueCovers
    <3>4. QED
      BY <1>1, <1>2, <1>4, <3>1, <3>3
  <2>6. CASE CronSave(c)
    <3>1. tasks[id].state = "ready"
      BY <1>0, <2>6 DEF CronSave, Overwrite, InsertCopy, StoreOK, GoneStays, WorkerPc, ClientsOK
    <3>2. QED
      BY <1>5, <2>6, <3>1 DEF CronSave
  <2>7. QED
    BY <1>7, <2>1, <2>2, <2>3, <2>4, <2>5, <2>6 DEF HandlerRuns, Handle
<1>8. QED
  BY <1>6, <1>7

\* A step that brings no removed task back leaves every Ready task covered.
LEMMA ReadyStep ==
  ASSUME TypeInv, CancelOK, GoneStays, ReadyIsCovered, [Next]_vars
  PROVE  ReadyIsCovered'
<1>1. ASSUME NEW id \in Task, tasks'[id].state = "ready" PROVE Covered(id)'
  <2>1. CASE TimePasses \/ WorkerBeats \/ UNCHANGED vars
    BY <1>1, <2>1, CoveredIsReadyIsCovered DEF TimePasses, WorkerBeats, vars, queueVars, Covered,
       QueueCovers, TickerCovers, ExecutorCovers, ClientCovers
  <2>2. QED
    BY <1>1, <2>1, TickerHandsOver, ExecutorHandsOver, ClientHandsOver DEF Next
<1>2. QED
  BY <1>1 DEF ReadyIsCovered, Covered, PushPending, QueueCovers, TickerCovers,
     ExecutorCovers, ClientCovers

\* A Ready task always has an entry in one of the queues or a goroutine that
\* is about to push or take it: no interleaving of the store's, the queues'
\* and the handlers' critical sections forgets one.
THEOREM ReadyTasksAreCovered == Spec => []ReadyIsCovered
<1>1. Init => ReadyIsCovered
  BY DEF Init, InitStore, ReadyIsCovered
<1>2. FenceInv /\ ReadyIsCovered /\ [Next]_vars => ReadyIsCovered'
  BY FenceHolds, ReadyStep DEF HoldInv
<1>3. QED
  BY <1>1, <1>2, FenceIsInvariant, PTL DEF Spec

(***************************************************************************)
(* The fire index: the inductive invariant.                                *)
(***************************************************************************)
\* Only tasks that were registered are in the fire index.
TrackOK == \A id \in Task : nextFire[id] # Untracked => tasks[id].state # "none"

\* Tick works on registered tasks, finds each in the store, and reschedules none
\* that is still Pending.
TickOK ==
  /\ tk.pc # "drop"
  /\ tk.pc \in {"due", "mark", "push", "next", "fire"} =>
       \A id \in tk.todo : tasks[id].state # "none"
  /\ tk.pc \in {"push", "next", "fire"} => tasks[tk.cur].state \notin {"none", "pending"}

\* A handler writes the fire index for registered tasks only.
HandOK ==
  \A c \in Client : cl[c].pc \in {"track", "refresh"} => tasks[cl[c].task].state # "none"

FireInv == TrackOK /\ TickOK /\ HandOK

(***************************************************************************)
(* What one step does to the run time of a Pending task and to the index.  *)
(***************************************************************************)
\* A task that is Pending was registered as such and has not been anything else.
PendingIsFirst ==
  \A id \in Task :
    /\ tasks'[id].state = "none" => tasks[id].state = "none"
    /\ tasks'[id].state = "pending" => tasks[id].state \in {"none", "pending"}

\* Registration is the only way into Pending, and nothing leads back to it.
LEMMA PendingStep ==
  ASSUME FenceInv, BudgetInv, [Next]_vars
  PROVE  PendingIsFirst
<1>1. CASE UNCHANGED lifeOf
  <2>1. \A id \in Task : lifeOf'[id] = lifeOf[id]
    BY <1>1
  <2>2. \A id \in Task : tasks'[id].state = tasks[id].state
    BY <2>1 DEF lifeOf
  <2>3. QED
    BY <2>2 DEF PendingIsFirst
<1>2. ASSUME NEW id \in Task, OthersLive(id), tasks'[id].state # "none",
             tasks'[id].state = "pending" => tasks[id].state \in {"none", "pending"}
      PROVE  PendingIsFirst
  BY <1>2 DEF OthersLive, PendingIsFirst
<1>3. ASSUME NEW id \in Task, NEW from, NEW to, Lifecycle!Moves(id, from, to),
             to # "none", to = "pending" => from = "none"
      PROVE  PendingIsFirst
  <2>1. tasks[id].state = from /\ tasks'[id].state = to /\ OthersLive(id)
    BY <1>3, MovesFacts
  <2>2. QED
    BY <1>2, <1>3, <2>1
<1>4. ASSUME NEW id \in Task, Lives(id) PROVE PendingIsFirst
  <2>1. CASE Lifecycle!Retry(id)
    BY <1>2, <2>1, SpendsFacts DEF Spends
  <2>2. CASE Lifecycle!Amend(id) /\ ~NoUpdates
    BY <1>2, <2>2, AmendedFacts DEF Amended
  <2>3. QED
    BY <1>3, <1>4, <2>1, <2>2 DEF Lives, Lifecycle!Register, Lifecycle!Start, Lifecycle!Take,
       Lifecycle!GiveBack, Lifecycle!Succeed, Lifecycle!Die, Lifecycle!Cancel
<1>5. QED
  BY <1>1, <1>4, LifecycleStep DEF LifeGoesOn

\* Client c has just registered the task and will track it.
Registers(c, id) ==
  /\ RequestArrives(c) /\ tasks[id].state = "none"
  /\ cl'[c].pc = "track" /\ cl'[c].task = id /\ cl'[c].at = tasks'[id].nextRunAt

\* Client c has just saved the task and will refresh the index.
Saves(c, id) ==
  /\ HandlerRuns(c) /\ CronSave(c)
  /\ cl'[c].pc = "refresh" /\ cl'[c].task = id /\ cl'[c].at = tasks'[id].nextRunAt

\* Where the run time of a task that is Pending comes from.
RunTimeFrom(id) ==
  \/ tasks[id].state = "pending" /\ tasks'[id].nextRunAt = tasks[id].nextRunAt
  \/ \E c \in Client : Registers(c, id)
  \/ \E c \in Client : Saves(c, id)
  \/ TickerRuns /\ tk.pc = "next" /\ tk.cur = id

RunTimesFrom == \A id \in Task : tasks'[id].state = "pending" => RunTimeFrom(id)

\* A step that leaves the store alone leaves its run times alone.
LEMMA UnchangedRunTimes ==
  ASSUME UNCHANGED tasks
  PROVE  RunTimesFrom
BY DEF RunTimesFrom, RunTimeFrom

\* A state change to another state moves the run time of no Pending task.
LEMMA EnterRunTimes ==
  ASSUME StoreOK, NEW id \in Task, NEW to, to # "pending", Enter(id, to)
  PROVE  RunTimesFrom
BY EnterFacts DEF Others, RunTimesFrom, RunTimeFrom

\* The run time of a Pending task is set by its registration, by UpdateCron and by
\* Tick, and by nothing else.
LEMMA RunTimeStep ==
  ASSUME TypeInv, NoneGone, [Next]_vars
  PROVE  RunTimesFrom
<1> USE UnchangedRunTimes
<1>0. StoreOK /\ ExecutorsOK /\ ClientsOK /\ TickerOK /\ \A l \in tk.expired : l.task \in Task
  BY DEF TypeInv, TickerOK, TickerLocal, Lease
<1>1. CASE TickerRuns
  <2>1. ASSUME TickMark PROVE RunTimesFrom
    BY <1>0, <2>1, EnterRunTimes DEF TickMark, TickerOK, MarkReady
  <2>2. ASSUME TickSetNextRun PROVE RunTimesFrom
    <3>1. tk.cur \in Task /\ tk.pc = "next"
      BY <1>0, <2>2 DEF TickSetNextRun, TickerOK
    <3>2. ASSUME NEW next, SetNextRun(tk.cur, next) PROVE RunTimesFrom
      BY <1>0, <1>1, <3>1, <3>2, SetNextRunFacts DEF Others, RunTimesFrom, RunTimeFrom
    <3>3. QED
      BY <2>2, <3>2 DEF TickSetNextRun
  <2>3. ASSUME NEW l \in tk.expired, ReapRequeue(l) PROVE RunTimesFrom
    BY <1>0, <2>3, EnterRunTimes DEF ReapRequeue, Transition
  <2>4. QED
    BY <1>1, <2>1, <2>2, <2>3 DEF TickerRuns, Ticker, TickScan, TickGet, TickDrop, TickPush,
       TickSetFire, TickPopDue, TickEntry, TickPushEntry, ReapCollect, ReapPush
<1>2. ASSUME NEW e \in Executor, ExecutorRuns(e) PROVE RunTimesFrom
  <2>1. ASSUME TakeReady(e) \/ PickFails(e) PROVE RunTimesFrom
    BY <1>0, <2>1, TakeFacts, PickFailsFacts, EnterRunTimes
  <2>2. ASSUME ApplyResult(e) PROVE RunTimesFrom
    <3>1. ASSUME NEW t \in Task, NEW next, NEW v, Retry(t, next, v) PROVE RunTimesFrom
      BY <1>0, <3>1, RetryFacts DEF Others, RunTimesFrom, RunTimeFrom
    <3>2. QED
      BY <1>0, <2>2, <3>1, ApplyFacts, EnterRunTimes
  <2>3. QED
    BY <1>2, <2>1, <2>2 DEF ExecutorRuns, ExecutorStep, Pop, PopNothing, BindLease,
       Repush, Finish, CheckLease, ScheduleRetry, ReleaseLease
<1>3. ASSUME NEW c \in Client, RequestArrives(c) PROVE RunTimesFrom
  <2>1. ASSUME NEW t \in Task, NEW at, Insert(t, at),
               cl'[c].pc = "track", cl'[c].task = t, cl'[c].at = at
        PROVE  RunTimesFrom
    <3>1. tasks[t].state = "none" /\ tasks'[t].nextRunAt = at /\ Others(t)
      BY <1>0, <2>1, InsertFacts
    <3>2. Registers(c, t)
      BY <1>3, <2>1, <3>1 DEF Registers
    <3>3. QED
      BY <3>1, <3>2 DEF Others, RunTimesFrom, RunTimeFrom
  <2>2. QED
    BY <1>0, <1>3, <2>1, RequestFacts DEF RequestArrives
<1>4. ASSUME NEW c \in Client, HandlerRuns(c) PROVE RunTimesFrom
  <2>1. cl[c].pc \notin WorkerPc => cl[c].task \in Task
    BY <1>0 DEF ClientsOK
  <2>2. ASSUME TriggerMark(c) PROVE RunTimesFrom
    BY <1>0, <2>1, <2>2, EnterRunTimes DEF TriggerMark, WorkerPc, MarkReady
  <2>3. ASSUME CancelTransition(c) PROVE RunTimesFrom
    BY <1>0, <2>1, <2>3, EnterRunTimes DEF CancelTransition, WorkerPc, Transition
  <2>4. ASSUME CronSave(c) PROVE RunTimesFrom
    <3>0. PICK t \in Task : t = cl[c].task
      BY <2>1, <2>4 DEF CronSave, WorkerPc
    <3>1. CASE Overwrite(t, cl[c].retries, cl[c].at) /\ Goto(c, "refresh")
      <4>1. tasks'[t].nextRunAt = cl[c].at /\ Others(t)
        BY <1>0, <3>1, OverwriteFacts
      <4>2. cl'[c].pc = "refresh" /\ cl'[c].task = t /\ cl'[c].at = cl[c].at
        BY <1>0, <3>0, <3>1 DEF Goto, ClientsOK, ClientLocal
      <4>3. Saves(c, t)
        BY <1>4, <2>4, <4>1, <4>2 DEF Saves
      <4>4. QED
        BY <4>1, <4>3 DEF Others, RunTimesFrom, RunTimeFrom
    <3>2. ~InsertCopy(t, cl[c].state, cl[c].retries, cl[c].at)
      BY DEF InsertCopy, NoneGone
    <3>3. QED
      BY <2>4, <3>0, <3>1, <3>2 DEF CronSave
  <2>5. QED
    BY <1>4, <2>2, <2>3, <2>4 DEF HandlerRuns, Handle, RegisterTrack, TriggerPush,
       CancelUnready, CancelUndelay, CancelUntrack, CronRefresh, EnrollWorker, HeartbeatMark,
       HeartbeatList, HeartbeatRenew
<1>5. QED
  BY <1>1, <1>2, <1>3, <1>4 DEF Next, vars, TimePasses, WorkerBeats

\* Client c writes the fire index for its task: the time it carries, or none.
Writes(c, id) ==
  /\ HandlerRuns(c) /\ cl[c].task = id
  /\ \/ cl[c].pc \in {"track", "refresh"} /\ nextFire'[id] = cl[c].at
     \/ cl[c].pc = "untrack" /\ nextFire'[id] = Untracked

\* Where the entry of a task in the fire index comes from.
FireTimeFrom(id) ==
  \/ nextFire'[id] = nextFire[id]
  \/ \E c \in Client : Writes(c, id)
  \/ TickerRuns /\ tk.pc \in {"drop", "fire"} /\ tk.cur = id

\* The fire index is written by Track, RefreshCron, Cancel and Tick, each for the
\* task in hand.
LEMMA FireTimeStep ==
  ASSUME TypeInv, [Next]_vars, NEW id \in Task
  PROVE  FireTimeFrom(id)
<1>0. FireIndexOK /\ ClientsOK
  BY DEF TypeInv
<1>1. ASSUME UNCHANGED nextFire PROVE FireTimeFrom(id)
  BY <1>1 DEF FireTimeFrom
<1>2. ASSUME NEW other, NEW at, SetNextFire(other, at), other # id PROVE FireTimeFrom(id)
  BY <1>0, <1>2 DEF SetNextFire, FireIndexOK, FireTimeFrom
<1>3. CASE TickerRuns
  <2>1. CASE TickDrop \/ TickSetFire
    BY <1>2, <1>3, <2>1 DEF TickDrop, TickSetFire, FireTimeFrom
  <2>2. QED
    BY <1>1, <1>3, <2>1 DEF TickerRuns, Ticker, TickScan, TickGet, TickMark, TickPush,
       TickSetNextRun, TickPopDue, TickEntry, TickPushEntry, ReapCollect, ReapRequeue, ReapPush
<1>4. ASSUME NEW c \in Client, HandlerRuns(c) PROVE FireTimeFrom(id)
  <2>1. ASSUME NEW at, SetNextFire(id, at) PROVE nextFire'[id] = at
    BY <1>0, <2>1 DEF SetNextFire, FireIndexOK
  <2>2. CASE RegisterTrack(c) \/ CronRefresh(c)
    <3>1. cl[c].pc \in {"track", "refresh"} /\ SetNextFire(cl[c].task, cl[c].at)
      BY <2>2 DEF RegisterTrack, CronRefresh
    <3>2. QED
      BY <1>2, <1>4, <2>1, <3>1 DEF FireTimeFrom, Writes
  <2>3. CASE CancelUntrack(c)
    <3>1. cl[c].pc = "untrack" /\ SetNextFire(cl[c].task, Untracked)
      BY <2>3 DEF CancelUntrack
    <3>2. QED
      BY <1>2, <1>4, <2>1, <3>1 DEF FireTimeFrom, Writes
  <2>4. QED
    BY <1>1, <1>4, <2>2, <2>3 DEF HandlerRuns, Handle, TriggerMark, TriggerPush,
       CancelTransition, CancelUnready, CancelUndelay, CronSave, EnrollWorker, HeartbeatMark,
       HeartbeatList, HeartbeatRenew
<1>5. ASSUME NEW c \in Client, RequestArrives(c) PROVE FireTimeFrom(id)
  BY <1>0, <1>1, <1>5, RequestFacts DEF RequestArrives
<1>6. QED
  BY <1>1, <1>3, <1>4, <1>5 DEF Next, vars, TimePasses, WorkerBeats, ExecutorRuns

\* A handler that is to write the index keeps what it is to write, and ends by it.
LEMMA WriterStep ==
  ASSUME TypeInv, [Next]_vars, NEW c \in Client, cl[c].pc \in {"track", "refresh"}
  PROVE  \/ cl'[c] = cl[c]
         \/ Writes(c, cl[c].task) /\ cl'[c].pc = "idle"
<1>0. FireIndexOK /\ ClientsOK
  BY DEF TypeInv
<1>1. CASE HandlerRuns(c)
  <2>1. RegisterTrack(c) \/ CronRefresh(c)
    BY <1>1 DEF HandlerRuns, Handle, RegisterTrack, CronRefresh, TriggerMark, TriggerPush,
       CancelTransition, CancelUnready, CancelUndelay, CancelUntrack, CronSave, EnrollWorker,
       HeartbeatMark, HeartbeatList, HeartbeatRenew
  <2>2. SetNextFire(cl[c].task, cl[c].at) /\ Done(c) /\ cl[c].task \in Task
    BY <1>0, <2>1 DEF RegisterTrack, CronRefresh, ClientsOK, WorkerPc
  <2>3. cl'[c].pc = "idle"
    BY <1>0, <2>2 DEF Done, IdleClient, ClientsOK
  <2>4. nextFire'[cl[c].task] = cl[c].at
    BY <1>0, <2>2 DEF SetNextFire, FireIndexOK
  <2>5. QED
    BY <1>1, <2>3, <2>4 DEF Writes
<1>2. ~RequestArrives(c)
  BY <1>0, RequestFacts DEF RequestArrives
<1>3. ASSUME NEW d \in Client \ {c}, RequestArrives(d) \/ HandlerRuns(d) PROVE cl'[c] = cl[c]
  BY <1>0, <1>3, ClientAlone DEF RequestArrives, HandlerRuns
<1>4. CASE UNCHANGED cl
  BY <1>4
<1>5. QED
  BY <1>1, <1>2, <1>3, <1>4 DEF Next, vars, TimePasses, WorkerBeats, TickerRuns, ExecutorRuns

(***************************************************************************)
(* The fire index: the steps.                                              *)
(***************************************************************************)
\* Whatever is written to the index is written for a registered task.
LEMMA TrackStep ==
  ASSUME TypeInv, PendingIsFirst, TrackOK, TickOK, HandOK, [Next]_vars
  PROVE  TrackOK'
<1>1. ASSUME NEW id \in Task, nextFire'[id] # Untracked PROVE tasks[id].state # "none"
  BY <1>1, FireTimeStep DEF FireTimeFrom, Writes, TrackOK, TickOK, HandOK
<1>2. QED
  BY <1>1 DEF TrackOK, PendingIsFirst

\* Tick drops no task, and what it reschedules it has made Ready before.
LEMMA TickStep ==
  ASSUME TypeInv, NoneGone, PendingIsFirst, TrackOK, TickOK, [Next]_vars
  PROVE  TickOK'
<1>0. TickerOK /\ StoreOK /\ tk.todo \subseteq Task
  BY DEF TypeInv, TickerOK, TickerLocal
<1>1. ASSUME tk'.pc # "drop",
             tk'.pc \in {"due", "mark", "push", "next", "fire"} =>
               /\ tk'.todo \subseteq Task
               /\ \A id \in tk'.todo : tasks[id].state # "none",
             tk'.pc \in {"push", "next", "fire"} =>
               /\ tk'.cur \in Task
               /\ \/ tasks[tk'.cur].state \notin {"none", "pending"}
                  \/ tasks'[tk'.cur].state \notin {"none", "pending"}
      PROVE  TickOK'
  BY <1>1 DEF TickOK, PendingIsFirst
<1>2. CASE UNCHANGED tk
  BY <1>0, <1>1, <1>2 DEF TickOK, TickerOK
<1>3. CASE TickerRuns
  <2> USE DEF TickerOK, TickerLocal
  <2>1. CASE TickScan
    <3>1. tk'.pc = "due" /\ tk'.todo = DueTasks(clock)
      BY <1>0, <2>1 DEF TickScan
    <3>2. QED
      BY <1>1, <3>1 DEF DueTasks, TrackOK
  <2>2. ASSUME NEW id \in tk.todo, TickGet(id) PROVE TickOK'
    <3>1. tk.pc = "due" /\ tasks[id].state \notin Absent
      BY <1>0, <2>2 DEF TickGet, TickOK, NoneGone, Absent
    <3>2. tk'.pc \in {"due", "mark"} /\ tk'.todo \subseteq tk.todo
      BY <1>0, <2>2, <3>1 DEF TickGet
    <3>3. QED
      BY <1>0, <1>1, <3>1, <3>2 DEF TickOK
  <2>3. CASE TickMark
    <3>1. CASE MarkReady(tk.cur) /\ tk' = [tk EXCEPT !.pc = "push"]
      <4>1. tk.cur \in Task /\ tk.pc = "mark"
        BY <1>0, <2>3 DEF TickMark
      <4>2. tasks'[tk.cur].state = "ready"
        BY <1>0, <3>1, <4>1, EnterFacts DEF MarkReady
      <4>3. tk'.pc = "push" /\ tk'.todo = tk.todo /\ tk'.cur = tk.cur
        BY <1>0, <3>1
      <4>4. QED
        BY <1>0, <1>1, <4>1, <4>2, <4>3 DEF TickOK
    <3>2. CASE tk' = [tk EXCEPT !.pc = "due", !.cur = NoTask]
      BY <1>0, <1>1, <2>3, <3>2 DEF TickMark, TickOK
    <3>3. QED
      BY <2>3, <3>1, <3>2 DEF TickMark
  <2>4. CASE TickPush
    BY <1>0, <1>1, <2>4 DEF TickPush, TickOK
  <2>5. CASE TickSetNextRun
    BY <1>0, <1>1, <2>5 DEF TickSetNextRun, TickOK
  <2>6. CASE TickSetFire
    BY <1>0, <1>1, <2>6 DEF TickSetFire, TickOK
  <2>7. CASE TickPopDue \/ TickPushEntry \/ ReapCollect
    BY <1>0, <1>1, <2>7 DEF TickPopDue, TickPushEntry, ReapCollect
  <2>8. ASSUME NEW id \in tk.todo, TickEntry(id) PROVE TickOK'
    BY <1>0, <1>1, <2>8 DEF TickEntry
  <2>9. ASSUME NEW l, ReapRequeue(l) \/ ReapPush PROVE TickOK'
    BY <1>0, <1>1, <2>9 DEF ReapRequeue, ReapPush
  <2>10. ~TickDrop
    BY DEF TickDrop, TickOK
  <2>11. QED
    BY <1>3, <2>1, <2>2, <2>3, <2>4, <2>5, <2>6, <2>7, <2>8, <2>9, <2>10 DEF TickerRuns, Ticker
<1>4. QED
  BY <1>2, <1>3 DEF Next, vars, TimePasses, WorkerBeats, ExecutorRuns, RequestArrives, HandlerRuns

\* Who is about to write the index has saved its task before.
LEMMA HandStep ==
  ASSUME TypeInv, NoneGone, PendingIsFirst, HandOK, [Next]_vars
  PROVE  HandOK'
<1>0. ClientsOK /\ StoreOK
  BY DEF TypeInv
<1>1. ASSUME NEW c \in Client, cl'[c].pc \in {"track", "refresh"}, cl'[c] = cl[c]
      PROVE  tasks'[cl[c].task].state # "none"
  BY <1>0, <1>1 DEF HandOK, PendingIsFirst, ClientsOK, WorkerPc
<1>2. ASSUME NEW c \in Client, cl'[c].pc \in {"track", "refresh"}, cl'[c] # cl[c]
      PROVE  tasks'[cl'[c].task].state # "none"
  <2>1. RequestArrives(c) \/ HandlerRuns(c)
    <3>1. ASSUME NEW d \in Client \ {c}, RequestArrives(d) \/ HandlerRuns(d) PROVE cl'[c] = cl[c]
      BY <1>0, <3>1, ClientAlone DEF RequestArrives, HandlerRuns
    <3>2. QED
      BY <1>2, <3>1 DEF Next, vars, TimePasses, WorkerBeats, TickerRuns, ExecutorRuns
  <2>2. CASE RequestArrives(c)
    BY <1>0, <1>2, <2>2, RequestFacts, InsertFacts DEF RequestArrives
  <2>3. CASE HandlerRuns(c)
    <3>1. cl[c].pc = "save" /\ cl'[c].pc = "refresh" /\ cl'[c].task = cl[c].task
      BY <1>0, <1>2, <2>3, HandleFacts DEF HandlerRuns
    <3> PICK t \in Task : t = cl[c].task
      BY <1>0, <3>1 DEF ClientsOK, WorkerPc
    <3>2. Overwrite(t, cl[c].retries, cl[c].at)
      <4>1. CronSave(c)
        BY <2>3, <3>1 DEF HandlerRuns, Handle, RegisterTrack, CronRefresh, TriggerMark,
           TriggerPush, CancelTransition, CancelUnready, CancelUndelay, CancelUntrack,
           EnrollWorker, HeartbeatMark, HeartbeatList, HeartbeatRenew
      <4>2. ~Done(c)
        BY <1>0, <3>1 DEF Done, IdleClient, ClientsOK
      <4>3. ~InsertCopy(t, cl[c].state, cl[c].retries, cl[c].at)
        BY DEF InsertCopy, NoneGone
      <4>4. QED
        BY <4>1, <4>2, <4>3 DEF CronSave
    <3>3. QED
      BY <1>0, <3>1, <3>2, OverwriteFacts DEF Absent
  <2>4. QED
    BY <2>1, <2>2, <2>3
<1>3. QED
  BY <1>1, <1>2 DEF HandOK

\* Only requests disturb what the fire index has for a Pending task: Tick has made
\* Ready what it reschedules, and drops no task of the store.
LEMMA PendingFire ==
  ASSUME TypeInv, CancelOK, TickOK, [Next]_vars, NEW id \in Task, tasks[id].state = "pending"
  PROVE  \/ nextFire'[id] = nextFire[id]
         \/ \E c \in Client : Tracking(c, id) /\ nextFire'[id] = cl[c].at
<1>1. FireTimeFrom(id)
  BY FireTimeStep
<1>2. ASSUME NEW c \in Client, Writes(c, id)
      PROVE  Tracking(c, id) /\ nextFire'[id] = cl[c].at
  BY <1>2 DEF Writes, CancelOK, Tracking
<1>3. ~(tk.pc \in {"drop", "fire"} /\ tk.cur = id)
  BY DEF TickOK
<1>4. QED
  BY <1>1, <1>2, <1>3 DEF FireTimeFrom

\* A handler that has saved a task goes on to write the time it saved.
LEMMA SaverTracks ==
  ASSUME NEW c \in Client, NEW id \in Task, Registers(c, id) \/ Saves(c, id)
  PROVE  Tracking(c, id)' /\ cl'[c].at = tasks'[id].nextRunAt
BY DEF Registers, Saves, Tracking

\* A Pending task keeps its entry, or the handler that is to write one.
LEMMA TrackedStep ==
  ASSUME FenceInv, PendingIsFirst, RunTimesFrom, FireInv, PendingIsTracked, [Next]_vars
  PROVE  PendingIsTracked'
<1>0. TypeInv /\ ClientsOK /\ TickOK /\ CancelOK
  BY DEF FenceInv, TypeInv, FireInv
<1>1. ASSUME NEW id \in Task, tasks'[id].state = "pending",
             ~\E c \in Client : Tracking(c, id)'
      PROVE  nextFire'[id] # Untracked
  <2>1. RunTimeFrom(id) /\ tasks[id].state \in {"none", "pending"}
    BY <1>1 DEF RunTimesFrom, PendingIsFirst
  <2>2. tasks[id].state = "pending"
    BY <1>0, <1>1, <2>1, SaverTracks DEF RunTimeFrom, TickOK
  <2>3. ASSUME NEW c \in Client, Tracking(c, id) PROVE cl[c].at # Untracked
    BY <1>0, <2>3 DEF ClientsOK, ClientLocal, Time, Untracked
  <2>4. CASE nextFire[id] # Untracked
    BY <1>0, <2>2, <2>3, <2>4, PendingFire
  <2>5. ASSUME NEW c \in Client, Tracking(c, id) PROVE nextFire'[id] # Untracked
    <3>1. cl[c].pc \in {"track", "refresh"} /\ cl[c].task = id
      BY <2>5 DEF Tracking
    <3>2. cl'[c] # cl[c]
      BY <1>1, <3>1 DEF Tracking
    <3>3. Writes(c, id)
      BY <1>0, <3>1, <3>2, WriterStep
    <3>4. QED
      BY <2>3, <2>5, <3>1, <3>3 DEF Writes
  <2>6. QED
    BY <2>2, <2>4, <2>5 DEF PendingIsTracked
<1>2. QED
  BY <1>1 DEF PendingIsTracked

\* Store and fire index part only where a handler writes an older time than the
\* store has.
LEMMA DivergeStep ==
  ASSUME FenceInv, PendingIsFirst, RunTimesFrom, FireInv, [Next]_vars,
         NEW id \in Task, Diverged(id)', ~Diverged(id)
  PROVE  \E c \in Client :
           /\ Tracking(c, id) /\ cl[c].at # tasks[id].nextRunAt
           /\ nextFire'[id] = cl[c].at
<1>0. TypeInv /\ TickOK /\ CancelOK
  BY DEF FenceInv, FireInv
<1>1. /\ tasks'[id].state = "pending" /\ nextFire'[id] # tasks'[id].nextRunAt
      /\ \A c \in Client : Tracking(c, id)' => cl'[c].at # tasks'[id].nextRunAt
  BY DEF Diverged
<1>2. RunTimeFrom(id) /\ tasks[id].state \in {"none", "pending"}
  BY <1>1 DEF RunTimesFrom, PendingIsFirst
<1>3. tasks[id].state = "pending" /\ tasks'[id].nextRunAt = tasks[id].nextRunAt
  BY <1>0, <1>1, <1>2, SaverTracks DEF RunTimeFrom, TickOK
<1>4. ASSUME NEW c \in Client, Tracking(c, id), cl[c].at = tasks[id].nextRunAt PROVE FALSE
  <2>1. cl[c].pc \in {"track", "refresh"} /\ cl[c].task = id
    BY <1>4 DEF Tracking
  <2>2. cl'[c] # cl[c]
    BY <1>1, <1>3, <1>4, <2>1 DEF Tracking
  <2>3. Writes(c, id)
    BY <1>0, <2>1, <2>2, WriterStep
  <2>4. QED
    BY <1>1, <1>3, <1>4, <2>1, <2>3 DEF Writes
<1>5. nextFire[id] = tasks[id].nextRunAt
  BY <1>3, <1>4 DEF Diverged
<1>6. PICK c \in Client : Tracking(c, id) /\ nextFire'[id] = cl[c].at
  BY <1>0, <1>1, <1>3, <1>5, PendingFire
<1>7. QED
  BY <1>1, <1>3, <1>6

\* The part of the fire index no request can break, however many cross.
LEMMA FireInvStep ==
  ASSUME FenceInv, BudgetInv, FireInv, [Next]_vars
  PROVE  FireInv' /\ PendingIsFirst /\ RunTimesFrom
<1>1. TypeInv /\ NoneGone
  BY DEF FenceInv
<1>2. PendingIsFirst /\ RunTimesFrom
  BY <1>1, PendingStep, RunTimeStep
<1>3. QED
  BY <1>1, <1>2, TrackStep, TickStep, HandStep DEF FireInv

\* The fire index of an idle service is empty.
LEMMA FireInit == Init => FireInv /\ PendingIsTracked
BY DEF Init, InitStore, InitDispatch, InitApi, IdleTicker, IdleClient, FireInv, TrackOK,
   TickOK, HandOK, PendingIsTracked

\* A Pending task is in the fire index, or a handler is about to put it there:
\* registrations, updates and cancellations may cross in any order.
THEOREM PendingTasksAreTracked == Spec => []PendingIsTracked
<1>1. Init => FireInv /\ PendingIsTracked
  BY FireInit
<1>2. FenceInv /\ BudgetInv /\ FireInv /\ PendingIsTracked /\ [Next]_vars =>
        FireInv' /\ PendingIsTracked'
  BY FireInvStep, TrackedStep
<1>3. QED
  BY <1>1, <1>2, BudgetIsInvariant, PTL DEF Spec

\* The fire time of a Pending task departs from its run time in the store only where
\* a handler writes a time that another has saved over: crossed updates, and no
\* step of the ticker, an executor or Cancel.
THEOREM UpdatesCrossOrAgree == Spec => OnlyCrossedUpdatesDiverge
<1>1. Init => FireInv
  BY FireInit
<1>2. FenceInv /\ BudgetInv /\ FireInv /\ [Next]_vars => FireInv'
  BY FireInvStep
<1>3. FenceInv /\ BudgetInv /\ FireInv /\ [Next]_vars =>
        [\A id \in Task :
           Diverged(id)' /\ ~Diverged(id) =>
             \E c \in Client :
               /\ Tracking(c, id) /\ cl[c].at # tasks[id].nextRunAt
               /\ nextFire'[id] = cl[c].at]_vars
  BY FireInvStep, DivergeStep
<1>4. QED
  BY <1>1, <1>2, <1>3, BudgetIsInvariant, PTL DEF Spec, OnlyCrossedUpdatesDiverge

(***************************************************************************)
(* Backoff: a failed task waits out its retry delay.  The delayed queue    *)
(* keeps the earlier time of an entry it already has, so what has to be    *)
(* shown is that it has none left from before: a Ready task is in exactly  *)
(* one place on its way from Retry or MarkReady to Assign, for any number  *)
(* of executors.                                                           *)
(***************************************************************************)
\* Nobody makes a task run, or moves its run time, ahead of its own schedule.
Undisturbed == "trigger" \notin Ops /\ CronTask = {}

(***************************************************************************)
(* The places a task can be in between Ready and Leased.                   *)
(***************************************************************************)
InDelayed(id) == \E entry \in delayed : entry.task = id

InHand(id) == tk.pc \in {"push", "pushEntry", "pushReaped"} /\ tk.cur = id

InList(id) == tk.pc \in {"entries", "pushEntry"} /\ id \in tk.todo

With(e, id) == ex[e].pc \in {"popped", "repush", "schedule"} /\ ex[e].task = id

Nowhere(id) ==
  /\ id \notin ready
  /\ ~InDelayed(id)
  /\ ~InHand(id)
  /\ ~InList(id)
  /\ \A e \in Executor : ~With(e, id)

InOnePlace(id) ==
  /\ id \in ready => ~InDelayed(id) /\ ~InHand(id) /\ ~InList(id)
  /\ InDelayed(id) => ~InHand(id) /\ ~InList(id)
  /\ InHand(id) => ~InList(id)
  /\ \A e \in Executor :
       With(e, id) =>
         /\ id \notin ready /\ ~InDelayed(id) /\ ~InHand(id) /\ ~InList(id)
         /\ \A f \in Executor : With(f, id) => f = e

\* The entry of a Ready task, or the one ScheduleRetry will make, has the run
\* time Retry gave the task.
InTime(id) ==
  /\ \A entry \in delayed : entry.task = id => entry.at = tasks[id].nextRunAt
  /\ \A e \in Executor :
       With(e, id) /\ ex[e].pc = "schedule" => tasks[id].nextRunAt = ex[e].now + RetryDelay

\* Nothing is claimed of the leftovers of a terminal task.
PlaceOK(id) ==
  /\ tasks[id].state \in {"none", "pending", "leased"} => Nowhere(id)
  /\ tasks[id].state = "ready" => InOnePlace(id) /\ InTime(id)

PlacesOK == \A id \in Task : PlaceOK(id)

(***************************************************************************)
(* The task of an executor without a lease.                                *)
(***************************************************************************)
\* No lease is ahead of its task.
LeasesBehind == \A l \in leases \cup tk.expired : l.version <= tasks[l.task].version

\* The undo of Assign after a failed Pick succeeds unless the task was cancelled:
\* no lease exists yet through which anybody else could move the task.
PickOK ==
  \A e \in Executor :
    ex[e].pc = "picking" =>
      /\ ex[e].version = tasks[ex[e].task].version \/ tasks[ex[e].task].state \in Terminal
      /\ \A l \in leases \cup tk.expired : l.task = ex[e].task => l.version # ex[e].version

\* No request in progress is a trigger or a cron update.
RequestsOK == \A c \in Client : cl[c].pc \notin {"mark", "push", "save", "refresh"}

\* Tick gives no cron task a next run time.
NoCronTick == tk.pc \notin {"next", "fire"}

BackoffInv == RequestsOK /\ NoCronTick /\ LeasesBehind /\ PickOK /\ PlacesOK

(***************************************************************************)
(* Requests.                                                               *)
(***************************************************************************)
\* Triggers and cron updates do not arrive.
LEMMA RequestsStep ==
  ASSUME Undisturbed, TypeInv, RequestsOK, [Next]_vars
  PROVE  RequestsOK'
<1>0. ClientsOK
  BY DEF TypeInv
<1>1. ASSUME NEW c \in Client, Request(c) PROVE RequestsOK'
  <2>1. cl'[c].pc \notin {"mark", "push", "save", "refresh"}
    <3> USE <1>0 DEF ClientsOK, ClientLocal
    <3>1. ASSUME NEW id \in Task, RegisterSave(c, id) PROVE cl'[c].pc = "track"
      BY <3>1 DEF RegisterSave
    <3>2. ASSUME NEW id \in Task, CancelGet(c, id) PROVE cl'[c].pc = "cancel"
      BY <3>2 DEF CancelGet
    <3>3. ASSUME NEW w \in Worker, NEW op, NEW pc, WorkerCalls(c, op, pc, w) PROVE cl'[c].pc = pc
      BY <3>3 DEF WorkerCalls
    <3>4. \A id \in Task : ~TriggerGet(c, id)
      BY DEF Undisturbed, TriggerGet, Begin
    <3>5. QED
      BY <1>1, <3>1, <3>2, <3>3, <3>4 DEF Request, Undisturbed
  <2>2. QED
    BY <1>0, <1>1, <2>1, ClientAlone DEF RequestsOK
<1>2. ASSUME NEW c \in Client, Handle(c) PROVE RequestsOK'
  BY <1>0, <1>2, ClientAlone, HandleFacts DEF RequestsOK
<1>3. CASE UNCHANGED cl
  BY <1>3 DEF RequestsOK
<1>4. QED
  BY <1>1, <1>2, <1>3 DEF Next, vars, TimePasses, TickerRuns, ExecutorRuns, WorkerBeats,
     RequestArrives, HandlerRuns

\* Without cron tasks Tick's loop ends each turn with the push.
LEMMA NoCronTickStep ==
  ASSUME Undisturbed, TypeInv, NoCronTick, [Next]_vars
  PROVE  NoCronTick'
<1>0. TickerOK
  BY DEF TypeInv
<1>1. CASE Ticker
  BY <1>0, <1>1
     DEF NoCronTick, Undisturbed, Ticker, TickScan, TickGet, TickDrop, TickMark, TickPush,
         TickSetNextRun, TickSetFire, TickPopDue, TickEntry, TickPushEntry, ReapCollect,
         ReapRequeue, ReapPush, TickerOK, TickerLocal
<1>2. CASE UNCHANGED tk
  BY <1>2 DEF NoCronTick
<1>3. QED
  BY <1>1, <1>2 DEF Next, vars, TimePasses, TickerRuns, ExecutorRuns, WorkerBeats,
     RequestArrives, HandlerRuns

(***************************************************************************)
(* Leases and versions.                                                    *)
(***************************************************************************)
\* Every lease, in the table or with the reaper, was there before or is the one
\* Assign has just stored.
LEMMA LeasesComeFrom ==
  ASSUME TypeInv, [Next]_vars, NEW m \in leases' \cup tk'.expired
  PROVE  \/ \E l \in leases \cup tk.expired : l.task = m.task /\ l.version = m.version
         \/ \E e \in Executor :
              /\ ExecutorRuns(e) /\ BindLease(e)
              /\ m.task = ex[e].task /\ m.version = ex[e].version
<1>0. LeasesOK /\ TickerOK /\ ExecutorsOK
  BY DEF TypeInv
<1> DEFINE Old == \E l \in leases \cup tk.expired : l.task = m.task /\ l.version = m.version
<1>1. ASSUME LeasesKept, tk'.expired \subseteq tk.expired PROVE Old
  BY <1>1 DEF LeasesKept
<1>2. CASE TickerRuns
  <2>1. ASSUME ReapCollect, tk'.expired = Expired(clock) PROVE Old
    BY <2>1 DEF ReapCollect, CollectExpired, Expired
  <2>2. ASSUME ~ReapCollect PROVE UNCHANGED leases
    BY <1>2, <2>2
       DEF TickerRuns, Ticker, TickScan, TickGet, TickDrop, TickMark, TickPush, TickSetNextRun,
           TickSetFire, TickPopDue, TickEntry, TickPushEntry, ReapRequeue, ReapPush, leaseVars
  <2>3. ASSUME ~ReapCollect PROVE tk'.expired \subseteq tk.expired
    BY <1>0, <1>2, <2>3
       DEF TickerRuns, Ticker, TickScan, TickGet, TickDrop, TickMark, TickPush, TickSetNextRun,
           TickSetFire, TickPopDue, TickEntry, TickPushEntry, ReapRequeue, ReapPush,
           TickerOK, TickerLocal
  <2>4. ASSUME ReapCollect PROVE tk'.expired = Expired(clock)
    BY <1>0, <2>4 DEF ReapCollect, TickerOK, TickerLocal
  <2>5. QED
    BY <2>1, <2>2, <2>3, <2>4
<1>3. ASSUME NEW e \in Executor, ExecutorRuns(e), BindLease(e)
      PROVE  Old \/ (m.task = ex[e].task /\ m.version = ex[e].version)
  <2>1. PICK w \in Worker : Bind(ex[e].task, w, ex[e].version, ex[e].now)
    BY <1>3 DEF BindLease
  <2> DEFINE new == [id |-> leaseSeq', task |-> ex[e].task, worker |-> w,
                     version |-> ex[e].version, deadline |-> ex[e].now + TTL]
  <2>2. leases' = leases \cup {new} /\ new.task = ex[e].task /\ new.version = ex[e].version
    BY <2>1 DEF Bind
  <2> HIDE DEF new
  <2>3. m = new \/ m \in leases \cup tk.expired
    BY <1>3, <2>2 DEF ExecutorRuns
  <2>4. QED
    BY <2>2, <2>3
<1>4. ASSUME NEW e \in Executor, ExecutorRuns(e), ~BindLease(e) PROVE Old
  <2>1. LeasesKept
    <3>1. ReleaseLease(e) => Release(ex[e].lease)
      BY DEF ReleaseLease
    <3>2. ~ReleaseLease(e) => UNCHANGED leaseVars
      BY <1>4 DEF ExecutorRuns, ExecutorStep, Pop, PopNothing, TakeReady, PickFails, Repush,
         Finish, CheckLease, ApplyResult, ScheduleRetry
    <3>3. QED
      BY <1>0, <3>1, <3>2, LeaseOpsKeep
  <2>2. QED
    BY <1>1, <1>4, <2>1 DEF ExecutorRuns
<1>5. ASSUME NEW c \in Client, RequestArrives(c) \/ HandlerRuns(c) PROVE Old
  <2>1. LeasesKept
    <3>1. HeartbeatRenew(c) => \E lid, w, now : Renew(lid, w, now)
      BY DEF HeartbeatRenew
    <3>2. ~HeartbeatRenew(c) => UNCHANGED leaseVars
      BY <1>5 DEF RequestArrives, HandlerRuns, Request, Handle, RegisterSave, TriggerGet,
         CancelGet, CronGet, WorkerCalls, RegisterTrack, TriggerMark, TriggerPush,
         CancelTransition, CancelUnready, CancelUndelay, CancelUntrack, CronSave, CronRefresh,
         EnrollWorker, HeartbeatMark, HeartbeatList
    <3>3. QED
      BY <1>0, <3>1, <3>2, LeaseOpsKeep
  <2>2. QED
    BY <1>1, <1>5, <2>1 DEF RequestArrives, HandlerRuns
<1>6. CASE UNCHANGED <<leases, tk>>
  BY <1>6
<1>7. QED
  BY <1>2, <1>3, <1>4, <1>5, <1>6 DEF Next, vars, TimePasses, WorkerBeats, leaseVars

\* Versions only grow, and Assign stores a lease for a version the task has had.
LEMMA LeasesBehindStep ==
  ASSUME FenceInv, LeasesBehind, [Next]_vars
  PROVE  LeasesBehind'
<1>0. TypeInv /\ StoreOK /\ LeasesOK /\ TickerOK /\ ExecutorsOK
  BY DEF FenceInv, TypeInv
<1>1. ASSUME NEW l \in leases \cup tk.expired
      PROVE  l.task \in Task /\ l.version \in Nat
  BY <1>0 DEF LeasesOK, TickerOK, TickerLocal, Lease
<1>2. \A id \in Task : tasks[id].version \in Nat /\ tasks'[id].version \in Nat
                       /\ tasks[id].version <= tasks'[id].version
  BY <1>0, VersionsAdvance DEF FenceInv, StoreAdvances, Advances, StoreOK, TaskRec
<1>3. ASSUME NEW m \in leases' \cup tk'.expired PROVE m.version <= tasks'[m.task].version
  <2>1. ASSUME NEW l \in leases \cup tk.expired, l.task = m.task, l.version = m.version
        PROVE  m.version <= tasks'[m.task].version
    BY <1>1, <1>2, <2>1 DEF LeasesBehind
  <2>2. ASSUME NEW e \in Executor, BindLease(e), m.task = ex[e].task, m.version = ex[e].version
        PROVE  m.version <= tasks'[m.task].version
    <3>1. ex[e].task \in Task /\ ex[e].version \in Nat /\ HoldsVersion(e)
      BY <1>0, <2>2 DEF BindLease, HoldsVersion, ExecutorsOK, ExecutorLocal
    <3>2. ex[e].version <= tasks[ex[e].task].version
      BY <3>1 DEF FenceInv, VersionFence
    <3>3. QED
      BY <1>2, <2>2, <3>1, <3>2
  <2>3. QED
    BY <1>0, <2>1, <2>2, LeasesComeFrom
<1>4. QED
  BY <1>3 DEF LeasesBehind


\* While an executor is about to store the lease of a task, the task is changed by
\* a cancellation only.
LEMMA OnlyCancelOvertakes ==
  ASSUME Undisturbed, FenceInv, RequestsOK, PickOK, [Next]_vars,
         NEW f \in Executor, ex[f].pc = "picking", ex'[f].pc = "picking",
         tasks[ex[f].task].version = ex[f].version
  PROVE  \/ tasks'[ex[f].task].version = tasks[ex[f].task].version
         \/ tasks'[ex[f].task].state \in Terminal
<1>0. /\ TypeInv /\ StoreOK /\ LeasesOK /\ TickerOK /\ ExecutorsOK /\ ClientsOK
      /\ VersionFence /\ LeaseFence
  BY DEF FenceInv, TypeInv
<1> PICK t \in Task : t = ex[f].task
  BY <1>0 DEF ExecutorsOK
<1> DEFINE Goal == \/ tasks'[t].version = tasks[t].version
                   \/ tasks'[t].state \in Terminal
<1>1. HoldsVersion(f) /\ tasks[t].state = "leased" /\ tasks[t].version \in Nat
  BY <1>0 DEF HoldsVersion, VersionFence, StoreOK, TaskRec
<1>2. ASSUME NEW e \in Executor \ {f}, HoldsVersion(e), ex[e].task = t
      PROVE  ex[e].version # tasks[t].version
  BY <1>0, <1>1, <1>2 DEF VersionFence
<1>3. ASSUME NEW id \in Task, NEW to, Enter(id, to), tasks[id].state # "leased" PROVE Goal
  BY <1>0, <1>1, <1>3, EnterFacts DEF Others
<1>4. ASSUME UNCHANGED tasks PROVE Goal
  BY <1>4
<1>5. CASE TickerRuns
  <2>1. CASE TickMark
    <3>1. tk.cur \in Task
      BY <1>0, <2>1 DEF TickMark, TickerOK
    <3>2. QED
      BY <1>3, <1>4, <2>1, <3>1 DEF TickMark, MarkReady
  <2>2. ASSUME NEW l \in tk.expired, ReapRequeue(l) PROVE Goal
    <3>1. l.task \in Task
      BY <1>0 DEF TickerOK, TickerLocal, Lease
    <3>2. CASE Transition(l.task, "leased", "ready", l.version)
      <4>1. l.version \in Nat
        BY <1>0 DEF TickerOK, TickerLocal, Lease
      <4>2. l.task = t => l.version # tasks[t].version
        BY DEF PickOK
      <4>3. l.task # t
        BY <3>2, <4>1, <4>2 DEF Transition, CanTransition
      <4>4. QED
        BY <1>0, <3>1, <3>2, <4>3, EnterFacts DEF Transition, Others
    <3>3. QED
      BY <1>4, <2>2, <3>2 DEF ReapRequeue
  <2>3. ASSUME TickSetNextRun PROVE Goal
    <3>1. tk.cur \in Task
      BY <1>0, <2>3 DEF TickSetNextRun, TickerOK
    <3>2. \A next : SetNextRun(tk.cur, next) => tasks'[t].version = tasks[t].version
      BY <1>0, <3>1, SetNextRunFacts DEF Others
    <3>3. QED
      BY <1>4, <2>3, <3>2 DEF TickSetNextRun
  <2>4. QED
    BY <1>4, <1>5, <2>1, <2>2, <2>3
       DEF TickerRuns, Ticker, TickScan, TickGet, TickDrop, TickPush, TickSetFire, TickPopDue,
           TickEntry, TickPushEntry, ReapCollect, ReapPush
<1>6. ASSUME NEW e \in Executor, ExecutorRuns(e) PROVE Goal
  <2>0. ExecutorStep(e)
    BY <1>6 DEF ExecutorRuns
  <2>1. CASE TakeReady(e)
    BY <1>0, <1>3, <1>4, <2>1, TakeFacts
  <2>2. CASE PickFails(e)
    <3>1. ex[e].pc = "picking" /\ ex[e].task \in Task /\ ex'[e].pc = "repush"
      BY <1>0, <2>2, PickFailsFacts
    <3>2. CanTransition(ex[e].task, "leased", ex[e].version) => ex[e].task # t
      <4>1. e # f /\ HoldsVersion(e) /\ ex[e].version \in Nat
        BY <1>0, <3>1 DEF HoldsVersion, ExecutorsOK, ExecutorLocal
      <4>2. QED
        BY <1>2, <4>1 DEF CanTransition
    <3>3. QED
      BY <1>0, <1>4, <2>2, <3>1, <3>2, PickFailsFacts, EnterFacts DEF Others
  <2>3. CASE ApplyResult(e)
    <3>1. /\ ex[e].pc = "apply" /\ ex[e].task \in Task /\ ex[e].seen \in Nat
          /\ ex[e].seen = ex[e].version
      BY <1>0, <2>3, ApplyFacts DEF ExecutorsOK, ExecutorLocal, LeaseFence
    <3>2. tasks[ex[e].task].version = ex[e].seen => ex[e].task # t
      BY <1>2, <3>1 DEF HoldsVersion
    <3>3. CanTransition(ex[e].task, "leased", ex[e].seen) => tasks[ex[e].task].version = ex[e].seen
      BY <3>1 DEF CanTransition
    <3>4. \A next : Retry(ex[e].task, next, ex[e].seen) => Goal
      BY <1>0, <3>1, <3>2, RetryFacts DEF Others
    <3>5. \A to : CanTransition(ex[e].task, "leased", ex[e].seen) /\ Enter(ex[e].task, to) => Goal
      BY <1>0, <3>1, <3>2, <3>3, EnterFacts DEF Others
    <3>6. QED
      BY <1>0, <1>4, <2>3, <3>4, <3>5, ApplyFacts
  <2>4. QED
    BY <1>4, <2>0, <2>1, <2>2, <2>3 DEF ExecutorStep, Pop, PopNothing, BindLease, Repush, Finish,
       CheckLease, ScheduleRetry, ReleaseLease
<1>7. ASSUME NEW c \in Client, RequestArrives(c) \/ HandlerRuns(c) PROVE Goal
  <2>1. ASSUME NEW id \in Task, RegisterSave(c, id) PROVE Goal
    BY <1>0, <1>1, <2>1, InsertFacts DEF RegisterSave, Others
  <2>2. ASSUME CancelTransition(c) PROVE Goal
    <3>1. cl[c].task \in Task
      BY <1>0, <2>2 DEF CancelTransition, ClientsOK, WorkerPc
    <3>2. Enter(cl[c].task, "canceled") => Goal
      BY <1>0, <3>1, EnterFacts DEF Others, Terminal
    <3>3. QED
      BY <1>4, <2>2, <3>2 DEF CancelTransition, Transition
  <2>3. ~TriggerMark(c) /\ ~CronSave(c)
    BY DEF RequestsOK, TriggerMark, CronSave
  <2>4. QED
    BY <1>4, <1>7, <2>1, <2>2, <2>3
       DEF RequestArrives, HandlerRuns, Request, Handle, TriggerGet, CancelGet, CronGet,
           WorkerCalls, RegisterTrack, TriggerPush, CancelUnready, CancelUndelay, CancelUntrack,
           CronRefresh, EnrollWorker, HeartbeatMark, HeartbeatList, HeartbeatRenew
<1>8. QED
  BY <1>4, <1>5, <1>6, <1>7 DEF Next, vars, TimePasses, WorkerBeats

\* An executor that is about to bind its lease has leased the task just now, or
\* was about to already.
LEMMA PickingBegins ==
  ASSUME FenceInv, [Next]_vars, NEW f \in Executor, ex'[f].pc = "picking"
  PROVE  \/ ExecutorRuns(f) /\ TakeReady(f)
         \/ /\ ex[f].pc = "picking"
            /\ ex'[f].task = ex[f].task /\ ex'[f].version = ex[f].version
<1>0. TypeInv /\ ExecutorsOK
  BY DEF FenceInv, TypeInv
<1>1. CASE UNCHANGED ex
  BY <1>1
<1>2. ASSUME NEW e \in Executor \ {f}, ExecutorStep(e) PROVE ex'[f] = ex[f]
  BY <1>0, <1>2, ExecutorAlone
<1>3. ASSUME ExecutorStep(f) PROVE TakeReady(f)
  <2>1. /\ Pop(f) => ex'[f].pc = "popped"
        /\ BindLease(f) => ex'[f].pc = "running"
        /\ PickFails(f) => ex'[f].pc = "repush"
        /\ CheckLease(f) => ex'[f].pc \in {"apply", "release"}
        /\ ApplyResult(f) => ex'[f].pc \in {"release", "schedule"}
        /\ Finish(f) => ex'[f].pc \in {"check", "release"}
    BY <1>0, PopFacts, BindFacts, PickFailsFacts, CheckFacts, ApplyFacts, FinishFacts
  <2>2. /\ ToIdle(f) => ex'[f].pc = "idle"
        /\ ToRelease(f) => ex'[f].pc = "release"
    BY <1>0, IdleFacts, ReleaseFacts
  <2>3. QED
    BY <1>3, <2>1, <2>2 DEF ExecutorStep, PopNothing, Repush, ScheduleRetry, ReleaseLease
<1>4. QED
  BY <1>1, <1>2, <1>3 DEF Next, vars, TimePasses, TickerRuns, ExecutorRuns, WorkerBeats,
     RequestArrives, HandlerRuns

\* Between Assign's Transition and its lease only a cancellation comes in.
LEMMA PickStep ==
  ASSUME Undisturbed, FenceInv, RequestsOK, LeasesBehind, PickOK, [Next]_vars
  PROVE  PickOK'
<1>0. TypeInv /\ StoreOK /\ LeasesOK /\ TickerOK /\ ExecutorsOK /\ VersionFence
  BY DEF FenceInv, TypeInv
<1> SUFFICES ASSUME NEW f \in Executor, ex'[f].pc = "picking"
             PROVE  /\ \/ ex'[f].version = tasks'[ex'[f].task].version
                       \/ tasks'[ex'[f].task].state \in Terminal
                    /\ \A m \in leases' \cup tk'.expired :
                         m.task = ex'[f].task => m.version # ex'[f].version
  BY DEF PickOK
<1>1. CASE ExecutorRuns(f) /\ TakeReady(f)
  <2> PICK t \in Task : t = ex[f].task
    BY <1>0, <1>1, TakeFacts
  <2>1. /\ ex'[f].task = t /\ ex'[f].version = tasks'[t].version
        /\ tasks'[t].version = tasks[t].version + 1
        /\ UNCHANGED <<leases, tk>>
    BY <1>0, <1>1, TakeFacts, EnterFacts DEF Carries, ExecutorRuns, leaseVars
  <2>2. \A l \in leases \cup tk.expired :
          /\ l.version \in Nat
          /\ l.task = t => l.version <= tasks[t].version
    BY <1>0 DEF LeasesBehind, LeasesOK, TickerOK, TickerLocal, Lease
  <2>3. tasks[t].version \in Nat
    BY <1>0 DEF StoreOK, TaskRec
  <2>4. QED
    BY <2>1, <2>2, <2>3
<1>2. CASE ex[f].pc = "picking" /\ ex'[f].task = ex[f].task /\ ex'[f].version = ex[f].version
  <2> PICK t \in Task : t = ex[f].task
    BY <1>0, <1>2 DEF ExecutorsOK
  <2>1. ex[f].version = tasks'[t].version \/ tasks'[t].state \in Terminal
    <3>1. CASE tasks[t].state \in Terminal
      BY <3>1, FenceHolds, TerminalStep DEF StatesFinal
    <3>2. CASE ex[f].version = tasks[t].version
      BY <1>2, <3>2, OnlyCancelOvertakes
    <3>3. QED
      BY <1>2, <3>1, <3>2 DEF PickOK
  <2>2. ASSUME NEW m \in leases' \cup tk'.expired, m.task = t PROVE m.version # ex[f].version
    <3>1. ASSUME NEW l \in leases \cup tk.expired, l.task = m.task, l.version = m.version
          PROVE  m.version # ex[f].version
      BY <1>2, <2>2, <3>1 DEF PickOK
    <3>2. ASSUME NEW e \in Executor, BindLease(e), m.task = ex[e].task, m.version = ex[e].version
          PROVE  m.version # ex[f].version
      <4>1. e # f /\ HoldsVersion(e) /\ HoldsVersion(f)
        BY <1>0, <1>2, <3>2, BindFacts DEF HoldsVersion
      <4>2. QED
        BY <1>0, <2>2, <3>2, <4>1 DEF VersionFence
    <3>3. QED
      BY <1>0, <3>1, <3>2, LeasesComeFrom
  <2>3. QED
    BY <1>2, <2>1, <2>2
<1>3. QED
  BY <1>1, <1>2, PickingBegins


(***************************************************************************)
(* How a task gets from place to place.                                    *)
(***************************************************************************)
\* A step that leaves the task alone and puts it nowhere it was not.
Fewer(id) ==
  /\ id \in ready' => id \in ready
  /\ \A entry \in delayed' : entry.task = id => entry \in delayed
  /\ InHand(id)' => InHand(id)
  /\ InList(id)' => InList(id)
  /\ \A e \in Executor : With(e, id)' => With(e, id) /\ ex'[e] = ex[e]

\* A place that is given up, or was never taken, disturbs nothing.
LEMMA FewerIsOK ==
  ASSUME NEW id \in Task, PlaceOK(id), Fewer(id), tasks'[id] = tasks[id]
  PROVE  PlaceOK(id)'
<1>1. Nowhere(id) => Nowhere(id)'
  BY DEF Nowhere, Fewer, InDelayed
<1>2. InOnePlace(id) => InOnePlace(id)'
  BY DEF InOnePlace, Fewer, InDelayed
<1>3. InTime(id) => InTime(id)'
  BY DEF InTime, Fewer
<1>4. QED
  BY <1>1, <1>2, <1>3 DEF PlaceOK

\* Nothing is claimed of a task in a terminal state.
LEMMA TerminalIsOK ==
  ASSUME NEW id \in Task, tasks'[id].state \in Terminal
  PROVE  PlaceOK(id)'
BY DEF PlaceOK, Terminal

\* A task that was nowhere becomes Ready in the ticker's hands.
LEMMA TickerMakesReady ==
  ASSUME NEW id \in Task, PlaceOK(id), tasks[id].state \in {"pending", "leased"},
         tasks'[id].state = "ready", UNCHANGED <<queueVars, ex>>, InHand(id)', ~InList(id)'
  PROVE  PlaceOK(id)'
<1>1. Nowhere(id)
  BY DEF PlaceOK
<1>2. /\ id \notin ready' /\ ~InDelayed(id)'
      /\ \A e \in Executor : ~With(e, id)'
  BY <1>1 DEF Nowhere, InDelayed, With, queueVars
<1>3. InOnePlace(id)' /\ InTime(id)'
  BY <1>2 DEF InOnePlace, InTime, InDelayed
<1>4. QED
  BY <1>3 DEF PlaceOK

\* The ticker pushes the task it has in hand.
LEMMA TickerPushes ==
  ASSUME NEW id \in Task, PlaceOK(id), tasks'[id] = tasks[id], InHand(id),
         ready' = ready \cup {id}, UNCHANGED <<delayed, ex>>, ~InHand(id)',
         InList(id)' => InList(id)
  PROVE  PlaceOK(id)'
<1>1. ~Nowhere(id)
  BY DEF Nowhere
<1>2. ASSUME InOnePlace(id), InTime(id) PROVE InOnePlace(id)' /\ InTime(id)'
  <2>1. ~InDelayed(id) /\ ~InList(id) /\ \A e \in Executor : ~With(e, id)
    BY <1>2 DEF InOnePlace
  <2>2. ~InDelayed(id)' /\ \A e \in Executor : ~With(e, id)'
    BY <2>1 DEF InDelayed, With
  <2>3. QED
    BY <2>1, <2>2 DEF InOnePlace, InTime, InDelayed
<1>3. QED
  BY <1>1, <1>2 DEF PlaceOK

\* The ticker takes the due entries out of the delayed queue: of a Ready task all
\* or none.
LEMMA TickerPopsDue ==
  ASSUME TypeInv, NEW id \in Task, PlaceOK(id), TickerRuns, TickPopDue
  PROVE  PlaceOK(id)'
<1> DEFINE due == {entry.task : entry \in DueEntries(tk.now)}
<1>1. /\ tk.pc = "due" /\ tk.todo = {} /\ delayed' = delayed \ DueEntries(tk.now)
      /\ tk'.pc = "entries" /\ tk'.todo = due
      /\ UNCHANGED <<tasks, ready, ex>>
  BY DEF TickPopDue, TickerRuns, TypeInv, TickerOK, TickerLocal
<1>2. id \in due <=> \E entry \in DueEntries(tk.now) : entry.task = id
  OBVIOUS
<1> HIDE DEF due
<1>3. /\ ~InHand(id)' /\ (InList(id)' <=> id \in due)
      /\ \A e \in Executor : With(e, id)' <=> With(e, id)
  BY <1>1 DEF InHand, InList, With
<1>4. CASE id \notin due
  <2>1. Fewer(id)
    BY <1>1, <1>3, <1>4 DEF Fewer
  <2>2. QED
    BY <1>1, <2>1, FewerIsOK
<1>5. CASE id \in due
  <2>1. PICK entry \in delayed : entry.task = id /\ entry.at <= tk.now
    BY <1>2, <1>5 DEF DueEntries
  <2>2. InDelayed(id) /\ ~Nowhere(id)
    BY <2>1 DEF InDelayed, Nowhere
  <2>3. ASSUME InOnePlace(id), InTime(id) PROVE InOnePlace(id)' /\ InTime(id)'
    <3>1. id \notin ready /\ \A e \in Executor : ~With(e, id)
      BY <2>2, <2>3 DEF InOnePlace
    <3>2. \A other \in delayed : other.task = id => other \in DueEntries(tk.now)
      BY <2>1, <2>3 DEF InTime, DueEntries
    <3>3. ~InDelayed(id)'
      BY <1>1, <3>2 DEF InDelayed
    <3>4. QED
      BY <1>1, <1>3, <3>1, <3>3 DEF InOnePlace, InTime, InDelayed
  <2>4. QED
    BY <1>1, <2>2, <2>3 DEF PlaceOK
<1>6. QED
  BY <1>4, <1>5

\* The ticker takes up the next of the entries it has popped.
LEMMA TickerTakesUp ==
  ASSUME NEW id \in Task, PlaceOK(id), tasks'[id] = tasks[id], InList(id), InHand(id)',
         ~InList(id)', UNCHANGED <<queueVars, ex>>
  PROVE  PlaceOK(id)'
<1>1. ~Nowhere(id)
  BY DEF Nowhere
<1>2. ASSUME InOnePlace(id), InTime(id) PROVE InOnePlace(id)' /\ InTime(id)'
  <2>1. id \notin ready /\ ~InDelayed(id) /\ \A e \in Executor : ~With(e, id)
    BY <1>2 DEF InOnePlace
  <2>2. id \notin ready' /\ ~InDelayed(id)' /\ \A e \in Executor : ~With(e, id)'
    BY <2>1 DEF InDelayed, With, queueVars
  <2>3. QED
    BY <2>2 DEF InOnePlace, InTime, InDelayed
<1>3. QED
  BY <1>1, <1>2 DEF PlaceOK


\* Tick and ReapExpired take each task from one place to the next.
LEMMA TickerPlaces ==
  ASSUME TypeInv, NoCronTick, PlacesOK, TickerRuns, NEW id \in Task
  PROVE  PlaceOK(id)'
<1>0. /\ StoreOK /\ TickerOK /\ PlaceOK(id)
      /\ UNCHANGED ex
  BY DEF TypeInv, PlacesOK, TickerRuns
<1>e. \A e \in Executor : With(e, id)' <=> With(e, id)
  BY <1>0 DEF With
<1>f. ASSUME UNCHANGED <<queueVars, tasks>>, InHand(id)' => InHand(id), InList(id)' => InList(id)
      PROVE  PlaceOK(id)'
  <2>1. Fewer(id)
    BY <1>0, <1>e, <1>f DEF Fewer, queueVars
  <2>2. QED
    BY <1>0, <1>f, <2>1, FewerIsOK
<1> USE DEF InHand, InList
<1>1. CASE TickScan
  BY <1>f, <1>1 DEF TickScan, IdleTicker
<1>2. ASSUME NEW t \in tk.todo, TickGet(t) PROVE PlaceOK(id)'
  BY <1>0, <1>f, <1>2 DEF TickGet, TickerOK, TickerLocal
<1>3. CASE TickDrop \/ TickSetFire \/ TickSetNextRun
  BY <1>0, <1>f, <1>3 DEF NoCronTick, TickDrop, TickSetFire, TickSetNextRun, TickerOK, TickerLocal
<1>4. CASE TickMark
  <2> PICK t \in Task : t = tk.cur
    BY <1>0, <1>4 DEF TickMark, TickerOK
  <2>1. CASE MarkReady(t)
    <3>1. /\ tasks[t].state = "pending" /\ tasks'[t].state = "ready" /\ Others(t)
      BY <1>0, <2>1, EnterFacts DEF MarkReady
    <3>2. tk'.cur = t /\ tk'.pc = "push" /\ UNCHANGED queueVars
      <4>1. tk' = [tk EXCEPT !.pc = "push"]
        BY <1>4, <3>1 DEF TickMark
      <4>2. QED
        BY <1>0, <1>4, <4>1 DEF TickMark, TickerOK, TickerLocal
    <3>3. CASE id = t
      BY <1>0, <3>1, <3>2, <3>3, TickerMakesReady
    <3>4. CASE id # t
      <4>1. tasks'[id] = tasks[id] /\ ~InHand(id)' /\ ~InList(id)'
        BY <3>1, <3>2, <3>4 DEF Others
      <4>2. Fewer(id)
        BY <1>0, <1>e, <3>2, <4>1 DEF Fewer, queueVars
      <4>3. QED
        BY <1>0, <4>1, <4>2, FewerIsOK
    <3>5. QED
      BY <3>3, <3>4
  <2>2. CASE ~MarkReady(t)
    BY <1>0, <1>f, <1>4, <2>2 DEF TickMark, TickerOK, TickerLocal
  <2>3. QED
    BY <2>1, <2>2
<1>5. CASE TickPush \/ TickPushEntry \/ ReapPush
  <2> PICK t \in Task : t = tk.cur
    BY <1>0, <1>5 DEF TickPush, TickPushEntry, ReapPush, TickerOK
  <2>1. /\ ready' = ready \cup {t} /\ UNCHANGED <<tasks, delayed>>
        /\ tk.pc \in {"push", "pushEntry", "pushReaped"}
    BY <1>5 DEF TickPush, TickPushEntry, ReapPush, PushReady
  <2>2. /\ tk'.pc \notin {"push", "pushEntry", "pushReaped"}
        /\ InList(id)' => InList(id)
    BY <1>0, <1>5 DEF TickPush, TickPushEntry, ReapPush, TickerOK, TickerLocal
  <2>3. CASE id = t
    BY <1>0, <2>1, <2>2, <2>3, TickerPushes
  <2>4. CASE id # t
    <3>1. Fewer(id)
      BY <1>0, <1>e, <2>1, <2>2, <2>4 DEF Fewer
    <3>2. QED
      BY <1>0, <2>1, <3>1, FewerIsOK
  <2>5. QED
    BY <2>3, <2>4
<1>6. CASE TickPopDue
  BY <1>0, <1>6, TickerPopsDue
<1>7. ASSUME NEW t \in tk.todo, TickEntry(t) PROVE PlaceOK(id)'
  <2>1. /\ tk.pc = "entries" /\ tk'.todo = tk.todo \ {t} /\ UNCHANGED <<tasks, queueVars>>
        /\ (tk'.pc = "pushEntry" /\ tk'.cur = t) \/ tk'.pc = "entries"
    BY <1>0, <1>7 DEF TickEntry, TickerOK, TickerLocal
  <2>2. CASE id = t /\ tk'.pc = "pushEntry"
    BY <1>0, <2>1, <2>2, TickerTakesUp
  <2>3. CASE ~(id = t /\ tk'.pc = "pushEntry")
    BY <1>f, <2>1, <2>3
  <2>4. QED
    BY <2>2, <2>3
<1>8. CASE ReapCollect
  BY <1>0, <1>f, <1>8 DEF ReapCollect, TickerOK, TickerLocal
<1>9. ASSUME NEW l \in tk.expired, ReapRequeue(l) PROVE PlaceOK(id)'
  <2> PICK t \in Task : t = l.task
    BY <1>0 DEF TickerOK, TickerLocal, Lease
  <2>1. /\ tk.pc = "expired" /\ tk'.pc \in {"pushReaped", "expired"} /\ UNCHANGED queueVars
        /\ tk'.pc = "pushReaped" => tk'.cur = t /\ Transition(t, "leased", "ready", l.version)
        /\ tk'.pc = "expired" => UNCHANGED tasks
    BY <1>0, <1>9 DEF ReapRequeue, TickerOK, TickerLocal
  <2>2. CASE tk'.pc = "pushReaped"
    <3>1. /\ tasks[t].state = "leased" /\ tasks'[t].state = "ready" /\ Others(t)
      BY <1>0, <2>1, <2>2, EnterFacts DEF Transition, CanTransition
    <3>2. CASE id = t
      BY <1>0, <2>1, <2>2, <3>1, <3>2, TickerMakesReady
    <3>3. CASE id # t
      <4>1. tasks'[id] = tasks[id] /\ ~InHand(id)' /\ ~InList(id)'
        BY <2>1, <2>2, <3>1, <3>3 DEF Others
      <4>2. Fewer(id)
        BY <1>0, <1>e, <2>1, <4>1 DEF Fewer, queueVars
      <4>3. QED
        BY <1>0, <4>1, <4>2, FewerIsOK
    <3>4. QED
      BY <3>2, <3>3
  <2>3. CASE tk'.pc = "expired"
    BY <1>f, <2>1, <2>3
  <2>4. QED
    BY <2>1, <2>2, <2>3
<1>10. QED
  BY <1>1, <1>2, <1>3, <1>4, <1>5, <1>6, <1>7, <1>8, <1>9 DEF TickerRuns, Ticker


\* A Leased task becomes Ready in the hands of an executor, which will push it
\* or schedule it for the run time Retry has given it.
LEMMA ExecutorMakesReady ==
  ASSUME NEW id \in Task, NEW e \in Executor, PlaceOK(id),
         tasks[id].state = "leased", tasks'[id].state = "ready",
         UNCHANGED <<queueVars, tk>>, \A f \in Executor \ {e} : ex'[f] = ex[f],
         ex'[e].pc = "schedule" => tasks'[id].nextRunAt = ex'[e].now + RetryDelay
  PROVE  PlaceOK(id)'
<1>1. Nowhere(id)
  BY DEF PlaceOK
<1>2. /\ id \notin ready' /\ ~InDelayed(id)' /\ ~InHand(id)' /\ ~InList(id)'
      /\ \A f \in Executor \ {e} : ~With(f, id)'
  BY <1>1 DEF Nowhere, InDelayed, InHand, InList, With, queueVars
<1>3. InOnePlace(id)'
  BY <1>2 DEF InOnePlace
<1>4. InTime(id)'
  BY <1>2 DEF InTime, InDelayed
<1>5. QED
  BY <1>3, <1>4 DEF PlaceOK

\* Assign pops a task: it is not in the queue any more and with nobody else.
LEMMA ExecutorPops ==
  ASSUME NEW id \in Task, NEW e \in Executor, PlaceOK(id), tasks'[id] = tasks[id],
         id \in ready, ready' = ready \ {id}, UNCHANGED <<delayed, tk>>,
         \A f \in Executor \ {e} : ex'[f] = ex[f], ex'[e].pc = "popped"
  PROVE  PlaceOK(id)'
<1>1. ~Nowhere(id)
  BY DEF Nowhere
<1>2. ASSUME InOnePlace(id) PROVE InOnePlace(id)' /\ InTime(id)'
  <2>1. ~InDelayed(id) /\ ~InHand(id) /\ ~InList(id) /\ \A f \in Executor : ~With(f, id)
    BY <1>2 DEF InOnePlace
  <2>2. /\ id \notin ready' /\ ~InDelayed(id)' /\ ~InHand(id)' /\ ~InList(id)'
        /\ \A f \in Executor \ {e} : ~With(f, id)'
    BY <2>1 DEF InDelayed, InHand, InList, With
  <2>3. InOnePlace(id)'
    BY <2>2 DEF InOnePlace
  <2>4. InTime(id)'
    BY <2>2 DEF InTime, InDelayed
  <2>5. QED
    BY <2>3, <2>4
<1>3. QED
  BY <1>1, <1>2 DEF PlaceOK

\* An executor lets go of the task it has: leased, or in one of the queues.
LEMMA ExecutorLetsGo ==
  ASSUME NEW id \in Task, NEW e \in Executor, PlaceOK(id), With(e, id),
         tasks[id].state = "ready" =>
           \/ tasks'[id].state = "leased" /\ UNCHANGED queueVars
           \/ tasks'[id] = tasks[id] /\ ready' = ready \cup {id} /\ UNCHANGED delayed
           \/ /\ tasks'[id] = tasks[id] /\ UNCHANGED ready
              /\ \A entry \in delayed' : entry.task = id => entry.at = tasks[id].nextRunAt,
         tasks[id].state # "ready" => tasks'[id] = tasks[id],
         UNCHANGED tk, ~With(e, id)', \A f \in Executor \ {e} : ex'[f] = ex[f]
  PROVE  PlaceOK(id)'
<1>1. ~Nowhere(id)
  BY DEF Nowhere
<1>2. CASE tasks[id].state = "ready"
  <2>1. /\ id \notin ready /\ ~InDelayed(id) /\ ~InHand(id) /\ ~InList(id)
        /\ \A f \in Executor \ {e} : ~With(f, id)
    BY <1>2 DEF PlaceOK, InOnePlace
  <2>2. /\ ~InHand(id)' /\ ~InList(id)'
        /\ \A f \in Executor : ~With(f, id)'
    BY <2>1 DEF InHand, InList, With
  <2>3. CASE tasks'[id].state = "leased" /\ UNCHANGED queueVars
    <3>1. Nowhere(id)'
      BY <2>1, <2>2, <2>3 DEF Nowhere, InDelayed, queueVars
    <3>2. QED
      BY <2>3, <3>1 DEF PlaceOK
  <2>4. CASE tasks'[id] = tasks[id] /\ ready' = ready \cup {id} /\ UNCHANGED delayed
    <3>1. ~InDelayed(id)'
      BY <2>1, <2>4 DEF InDelayed
    <3>2. InOnePlace(id)' /\ InTime(id)'
      BY <2>2, <3>1 DEF InOnePlace, InTime, InDelayed
    <3>3. QED
      BY <1>2, <2>4, <3>2 DEF PlaceOK
  <2>5. CASE /\ tasks'[id] = tasks[id] /\ UNCHANGED ready
             /\ \A entry \in delayed' : entry.task = id => entry.at = tasks[id].nextRunAt
    <3>1. InOnePlace(id)' /\ InTime(id)'
      BY <2>1, <2>2, <2>5 DEF InOnePlace, InTime
    <3>2. QED
      BY <1>2, <2>5, <3>1 DEF PlaceOK
  <2>6. QED
    BY <1>2, <2>3, <2>4, <2>5
<1>3. CASE tasks[id].state # "ready"
  BY <1>1, <1>3 DEF PlaceOK
<1>4. QED
  BY <1>2, <1>3

\* ScheduleRetry makes an entry at the given time, unless there is one already.
LEMMA PushDelayedAt ==
  ASSUME NEW id \in Task, NEW at, PushDelayed(id, at)
  PROVE  /\ ~InDelayed(id) => \A entry \in delayed' : entry.task = id => entry.at = at
         /\ \A other \in Task \ {id}, entry \in delayed' :
              QueuesOK /\ entry.task = other => entry \in delayed
<1> DEFINE new == [task |-> id, at |-> at]
           moved(entry) == IF entry.task = id /\ entry.at > at
                             THEN [entry EXCEPT !.at = at] ELSE entry
<1>0. new.task = id /\ new.at = at
  OBVIOUS
<1>1. \/ ~InDelayed(id) /\ delayed' = delayed \cup {new}
      \/ InDelayed(id) /\ delayed' = {moved(entry) : entry \in delayed}
  BY DEF PushDelayed, InDelayed
<1>2. ASSUME QueuesOK, NEW entry \in delayed
      PROVE  /\ moved(entry).task = entry.task
             /\ entry.task # id => moved(entry) = entry
  BY <1>2 DEF QueuesOK, DelayedEntry
<1> HIDE DEF new, moved
<1>3. ~InDelayed(id) => \A entry \in delayed' : entry.task = id => entry.at = at
  BY <1>0, <1>1 DEF InDelayed
<1>4. ASSUME NEW other \in Task \ {id}, NEW entry \in delayed', QueuesOK, entry.task = other
      PROVE  entry \in delayed
  BY <1>0, <1>1, <1>2, <1>4
<1>5. QED
  BY <1>3, <1>4


\* Assign and RecordResult take each task from one place to the next.
LEMMA ExecutorPlaces ==
  ASSUME FenceInv, PickOK, PlacesOK, NEW e \in Executor, ExecutorRuns(e), NEW id \in Task
  PROVE  PlaceOK(id)'
<1>0. /\ StoreOK /\ QueuesOK /\ ExecutorsOK /\ VersionFence /\ LeaseFence /\ PlaceOK(id)
      /\ TypeInv /\ ExecutorStep(e) /\ UNCHANGED tk
  BY DEF FenceInv, TypeInv, PlacesOK, ExecutorRuns
<1>e. \A f \in Executor \ {e} : ex'[f] = ex[f]
  BY <1>0, ExecutorAlone
<1>f. ASSUME tasks'[id] = tasks[id], ready' \subseteq ready,
             \A entry \in delayed' : entry.task = id => entry \in delayed,
             ~With(e, id)'
      PROVE  PlaceOK(id)'
  <2>1. \A f \in Executor : With(f, id)' => With(f, id) /\ ex'[f] = ex[f]
    BY <1>e, <1>f DEF With
  <2>2. Fewer(id)
    BY <1>0, <1>f, <2>1 DEF Fewer, InHand, InList
  <2>3. QED
    BY <1>0, <1>f, <2>2, FewerIsOK
<1>g. ASSUME UNCHANGED <<tasks, queueVars>>, ex'[e].pc \notin {"popped", "repush", "schedule"}
      PROVE  PlaceOK(id)'
  BY <1>f, <1>g DEF With, queueVars
<1>1. CASE Pop(e)
  <2> PICK t \in Task : t = ex'[e].task
    BY <1>0, <1>1, PopFacts DEF QueuesOK
  <2>1. /\ ex'[e].pc = "popped" /\ t \in ready /\ ready' = ready \ {t}
        /\ UNCHANGED <<tasks, delayed>>
    BY <1>0, <1>1, PopFacts
  <2>2. CASE id = t
    BY <1>0, <1>e, <2>1, <2>2, ExecutorPops
  <2>3. CASE id # t
    BY <1>f, <2>1, <2>3 DEF With
  <2>4. QED
    BY <2>2, <2>3
<1>2. CASE PopNothing(e) \/ ReleaseLease(e)
  BY <1>0, <1>g, <1>2, IdleFacts DEF PopNothing, ReleaseLease
<1>3. CASE TakeReady(e)
  <2> PICK t \in Task : t = ex[e].task
    BY <1>0, <1>3, TakeFacts
  <2>1. /\ ex[e].pc = "popped" /\ ex'[e].pc \in {"picking", "again", "idle"}
        /\ UNCHANGED queueVars
        /\ \/ tasks[t].state = "ready" /\ tasks'[t].state = "leased" /\ Others(t)
           \/ tasks[t].state # "ready" /\ UNCHANGED tasks
    BY <1>0, <1>3, TakeFacts, EnterFacts
  <2>2. CASE id = t
    <3>1. With(e, id) /\ ~With(e, id)'
      BY <2>1, <2>2 DEF With
    <3>2. QED
      BY <1>0, <1>e, <2>1, <2>2, <3>1, ExecutorLetsGo
  <2>3. CASE id # t
    BY <1>f, <2>1, <2>3 DEF With, Others, queueVars
  <2>4. QED
    BY <2>2, <2>3
<1>4. CASE BindLease(e) \/ Finish(e) \/ CheckLease(e)
  <2>1. ex'[e].pc \in {"running", "check", "apply", "release"} /\ UNCHANGED <<tasks, queueVars>>
    BY <1>0, <1>4, BindFacts, FinishFacts, CheckFacts
  <2>2. QED
    BY <1>g, <2>1
<1>5. CASE PickFails(e)
  <2> PICK t \in Task : t = ex[e].task
    BY <1>0, <1>5, PickFailsFacts
  <2>1. /\ ex[e].pc = "picking" /\ ex'[e].pc = "repush" /\ ex'[e].task = t
        /\ UNCHANGED queueVars
        /\ \/ tasks[t].state = "leased" /\ tasks'[t].state = "ready" /\ Others(t)
           \/ ~CanTransition(t, "leased", ex[e].version) /\ UNCHANGED tasks
    BY <1>0, <1>5, PickFailsFacts, EnterFacts DEF Carries, CanTransition
  <2>2. CASE id # t
    BY <1>f, <2>1, <2>2 DEF With, Others, queueVars
  <2>3. CASE id = t /\ tasks[t].state = "leased" /\ tasks'[t].state = "ready" /\ Others(t)
    BY <1>0, <1>e, <2>1, <2>3, ExecutorMakesReady
  <2>4. CASE id = t /\ ~CanTransition(t, "leased", ex[e].version) /\ UNCHANGED tasks
    <3>1. ex[e].version = tasks[t].version => tasks[t].state = "leased"
      BY <1>0, <2>1 DEF VersionFence, HoldsVersion
    <3>2. tasks[t].state \in Terminal
      BY <2>1, <2>4, <3>1 DEF PickOK, CanTransition
    <3>3. QED
      BY <2>4, <3>2, TerminalIsOK
  <2>5. QED
    BY <2>1, <2>2, <2>3, <2>4
<1>6. CASE Repush(e)
  <2> PICK t \in Task : t = ex[e].task
    BY <1>0, <1>6 DEF Repush, ExecutorsOK
  <2>1. /\ ex[e].pc = "repush" /\ ex'[e].pc = "idle"
        /\ ready' = ready \cup {t} /\ UNCHANGED <<tasks, delayed>>
    BY <1>0, <1>6, IdleFacts DEF Repush, PushReady
  <2>2. CASE id = t
    <3>1. With(e, id) /\ ~With(e, id)'
      BY <2>1, <2>2 DEF With
    <3>2. QED
      BY <1>0, <1>e, <2>1, <2>2, <3>1, ExecutorLetsGo
  <2>3. CASE id # t
    <3>1. Fewer(id)
      BY <1>0, <1>e, <2>1, <2>3 DEF Fewer, With, InHand, InList
    <3>2. QED
      BY <1>0, <2>1, <3>1, FewerIsOK
  <2>4. QED
    BY <2>2, <2>3
<1>7. CASE ApplyResult(e)
  <2> PICK t \in Task : t = ex[e].task
    BY <1>0, <1>7, ApplyFacts
  <2>0. /\ ex[e].pc = "apply" /\ ex'[e].task = t /\ UNCHANGED queueVars
        /\ \/ /\ ex'[e].pc = "release"
              /\ Enter(t, "succeeded") \/ Enter(t, "dead") \/ UNCHANGED tasks
           \/ /\ ex'[e].pc = "schedule"
              /\ Retry(t, ex[e].now + RetryDelay, ex[e].seen)
    BY <1>0, <1>7, ApplyFacts DEF Carries
  <2>1. CASE ex'[e].pc = "release" /\ UNCHANGED tasks
    BY <1>g, <2>0, <2>1
  <2>2. ASSUME NEW to \in {"succeeded", "dead"}, ex'[e].pc = "release", Enter(t, to)
        PROVE  PlaceOK(id)'
    <3>1. tasks'[t].state \in Terminal /\ Others(t)
      BY <1>0, <2>2, EnterFacts DEF Terminal
    <3>2. CASE id = t
      BY <3>1, <3>2, TerminalIsOK
    <3>3. CASE id # t
      BY <1>f, <2>0, <2>2, <3>1, <3>3 DEF With, Others, queueVars
    <3>4. QED
      BY <3>2, <3>3
  <2>3. CASE ex'[e].pc = "schedule" /\ Retry(t, ex[e].now + RetryDelay, ex[e].seen)
    <3>1. /\ tasks[t].version = ex[e].seen /\ tasks'[t].state = "ready" /\ Others(t)
          /\ tasks'[t].nextRunAt = ex[e].now + RetryDelay
      BY <1>0, <2>3, RetryFacts
    <3>2. tasks[t].state = "leased"
      BY <1>0, <2>0, <3>1, RetryIsOwned
    <3>3. ex'[e].now = ex[e].now
      <4>1. ~ToRelease(e)
        BY <1>0, <2>3, ReleaseFacts
      <4>2. ex' = [ex EXCEPT ![e].pc = "schedule"]
        BY <1>7, <4>1 DEF ApplyResult, ApplyFinal, ApplyRetry
      <4>3. QED
        BY <1>0, <4>2 DEF ExecutorsOK, ExecutorLocal
    <3>4. CASE id = t
      BY <1>0, <1>e, <2>0, <3>1, <3>2, <3>3, <3>4, ExecutorMakesReady
    <3>5. CASE id # t
      BY <1>f, <2>0, <3>1, <3>5 DEF With, Others, queueVars
    <3>6. QED
      BY <3>4, <3>5
  <2>4. QED
    BY <2>0, <2>1, <2>2, <2>3
<1>8. CASE ScheduleRetry(e)
  <2> PICK t \in Task : t = ex[e].task
    BY <1>0, <1>8 DEF ScheduleRetry, ExecutorsOK
  <2>1. /\ ex[e].pc = "schedule" /\ ex'[e].pc = "release"
        /\ PushDelayed(t, ex[e].now + RetryDelay) /\ UNCHANGED <<tasks, ready>>
    BY <1>0, <1>8, ReleaseFacts DEF ScheduleRetry
  <2>2. CASE id = t
    <3>1. With(e, id) /\ ~With(e, id)'
      BY <2>1, <2>2 DEF With
    <3>2. ASSUME tasks[id].state = "ready"
          PROVE  \A entry \in delayed' : entry.task = id => entry.at = tasks[id].nextRunAt
      <4>1. ~InDelayed(id) /\ tasks[id].nextRunAt = ex[e].now + RetryDelay
        BY <1>0, <2>1, <3>1, <3>2 DEF PlaceOK, InOnePlace, InTime
      <4>2. QED
        BY <2>1, <2>2, <4>1, PushDelayedAt
    <3>3. QED
      BY <1>0, <1>e, <2>1, <3>1, <3>2, ExecutorLetsGo
  <2>3. CASE id # t
    <3>1. \A entry \in delayed' : entry.task = id => entry \in delayed
      BY <1>0, <2>1, <2>3, PushDelayedAt
    <3>2. QED
      BY <1>f, <2>1, <3>1 DEF With
  <2>4. QED
    BY <2>2, <2>3
<1>9. QED
  BY <1>0, <1>1, <1>2, <1>3, <1>4, <1>5, <1>6, <1>7, <1>8 DEF ExecutorStep

\* Registrations and cancellations put no task anywhere.
LEMMA ClientPlaces ==
  ASSUME FenceInv, RequestsOK, PlacesOK, NEW c \in Client, RequestArrives(c) \/ HandlerRuns(c),
         NEW id \in Task
  PROVE  PlaceOK(id)'
<1>0. /\ StoreOK /\ QueuesOK /\ ClientsOK /\ PlaceOK(id)
      /\ UNCHANGED <<ex, tk>>
  BY DEF FenceInv, TypeInv, PlacesOK, RequestArrives, HandlerRuns
<1>f. ASSUME tasks'[id] = tasks[id], ready' \subseteq ready, delayed' \subseteq delayed
      PROVE  PlaceOK(id)'
  <2>1. Fewer(id)
    BY <1>0, <1>f DEF Fewer, With, InHand, InList
  <2>2. QED
    BY <1>0, <1>f, <2>1, FewerIsOK
<1>1. ASSUME NEW t \in Task, RegisterSave(c, t) PROVE PlaceOK(id)'
  <2>1. /\ tasks[t].state = "none" /\ tasks'[t].state = "pending" /\ Others(t)
        /\ UNCHANGED queueVars
    BY <1>0, <1>1, InsertFacts DEF RegisterSave
  <2>2. CASE id = t
    <3>1. Nowhere(id)
      BY <1>0, <2>1, <2>2 DEF PlaceOK
    <3>2. Nowhere(id)'
      BY <1>0, <2>1, <3>1 DEF Nowhere, InDelayed, InHand, InList, With, queueVars
    <3>3. QED
      BY <2>1, <2>2, <3>2 DEF PlaceOK
  <2>3. CASE id # t
    BY <1>f, <2>1, <2>3 DEF Others, queueVars
  <2>4. QED
    BY <2>2, <2>3
<1>2. CASE CancelTransition(c)
  <2> PICK t \in Task : t = cl[c].task
    BY <1>0, <1>2 DEF CancelTransition, ClientsOK, WorkerPc
  <2>1. CASE Enter(t, "canceled")
    <3>1. tasks'[t].state \in Terminal /\ Others(t) /\ UNCHANGED queueVars
      BY <1>0, <1>2, <2>1, EnterFacts DEF CancelTransition, Terminal
    <3>2. CASE id = t
      BY <3>1, <3>2, TerminalIsOK
    <3>3. CASE id # t
      BY <1>f, <3>1, <3>3 DEF Others, queueVars
    <3>4. QED
      BY <3>2, <3>3
  <2>2. CASE UNCHANGED tasks
    BY <1>f, <1>2, <2>2 DEF CancelTransition, queueVars
  <2>3. QED
    BY <1>2, <2>1, <2>2 DEF CancelTransition, Transition
<1>3. CASE CancelUnready(c) \/ CancelUndelay(c)
  BY <1>f, <1>3 DEF CancelUnready, CancelUndelay, RemoveReady, RemoveDelayed
<1>4. ~TriggerMark(c) /\ ~TriggerPush(c) /\ ~CronSave(c)
  BY DEF RequestsOK, TriggerMark, TriggerPush, CronSave
<1>5. CASE UNCHANGED <<tasks, queueVars>>
  BY <1>f, <1>5 DEF queueVars
<1>6. QED
  BY <1>1, <1>2, <1>3, <1>4, <1>5
     DEF RequestArrives, HandlerRuns, Request, Handle, TriggerGet, CancelGet, CronGet,
         WorkerCalls, RegisterTrack, CronRefresh, CancelUntrack, EnrollWorker, HeartbeatMark,
         HeartbeatList, HeartbeatRenew

\* Every step leaves each task in at most one place, and on time.
LEMMA PlacesStep ==
  ASSUME FenceInv, RequestsOK, NoCronTick, PickOK, PlacesOK, [Next]_vars
  PROVE  PlacesOK'
<1> SUFFICES ASSUME NEW id \in Task PROVE PlaceOK(id)'
  BY DEF PlacesOK
<1>1. CASE UNCHANGED <<tasks, queueVars, tk, ex>>
  <2>1. PlaceOK(id) /\ Fewer(id)
    BY <1>1 DEF PlacesOK, Fewer, InHand, InList, With, queueVars
  <2>2. QED
    BY <1>1, <2>1, FewerIsOK
<1>2. QED
  BY <1>1, TickerPlaces, ExecutorPlaces, ClientPlaces
     DEF FenceInv, Next, vars, TimePasses, WorkerBeats

\* Nothing is Ready, leased or in progress when the service starts.
LEMMA BackoffInit == Init => BackoffInv
<1> SUFFICES ASSUME Init PROVE BackoffInv
  OBVIOUS
<1> USE DEF Init, InitStore, InitQueues, InitLeases, InitDispatch, InitExecution, InitApi,
        IdleTicker, IdleExecutor, IdleClient
<1>1. RequestsOK /\ NoCronTick /\ LeasesBehind /\ PickOK
  BY DEF RequestsOK, NoCronTick, LeasesBehind, PickOK
<1>2. PlacesOK
  BY DEF PlacesOK, PlaceOK, Nowhere, InDelayed, InHand, InList, With
<1>3. QED
  BY <1>1, <1>2 DEF BackoffInv

\* A failed task waits out its retry delay, for any number of executors: when its
\* entry in the delayed queue falls due, the run time its last Retry gave it has
\* come, although Push keeps the earlier time of an entry it finds.
THEOREM RetriesWaitTheirDelay ==
  ASSUME Undisturbed
  PROVE  Spec => []BackoffIsKept
<1>1. FenceInv /\ BackoffInv /\ [Next]_vars => BackoffInv'
  BY RequestsStep, NoCronTickStep, LeasesBehindStep, PickStep, PlacesStep DEF BackoffInv, FenceInv
<1>2. BackoffInv => BackoffIsKept
  BY DEF BackoffInv, PlacesOK, PlaceOK, InTime, BackoffIsKept
<1>3. QED
  BY <1>1, <1>2, BackoffInit, FenceIsInvariant, PTL DEF Spec
=============================================================================
