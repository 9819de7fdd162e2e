-------------------------------- MODULE Api --------------------------------
(***************************************************************************)
(* The HTTP handlers of internal/api/handlers.go that change scheduling    *)
(* state.  net/http serves each request on a goroutine of its own, so a    *)
(* handler is a sequence of steps; a Client is one request slot, and their *)
(* number bounds how many requests are in progress at once.  Requests the  *)
(* handlers reject before their first change leave no trace and are not    *)
(* modelled.                                                               *)
(*                                                                         *)
(* cl[c].pc  "idle"                            no request in progress      *)
(*           "track"                           RegisterTask after Save     *)
(*           "mark" "push"                     Scheduler.TriggerNow        *)
(*           "cancel" "unready" "undelay" "untrack"     Scheduler.Cancel   *)
(*           "save" "refresh"                  UpdateCron                  *)
(*           "enroll"                          RegisterWorker              *)
(*           "beat" "list" "renew"             Heartbeat                   *)
(***************************************************************************)
EXTENDS Dispatch

CONSTANTS
  Client,
  Ops        \* the requests clients make besides RegisterTask

VARIABLE cl

ClientPc == {"idle", "track", "mark", "push", "cancel", "unready", "undelay", "untrack",
             "save", "refresh", "enroll", "beat", "list", "renew"}

ClientLocal == [pc : ClientPc, task : Task \cup {NoTask}, state : TaskState, version : Nat,
                retries : Nat, at : Time, worker : Worker \cup {NoWorker}, todo : SUBSET Nat]

ASSUME OpsAssumption ==
  Ops \subseteq {"trigger", "cancel", "update-cron", "heartbeat", "register-worker"}

IdleClient == [pc |-> "idle", task |-> NoTask, state |-> "none", version |-> 0,
               retries |-> 0, at |-> 0, worker |-> NoWorker, todo |-> {}]

InitApi == cl = [c \in Client |-> IdleClient]

Goto(c, pc) == cl' = [cl EXCEPT ![c].pc = pc]

Done(c) == cl' = [cl EXCEPT ![c] = IdleClient]

Begin(c, op) == op \in Ops /\ cl[c].pc = "idle"

(***************************************************************************)
(* RegisterTask: a fresh identifier, due now or later (validation rejects  *)
(* a "once" task in the past), is saved and then tracked.                  *)
(***************************************************************************)
FirstRun(id, now) == IF id \in CronTask THEN CronNext(now) ELSE {t \in Time : t >= now}

RegisterSave(c, id) ==
  /\ cl[c].pc = "idle"
  /\ \E at \in 0..MaxTime :
       /\ at \in FirstRun(id, clock)
       /\ Insert(id, at)
       /\ cl' = [cl EXCEPT ![c] = [@ EXCEPT !.pc = "track", !.task = id, !.at = at]]
  /\ UNCHANGED <<queueVars, leaseVars, registryVars, nextFire>>

RegisterTrack(c) ==
  /\ cl[c].pc = "track"
  /\ SetNextFire(cl[c].task, cl[c].at)
  /\ Done(c)
  /\ UNCHANGED <<tasks, queueVars, leaseVars, registryVars>>

(***************************************************************************)
(* Scheduler.TriggerNow: the outcome of MarkReady does not decide whether  *)
(* the task is pushed.                                                     *)
(***************************************************************************)
TriggerGet(c, id) ==
  /\ Begin(c, "trigger")
  /\ tasks[id].state \in {"pending", "ready"}
  /\ cl' = [cl EXCEPT ![c] = [@ EXCEPT !.pc = "mark", !.task = id]]
  /\ UNCHANGED <<tasks, queueVars, leaseVars, registryVars, nextFire>>

TriggerMark(c) ==
  /\ cl[c].pc = "mark"
  /\ \/ MarkReady(cl[c].task)
     \/ tasks[cl[c].task].state # "pending" /\ UNCHANGED tasks
  /\ Goto(c, "push")
  /\ UNCHANGED <<queueVars, leaseVars, registryVars, nextFire>>

TriggerPush(c) ==
  /\ cl[c].pc = "push"
  /\ PushReady(cl[c].task)
  /\ Done(c)
  /\ UNCHANGED <<tasks, delayed, leaseVars, registryVars, nextFire>>

(***************************************************************************)
(* Scheduler.Cancel.                                                       *)
(***************************************************************************)
CancelGet(c, id) ==
  /\ Begin(c, "cancel")
  /\ tasks[id].state \notin Terminal \cup Absent
  /\ cl' = [cl EXCEPT ![c] = [@ EXCEPT !.pc = "cancel", !.task = id,
                                !.state = tasks[id].state,
                                !.version = tasks[id].version]]
  /\ UNCHANGED <<tasks, queueVars, leaseVars, registryVars, nextFire>>

\* Mutant of CancelTransition: the clean-up follows whatever the outcome.
CancelTransitionIgnored(c) ==
  /\ cl[c].pc = "cancel"
  /\ \/ Transition(cl[c].task, cl[c].state, "canceled", cl[c].version)
     \/ /\ ~CanTransition(cl[c].task, cl[c].state, cl[c].version)
        /\ UNCHANGED tasks
  /\ cl' = [cl EXCEPT ![c] = [IdleClient EXCEPT !.pc = "unready", !.task = cl[c].task]]
  /\ UNCHANGED <<queueVars, leaseVars, registryVars, nextFire>>

CancelTransition(c) ==
  /\ cl[c].pc = "cancel"
  /\ \/ /\ Transition(cl[c].task, cl[c].state, "canceled", cl[c].version)
        /\ cl' = [cl EXCEPT ![c] = [IdleClient EXCEPT !.pc = "unready", !.task = cl[c].task]]
     \/ /\ ~CanTransition(cl[c].task, cl[c].state, cl[c].version)
        /\ Done(c)
        /\ UNCHANGED tasks
  /\ UNCHANGED <<queueVars, leaseVars, registryVars, nextFire>>

CancelUnready(c) ==
  /\ cl[c].pc = "unready"
  /\ RemoveReady(cl[c].task)
  /\ Goto(c, "undelay")
  /\ UNCHANGED <<tasks, delayed, leaseVars, registryVars, nextFire>>

CancelUndelay(c) ==
  /\ cl[c].pc = "undelay"
  /\ RemoveDelayed(cl[c].task)
  /\ Goto(c, "untrack")
  /\ UNCHANGED <<tasks, ready, leaseVars, registryVars, nextFire>>

CancelUntrack(c) ==
  /\ cl[c].pc = "untrack"
  /\ SetNextFire(cl[c].task, Untracked)
  /\ Done(c)
  /\ UNCHANGED <<tasks, queueVars, leaseVars, registryVars>>

(***************************************************************************)
(* UpdateCron: a copy of the task is read, changed and saved back.         *)
(***************************************************************************)
CronGet(c, id) ==
  /\ Begin(c, "update-cron")
  /\ id \in CronTask
  /\ tasks[id].state \notin Absent
  /\ tasks[id].version < MaxVersion
  /\ \E at \in CronNext(clock) :
       /\ at <= MaxTime
       /\ cl' = [cl EXCEPT ![c] = [@ EXCEPT !.pc = "save", !.task = id, !.at = at,
                                     !.state = tasks[id].state,
                                     !.retries = tasks[id].retriesLeft]]
  /\ UNCHANGED <<tasks, queueVars, leaseVars, registryVars, nextFire>>

\* Mutant of CronSave: the fire index is not refreshed.
CronSaveOnly(c) ==
  /\ cl[c].pc = "save"
  /\ \/ Overwrite(cl[c].task, cl[c].retries, cl[c].at)
     \/ tasks[cl[c].task].state = "canceled" /\ UNCHANGED tasks
  /\ Done(c)
  /\ UNCHANGED <<queueVars, leaseVars, registryVars, nextFire>>

\* Save refuses a canceled task and, for a task removed meanwhile, a name
\* that another task has taken since.
CronSave(c) ==
  /\ cl[c].pc = "save"
  /\ \/ /\ \/ Overwrite(cl[c].task, cl[c].retries, cl[c].at)
           \/ InsertCopy(cl[c].task, cl[c].state, cl[c].retries, cl[c].at)
        /\ Goto(c, "refresh")
     \/ /\ tasks[cl[c].task].state \in Absent \cup {"canceled"}
        /\ Done(c)
        /\ UNCHANGED tasks
  /\ UNCHANGED <<queueVars, leaseVars, registryVars, nextFire>>

CronRefresh(c) ==
  /\ cl[c].pc = "refresh"
  /\ SetNextFire(cl[c].task, cl[c].at)
  /\ Done(c)
  /\ UNCHANGED <<tasks, queueVars, leaseVars, registryVars>>

(***************************************************************************)
(* RegisterWorker and Heartbeat read the clock before they reach the lock  *)
(* of the roster.                                                          *)
(***************************************************************************)
WorkerCalls(c, op, pc, w) ==
  /\ Begin(c, op)
  /\ cl' = [cl EXCEPT ![c] = [@ EXCEPT !.pc = pc, !.worker = w, !.at = clock]]
  /\ UNCHANGED <<tasks, queueVars, leaseVars, registryVars, nextFire>>

EnrollWorker(c) ==
  /\ cl[c].pc = "enroll"
  /\ Register(cl[c].worker, cl[c].at)
  /\ Done(c)
  /\ UNCHANGED <<tasks, queueVars, leaseVars, nextFire>>

(***************************************************************************)
(* Heartbeat: the leases of the worker are listed, then renewed one by     *)
(* one, up to a time read before they were listed.                         *)
(***************************************************************************)
HeartbeatMark(c) ==
  /\ cl[c].pc = "beat"
  /\ \/ /\ Heartbeat(cl[c].worker, cl[c].at)
        /\ cl' = [cl EXCEPT ![c] = [@ EXCEPT !.pc = "list", !.at = clock]]
     \/ /\ ~Enrolled(cl[c].worker)
        /\ Done(c)
        /\ UNCHANGED registryVars
  /\ UNCHANGED <<tasks, queueVars, leaseVars, nextFire>>

HeartbeatList(c) ==
  /\ cl[c].pc = "list"
  /\ LET todo == LeasesOf(cl[c].worker)
     IN  IF todo = {} THEN Done(c)
                      ELSE cl' = [cl EXCEPT ![c] = [@ EXCEPT !.pc = "renew", !.todo = todo]]
  /\ UNCHANGED <<tasks, queueVars, leaseVars, registryVars, nextFire>>

HeartbeatRenew(c) ==
  /\ cl[c].pc = "renew"
  /\ \E lid \in cl[c].todo :
       /\ Renew(lid, cl[c].worker, cl[c].at)
       /\ IF cl[c].todo = {lid} THEN Done(c)
                                ELSE cl' = [cl EXCEPT ![c].todo = @ \ {lid}]
  /\ UNCHANGED <<tasks, queueVars, registryVars, nextFire>>

\* The steps that start a request, and the steps that carry one on.
Request(c) ==
  \/ \E id \in Task : RegisterSave(c, id)
  \/ \E id \in Task : TriggerGet(c, id)
  \/ \E id \in Task : CancelGet(c, id)
  \/ \E id \in CronTask : CronGet(c, id)
  \/ \E w \in Worker : WorkerCalls(c, "register-worker", "enroll", w)
  \/ \E w \in Worker : WorkerCalls(c, "heartbeat", "beat", w)

Handle(c) ==
  \/ RegisterTrack(c)
  \/ TriggerMark(c)
  \/ TriggerPush(c)
  \/ CancelTransition(c)
  \/ CancelUnready(c)
  \/ CancelUndelay(c)
  \/ CancelUntrack(c)
  \/ CronSave(c)
  \/ CronRefresh(c)
  \/ EnrollWorker(c)
  \/ HeartbeatMark(c)
  \/ HeartbeatList(c)
  \/ HeartbeatRenew(c)
=============================================================================
