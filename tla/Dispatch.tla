------------------------------ MODULE Dispatch ------------------------------
(***************************************************************************)
(* The ticker goroutine of cmd/schedd/main.go: on every tick it runs       *)
(* Scheduler.Tick (internal/dispatch/scheduler.go) and then                *)
(* Manager.ReapExpired (internal/lease/manager.go).  Both work through     *)
(* lists they took under a lock they no longer hold, so every store and    *)
(* queue call is a step of its own, and other goroutines run in between.   *)
(*                                                                         *)
(* tk.now is Tick's argument, used up by PopDue; tk.cur is the task in     *)
(* hand, tk.next its new fire time; tk.todo and tk.expired what is left of *)
(* the list a loop works through.                                          *)
(*                                                                         *)
(* tk.pc      "due"         Tick's first loop; tk.todo holds the due ids   *)
(*            "drop"        the store does not know the task: untrack it   *)
(*            "mark"        the task was Pending, MarkReady is next        *)
(*            "push"        MarkReady succeeded, ready.Push is next        *)
(*            "next" "fire" a cron task's SetNextRun, then SetNextFire     *)
(*            "entries"     Tick's second loop; tk.todo: popped entries    *)
(*            "pushEntry"   a popped entry was Ready, ready.Push is next   *)
(*            "expired"     ReapExpired's second loop, over tk.expired     *)
(*            "pushReaped"  a task went back to Ready, ready.Push is next  *)
(***************************************************************************)
EXTENDS Leases, Queues

VARIABLES
  nextFire,   \* Scheduler.nextFire: task -> fire time, or Untracked
  tk          \* local state of the ticker goroutine

Untracked == -1

TickerPc == {"due", "drop", "mark", "push", "next", "fire", "entries", "pushEntry", "expired",
             "pushReaped"}

TickerLocal == [pc : TickerPc, now : Time, todo : SUBSET Task, expired : SUBSET Lease,
                cur : Task \cup {NoTask}, next : Time]

IdleTicker == [pc |-> "expired", now |-> 0, todo |-> {}, expired |-> {},
               cur |-> NoTask, next |-> 0]

InitDispatch ==
  /\ nextFire = [id \in Task |-> Untracked]
  /\ tk = IdleTicker

\* Scheduler.Track, RefreshCron and SetNextFire are the same assignment.
SetNextFire(id, at) == nextFire' = [nextFire EXCEPT ![id] = at]

DueTasks(now) == {id \in Task : nextFire[id] # Untracked /\ nextFire[id] <= now}

(***************************************************************************)
(* Scheduler.Tick, first loop: due tasks.                                  *)
(***************************************************************************)
TickScan ==
  /\ tk = IdleTicker
  /\ tk' = [tk EXCEPT !.pc = "due", !.now = clock, !.todo = DueTasks(clock)]
  /\ UNCHANGED <<tasks, queueVars, leaseVars, nextFire>>

\* The state is read here; MarkReady decides on it again.
TickGet(id) ==
  /\ tk.pc = "due" /\ id \in tk.todo
  /\ \/ /\ tasks[id].state = "pending"
        /\ tk' = [tk EXCEPT !.pc = "mark", !.todo = @ \ {id}, !.cur = id]
     \/ /\ tasks[id].state \in Absent
        /\ tk' = [tk EXCEPT !.pc = "drop", !.todo = @ \ {id}, !.cur = id]
     \/ /\ tasks[id].state \notin Absent \cup {"pending"}
        /\ tk' = [tk EXCEPT !.todo = @ \ {id}]
  /\ UNCHANGED <<tasks, queueVars, leaseVars, nextFire>>

\* Mutant of TickDrop: the entry of a removed task stays in the index.
TickDropKeeps ==
  /\ tk.pc = "drop"
  /\ tk' = [tk EXCEPT !.pc = "due", !.cur = NoTask]
  /\ UNCHANGED <<tasks, queueVars, leaseVars, nextFire>>

TickDrop ==
  /\ tk.pc = "drop"
  /\ SetNextFire(tk.cur, Untracked)
  /\ tk' = [tk EXCEPT !.pc = "due", !.cur = NoTask]
  /\ UNCHANGED <<tasks, queueVars, leaseVars>>

TickMark ==
  /\ tk.pc = "mark"
  /\ \/ /\ MarkReady(tk.cur)
        /\ tk' = [tk EXCEPT !.pc = "push"]
     \/ /\ tasks[tk.cur].state # "pending"
        /\ tk' = [tk EXCEPT !.pc = "due", !.cur = NoTask]
        /\ UNCHANGED tasks
  /\ UNCHANGED <<queueVars, leaseVars, nextFire>>

TickPush ==
  /\ tk.pc = "push"
  /\ PushReady(tk.cur)
  /\ tk' = IF tk.cur \in CronTask THEN [tk EXCEPT !.pc = "next"]
                                  ELSE [tk EXCEPT !.pc = "due", !.cur = NoTask]
  /\ UNCHANGED <<tasks, delayed, leaseVars, nextFire>>

\* The fire time computed here is the one the following step copies; a task
\* removed meanwhile keeps the old entry in the index.
TickSetNextRun ==
  /\ tk.pc = "next"
  /\ \/ \E next \in CronNext(tk.now) :
          /\ SetNextRun(tk.cur, next)
          /\ tk' = [tk EXCEPT !.pc = "fire", !.next = next]
     \/ /\ tasks[tk.cur].state \in Absent
        /\ tk' = [tk EXCEPT !.pc = "due", !.cur = NoTask]
        /\ UNCHANGED tasks
  /\ UNCHANGED <<queueVars, leaseVars, nextFire>>

TickSetFire ==
  /\ tk.pc = "fire"
  /\ SetNextFire(tk.cur, tk.next)
  /\ tk' = [tk EXCEPT !.pc = "due", !.cur = NoTask, !.next = 0]
  /\ UNCHANGED <<tasks, queueVars, leaseVars>>

(***************************************************************************)
(* Scheduler.Tick, second loop: delayed retries.                           *)
(***************************************************************************)
\* Mutant of TickPopDue: the entries that are due are handed out and stay queued.
TickPopDueStays ==
  /\ tk.pc = "due" /\ tk.todo = {}
  /\ tk' = [tk EXCEPT !.pc = "entries", !.now = 0,
                      !.todo = {entry.task : entry \in DueEntries(tk.now)}]
  /\ UNCHANGED <<tasks, queueVars, leaseVars, nextFire>>

TickPopDue ==
  /\ tk.pc = "due" /\ tk.todo = {}
  /\ delayed' = delayed \ DueEntries(tk.now)
  /\ tk' = [tk EXCEPT !.pc = "entries", !.now = 0,
                      !.todo = {entry.task : entry \in DueEntries(tk.now)}]
  /\ UNCHANGED <<tasks, ready, leaseVars, nextFire>>

\* Mutant of TickEntry: delayed tasks are expected to be Pending.
TickEntryIfPending(id) ==
  /\ tk.pc = "entries" /\ id \in tk.todo
  /\ \/ /\ tasks[id].state = "pending"
        /\ tk' = [tk EXCEPT !.pc = "pushEntry", !.todo = @ \ {id}, !.cur = id]
     \/ /\ tasks[id].state # "pending"
        /\ tk' = [tk EXCEPT !.todo = @ \ {id}]
  /\ UNCHANGED <<tasks, queueVars, leaseVars, nextFire>>

\* The state is read here and acted upon in the next step.
TickEntry(id) ==
  /\ tk.pc = "entries" /\ id \in tk.todo
  /\ \/ /\ tasks[id].state = "ready"
        /\ tk' = [tk EXCEPT !.pc = "pushEntry", !.todo = @ \ {id}, !.cur = id]
     \/ /\ tasks[id].state # "ready"
        /\ tk' = [tk EXCEPT !.todo = @ \ {id}]
  /\ UNCHANGED <<tasks, queueVars, leaseVars, nextFire>>

\* Mutant of TickPushEntry: the loop ends with the first push.
TickPushEntryOnce ==
  /\ tk.pc = "pushEntry"
  /\ PushReady(tk.cur)
  /\ tk' = [tk EXCEPT !.pc = "entries", !.cur = NoTask, !.todo = {}]
  /\ UNCHANGED <<tasks, delayed, leaseVars, nextFire>>

TickPushEntry ==
  /\ tk.pc = "pushEntry"
  /\ PushReady(tk.cur)
  /\ tk' = [tk EXCEPT !.pc = "entries", !.cur = NoTask]
  /\ UNCHANGED <<tasks, delayed, leaseVars, nextFire>>

(***************************************************************************)
(* Manager.ReapExpired.                                                    *)
(***************************************************************************)
ReapCollect ==
  /\ tk.pc = "entries" /\ tk.todo = {}
  /\ CollectExpired(clock)
  /\ tk' = [tk EXCEPT !.pc = "expired", !.expired = Expired(clock)]
  /\ UNCHANGED <<tasks, queueVars, nextFire>>

\* Mutant of ReapRequeue: the lease is taken to carry the version before its own bump.
ReapRequeueOffByOne(l) ==
  /\ tk.pc = "expired" /\ l \in tk.expired
  /\ \/ /\ Transition(l.task, "leased", "ready", l.version + 1)
        /\ tk' = [tk EXCEPT !.pc = "pushReaped", !.expired = @ \ {l}, !.cur = l.task]
     \/ /\ ~CanTransition(l.task, "leased", l.version + 1)
        /\ tk' = [tk EXCEPT !.expired = @ \ {l}]
        /\ UNCHANGED tasks
  /\ UNCHANGED <<queueVars, leaseVars, nextFire>>

\* Get, the comparison with the lease's version and the guarded Transition
\* are one compare-and-set.
ReapRequeue(l) ==
  /\ tk.pc = "expired" /\ l \in tk.expired
  /\ \/ /\ Transition(l.task, "leased", "ready", l.version)
        /\ tk' = [tk EXCEPT !.pc = "pushReaped", !.expired = @ \ {l}, !.cur = l.task]
     \/ /\ ~CanTransition(l.task, "leased", l.version)
        /\ tk' = [tk EXCEPT !.expired = @ \ {l}]
        /\ UNCHANGED tasks
  /\ UNCHANGED <<queueVars, leaseVars, nextFire>>

ReapPush ==
  /\ tk.pc = "pushReaped"
  /\ PushReady(tk.cur)
  /\ tk' = [tk EXCEPT !.pc = "expired", !.cur = NoTask]
  /\ UNCHANGED <<tasks, delayed, leaseVars, nextFire>>

Ticker ==
  \/ TickScan
  \/ \E id \in tk.todo : TickGet(id)
  \/ TickDrop
  \/ TickMark
  \/ TickPush
  \/ TickSetNextRun
  \/ TickSetFire
  \/ TickPopDue
  \/ \E id \in tk.todo : TickEntry(id)
  \/ TickPushEntry
  \/ ReapCollect
  \/ \E l \in tk.expired : ReapRequeue(l)
  \/ ReapPush
=============================================================================
