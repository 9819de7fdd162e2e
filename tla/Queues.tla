------------------------------- MODULE Queues -------------------------------
(***************************************************************************)
(* The ready queue and the delayed queue, internal/queue.  Each method     *)
(* holds the queue's mutex throughout.  The heaps are abstracted to what   *)
(* their callers see: a set of queued tasks from which Pop takes one of    *)
(* the highest priority (ties, which EnqueuedAt breaks, are left open),    *)
(* and a set of timed entries from which PopDue takes all that are due.    *)
(***************************************************************************)
EXTENDS TaskModel

VARIABLES
  ready,     \* tasks with an entry in ReadyQueue (keys of "present")
  delayed    \* entries of DelayedQueue, [task, at]

queueVars == <<ready, delayed>>

DelayedEntry == [task : Task, at : Time]

InitQueues ==
  /\ ready = {}
  /\ delayed = {}

\* Mutant of PushReady: any queued task makes Push skip the new one.
PushReadyIfEmpty(id) == ready' = IF ready = {} THEN {id} ELSE ready

\* ReadyQueue.Push: a second entry for a queued task is skipped.
PushReady(id) == ready' = ready \cup {id}

PopReady(id) ==
  /\ id \in ready
  /\ \A other \in ready : Priority[other] <= Priority[id]
  /\ ready' = ready \ {id}

RemoveReady(id) == ready' = ready \ {id}

\* DelayedQueue.Push: an entry already there keeps the earlier time.
PushDelayed(id, at) ==
  LET old == {entry \in delayed : entry.task = id}
  IN  delayed' = IF old = {}
                   THEN delayed \cup {[task |-> id, at |-> at]}
                   ELSE {IF entry.task = id /\ entry.at > at
                           THEN [entry EXCEPT !.at = at] ELSE entry : entry \in delayed}

DueEntries(now) == {entry \in delayed : entry.at <= now}

RemoveDelayed(id) == delayed' = {entry \in delayed : entry.task # id}
=============================================================================
