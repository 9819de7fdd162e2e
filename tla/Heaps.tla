------------------------------- MODULE Heaps -------------------------------
(***************************************************************************)
(* The ready queue and the delayed queue of internal/queue as they are     *)
(* built: a heap of entries and the set "present" of the tasks that have   *)
(* one.  Every method holds its queue's mutex throughout.  Module Queues   *)
(* is what the rest of the service sees of them.                           *)
(*                                                                         *)
(* Arguments are free within bounds: EnqueuedAt and the time PopDue is     *)
(* given were read from the clock some time before.                        *)
(***************************************************************************)
EXTENDS TaskModel, Sequences

VARIABLES
  entries, present,       \* ReadyQueue.entries and ReadyQueue.present
  waiting, scheduled,     \* DelayedQueue.entries and DelayedQueue.present
  call                    \* the last method call and what it returned

readyVars == <<entries, present>>
delayedVars == <<waiting, scheduled>>
heapVars == <<clock, readyVars, delayedVars, call>>

ReadyLess(a, b) ==
  IF a.priority # b.priority THEN a.priority > b.priority ELSE a.at < b.at

\* Mutant of DelayedLess: priority is looked at before the time.
DelayedLessByPriority(a, b) ==
  IF a.priority # b.priority THEN a.priority > b.priority ELSE a.at < b.at

DelayedLess(a, b) ==
  IF a.at # b.at THEN a.at < b.at ELSE a.priority > b.priority

ReadyHeap == INSTANCE BinaryHeap WITH Less <- ReadyLess
DelayedHeap == INSTANCE BinaryHeap WITH Less <- DelayedLess

EntryOf(id, at) == [task |-> id, priority |-> Priority[id], at |-> at]

Tasks(heap) == {heap[i].task : i \in DOMAIN heap}

Position(heap, id) == CHOOSE i \in DOMAIN heap : heap[i].task = id

Return(op, id, at, popped) == call' = [op |-> op, task |-> id, at |-> at, popped |-> popped]

HeapsInit ==
  /\ InitClock
  /\ entries = <<>> /\ present = {}
  /\ waiting = <<>> /\ scheduled = {}
  /\ call = [op |-> "none", task |-> NoTask, at |-> 0, popped |-> <<>>]

(***************************************************************************)
(* ReadyQueue.                                                             *)
(***************************************************************************)
ReadyPush(id, at) ==
  /\ \/ /\ id \in present
        /\ UNCHANGED readyVars
     \/ /\ id \notin present
        /\ present' = present \cup {id}
        /\ entries' = ReadyHeap!Push(entries, EntryOf(id, at))
  /\ Return("PushReady", id, at, <<>>)
  /\ UNCHANGED <<clock, delayedVars>>

ReadyPop ==
  /\ \/ /\ entries = <<>>
        /\ Return("PopReady", NoTask, 0, <<>>)
        /\ UNCHANGED readyVars
     \/ /\ entries # <<>>
        /\ entries' = ReadyHeap!Pop(entries)
        /\ present' = present \ {entries[1].task}
        /\ Return("PopReady", entries[1].task, 0, <<entries[1]>>)
  /\ UNCHANGED <<clock, delayedVars>>

\* Mutant of ReadyRemove: the task stays marked as present.
ReadyRemoveEntryOnly(id) ==
  /\ \/ /\ id \in present \cap Tasks(entries)
        /\ entries' = ReadyHeap!Remove(entries, Position(entries, id))
        /\ UNCHANGED present
     \/ /\ id \notin present \cap Tasks(entries)
        /\ UNCHANGED readyVars
  /\ Return("RemoveReady", id, 0, <<>>)
  /\ UNCHANGED <<clock, delayedVars>>

ReadyRemove(id) ==
  /\ \/ /\ id \in present \cap Tasks(entries)
        /\ entries' = ReadyHeap!Remove(entries, Position(entries, id))
        /\ present' = present \ {id}
     \/ /\ id \notin present \cap Tasks(entries)
        /\ UNCHANGED readyVars
  /\ Return("RemoveReady", id, 0, <<>>)
  /\ UNCHANGED <<clock, delayedVars>>

(***************************************************************************)
(* DelayedQueue.                                                           *)
(***************************************************************************)
\* Mutant of Earlier: the time changes and the entry keeps its place.
EarlierInPlace(heap, id, at) ==
  LET i == Position(heap, id)
  IN  IF heap[i].at > at THEN [heap EXCEPT ![i].at = at] ELSE heap

\* An entry already there moves to the earlier of the two times.
Earlier(heap, id, at) ==
  LET i == Position(heap, id)
  IN  IF heap[i].at > at THEN DelayedHeap!Fix([heap EXCEPT ![i].at = at], i) ELSE heap

DelayedPush(id, at) ==
  /\ \/ /\ id \in scheduled \cap Tasks(waiting)
        /\ waiting' = Earlier(waiting, id, at)
        /\ UNCHANGED scheduled
     \/ /\ id \notin scheduled \cap Tasks(waiting)
        /\ scheduled' = scheduled \cup {id}
        /\ waiting' = DelayedHeap!Push(waiting, EntryOf(id, at))
  /\ Return("PushDelayed", id, at, <<>>)
  /\ UNCHANGED <<clock, readyVars>>

\* The heap after the loop of PopDue, and the entries it has popped.
RECURSIVE Drain(_, _, _)
Drain(heap, now, out) ==
  IF heap # <<>> /\ heap[1].at <= now
    THEN Drain(DelayedHeap!Pop(heap), now, Append(out, heap[1]))
    ELSE [rest |-> heap, out |-> out]

DelayedPopDue(now) ==
  LET drained == Drain(waiting, now, <<>>)
  IN  /\ waiting' = drained.rest
      /\ scheduled' = scheduled \ Tasks(drained.out)
      /\ Return("PopDue", NoTask, now, drained.out)
      /\ UNCHANGED <<clock, readyVars>>

DelayedRemove(id) ==
  /\ \/ /\ id \in scheduled \cap Tasks(waiting)
        /\ waiting' = DelayedHeap!Remove(waiting, Position(waiting, id))
        /\ scheduled' = scheduled \ {id}
     \/ /\ id \notin scheduled \cap Tasks(waiting)
        /\ UNCHANGED delayedVars
  /\ Return("RemoveDelayed", id, 0, <<>>)
  /\ UNCHANGED <<clock, readyVars>>

HeapsNext ==
  \/ Advance /\ UNCHANGED <<readyVars, delayedVars, call>>
  \/ \E id \in Task, at \in 0..clock : ReadyPush(id, at)
  \/ ReadyPop
  \/ \E id \in Task : ReadyRemove(id)
  \/ \E id \in Task, at \in 0..MaxTime : DelayedPush(id, at)
  \/ \E now \in 0..clock : DelayedPopDue(now)
  \/ \E id \in Task : DelayedRemove(id)

HeapsSpec == HeapsInit /\ [][HeapsNext]_heapVars

-----------------------------------------------------------------------------

OneEntryEach(heap) == Cardinality(Tasks(heap)) = Len(heap)

\* The set that stops duplicates is the set of tasks that have an entry, and
\* every task has at most one: a task left in "present" without an entry could
\* never be queued again, one with two entries would be executed twice.
PresentAgrees ==
  /\ present = Tasks(entries) /\ OneEntryEach(entries)
  /\ scheduled = Tasks(waiting) /\ OneEntryEach(waiting)

ReadySet == Tasks(entries)
DelayedSet == {[task |-> waiting[i].task, at |-> waiting[i].at] : i \in DOMAIN waiting}

Q == INSTANCE Queues WITH ready <- ReadySet, delayed <- DelayedSet

\* What module Queues says of the method call just made.
Abstractly ==
  \/ /\ \/ call'.op = "PushReady" /\ Q!PushReady(call'.task)
        \/ call'.op = "PopReady" /\ ReadySet # {} /\ Q!PopReady(call'.task)
        \/ call'.op = "PopReady" /\ ReadySet = {} /\ UNCHANGED ReadySet
        \/ call'.op = "RemoveReady" /\ Q!RemoveReady(call'.task)
     /\ UNCHANGED DelayedSet
  \/ /\ \/ call'.op = "PushDelayed" /\ Q!PushDelayed(call'.task, call'.at)
        \/ /\ call'.op = "PopDue"
           /\ DelayedSet' = DelayedSet \ Q!DueEntries(call'.at)
           /\ Tasks(call'.popped) = {entry.task : entry \in Q!DueEntries(call'.at)}
        \/ call'.op = "RemoveDelayed" /\ Q!RemoveDelayed(call'.task)
     /\ UNCHANGED ReadySet

\* The heaps implement the sets of module Queues, call by call: Pop finds the
\* highest priority, PopDue leaves no due entry hidden behind one that is not,
\* however entries were merged, brought forward and removed from the middle.
ImplementsQueues == Q!InitQueues /\ [][Abstractly]_<<readyVars, delayedVars, call>>

\* Entries leave in order: of equal priorities the one enqueued earliest is
\* popped first, and PopDue returns the due entries earliest first, higher
\* priorities before lower ones.
PopsInOrder ==
  [][/\ call'.op = "PopReady" =>
          \A i \in DOMAIN call'.popped, j \in DOMAIN entries :
            LET top == call'.popped[i]
            IN  \/ top.priority > entries[j].priority
                \/ top.priority = entries[j].priority /\ top.at <= entries[j].at
     /\ call'.op = "PopDue" =>
          \A i, j \in DOMAIN call'.popped :
            i < j => LET a == call'.popped[i]
                         b == call'.popped[j]
                     IN  a.at < b.at \/ (a.at = b.at /\ a.priority >= b.priority)]_heapVars
=============================================================================
