--------------------------- MODULE TaskLifecycle ---------------------------
(***************************************************************************)
(* What the scheduler promises about one task, whatever its goroutines do: *)
(* the life of a task in the states of model.TaskState and the budget of   *)
(* retries it is registered with.  Leases, queues, versions and the fire   *)
(* index are the means; module Schedd shows that they implement this.      *)
(***************************************************************************)
EXTENDS Naturals

CONSTANTS Task, CronTask, MaxRetries

VARIABLE life      \* task -> [state, retriesLeft]

Unborn == [state |-> "none", retriesLeft |-> MaxRetries]

Init == life = [id \in Task |-> Unborn]

Moves(id, from, to) ==
  /\ life[id].state = from
  /\ life' = [life EXCEPT ![id].state = to]

Register(id) == Moves(id, "none", "pending")

Start(id) == Moves(id, "pending", "ready")

Take(id) == Moves(id, "ready", "leased")

\* The lease expired, or no worker was there to hold it.
GiveBack(id) == Moves(id, "leased", "ready")

\* The execution failed and a retry is left.
Retry(id) ==
  /\ life[id].state = "leased"
  /\ life[id].retriesLeft > 0
  /\ life' = [life EXCEPT ![id] = [state |-> "ready", retriesLeft |-> @.retriesLeft - 1]]

Succeed(id) == Moves(id, "leased", "succeeded")

\* The execution failed and no retry is left.
Die(id) == life[id].retriesLeft = 0 /\ Moves(id, "leased", "dead")

Cancel(id) == \E from \in {"pending", "ready", "leased"} : Moves(id, from, "canceled")

\* An update of a cron task writes back a retry budget read some time before.
Amend(id) ==
  /\ id \in CronTask
  /\ life[id].state # "none"
  /\ \E left \in 0..MaxRetries : life' = [life EXCEPT ![id].retriesLeft = left]

Next ==
  \E id \in Task :
    \/ Register(id)
    \/ Start(id)
    \/ Take(id)
    \/ GiveBack(id)
    \/ Retry(id)
    \/ Succeed(id)
    \/ Die(id)
    \/ Cancel(id)
    \/ Amend(id)

Spec == Init /\ [][Next]_life

\* No task stays for ever in a state that is not terminal.
Leave(id) ==
  \/ Start(id)
  \/ Take(id)
  \/ GiveBack(id)
  \/ Retry(id)
  \/ Succeed(id)
  \/ Die(id)
  \/ Cancel(id)

FairSpec == Spec /\ \A id \in Task : WF_life(Leave(id))
=============================================================================
