------------------------------ MODULE Registry ------------------------------
(***************************************************************************)
(* The worker roster of internal/worker/registry.go.  Each method holds    *)
(* Registry.mu throughout, but the time it compares or stores was read by  *)
(* its caller before the lock was taken.  Workers are never removed.       *)
(***************************************************************************)
EXTENDS TaskModel, Sequences

CONSTANTS
  Worker,            \* identifiers of workers
  NoWorker,          \* stands for an unset worker identifier in a local variable
  HomeWorker,        \* "worker-1", which cmd/schedd registers and beats for itself
  HeartbeatWindow    \* cfg.HeartbeatWindow

ASSUME RegistryAssumption ==
  /\ HomeWorker \in Worker
  /\ HeartbeatWindow \in Nat

VARIABLES
  order,    \* Registry.order: the roster in the order of registration
  beat      \* LastHeartbeat of each worker on the roster

registryVars == <<order, beat>>

InitRegistry ==
  /\ order = <<HomeWorker>>
  /\ beat = [w \in Worker |-> 0]

Enrolled(w) == \E i \in DOMAIN order : order[i] = w

\* Register: a worker already on the roster keeps its place.
Register(w, at) ==
  /\ order' = IF Enrolled(w) THEN order ELSE Append(order, w)
  /\ beat' = [beat EXCEPT ![w] = at]

Heartbeat(w, at) ==
  /\ Enrolled(w)
  /\ beat' = [beat EXCEPT ![w] = at]
  /\ UNCHANGED order

\* The heartbeat goroutine of cmd/schedd.
HomeHeartbeat == Heartbeat(HomeWorker, clock)

IsLive(w, now) == beat[w] >= now - HeartbeatWindow

NoneLive(now) == \A i \in DOMAIN order : ~IsLive(order[i], now)

\* Pick always takes the first live worker of the roster.
Pick(w, now) ==
  \E i \in DOMAIN order :
    /\ order[i] = w
    /\ IsLive(w, now)
    /\ \A j \in 1..(i - 1) : ~IsLive(order[j], now)
=============================================================================
