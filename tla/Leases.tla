------------------------------- MODULE Leases -------------------------------
(***************************************************************************)
(* The lease table of internal/lease/manager.go: the leases and the index  *)
(* byTask from a task to the lease it is currently bound to.  Each         *)
(* operator is one critical section under Manager.mu.                      *)
(***************************************************************************)
EXTENDS TaskStore, Registry

VARIABLES
  leases,     \* the live leases, each with its own identifier
  byTask,     \* task -> identifier of its lease, or NoLease
  leaseSeq    \* idgen's sequence number as far as leases consume it

leaseVars == <<leases, byTask, leaseSeq>>

NoLease == 0

Lease == [id : Nat \ {0}, task : Task, worker : Worker, version : Nat, deadline : Time]

InitLeases ==
  /\ leases = {}
  /\ byTask = [id \in Task |-> NoLease]
  /\ leaseSeq = 0

\* Mutant of Bind: the version is read again instead of taken from the Transition.
BindVersionRead(id, w, v, now) ==
  /\ leaseSeq' = leaseSeq + 1
  /\ leases' = leases \cup {[id |-> leaseSeq', task |-> id, worker |-> w,
                             version |-> tasks[id].version, deadline |-> now + TTL]}
  /\ byTask' = [byTask EXCEPT ![id] = leaseSeq']

\* The tail of Assign: a fresh lease for version v of the task.
Bind(id, w, v, now) ==
  /\ leaseSeq' = leaseSeq + 1
  /\ leases' = leases \cup {[id |-> leaseSeq', task |-> id, worker |-> w,
                             version |-> v, deadline |-> now + TTL]}
  /\ byTask' = [byTask EXCEPT ![id] = leaseSeq']

\* What RecordResult requires of Current(id): it is lease lid, taken for version v.
IsCurrent(id, lid, v) ==
  \E l \in leases : l.id = byTask[id] /\ l.id = lid /\ l.version = v

\* Removing lease l clears the index entry of its task, whatever it holds.
DropLease(l) ==
  /\ leases' = leases \ {l}
  /\ byTask' = [byTask EXCEPT ![l.task] = NoLease]
  /\ UNCHANGED leaseSeq

Release(lid) ==
  \/ \E l \in leases : l.id = lid /\ DropLease(l)
  \/ /\ \A l \in leases : l.id # lid
     /\ UNCHANGED leaseVars

LeasesOf(w) == {l.id : l \in {m \in leases : m.worker = w}}

\* Renew reads the task while it holds Manager.mu; the lease of a task the
\* store does not hold any more is left as it is.
Renew(lid, w, now) ==
  \/ \E l \in leases :
       /\ l.id = lid
       /\ l.worker = w
       /\ \/ /\ tasks[l.task].state \in Absent
             /\ UNCHANGED leaseVars
          \/ /\ tasks[l.task].state \notin Absent
             /\ tasks[l.task].version # l.version
             /\ DropLease(l)
          \/ /\ tasks[l.task].state \notin Absent
             /\ tasks[l.task].version = l.version
             /\ leases' = (leases \ {l}) \cup {[l EXCEPT !.deadline = now + TTL]}
             /\ UNCHANGED <<byTask, leaseSeq>>
  \/ /\ \A l \in leases : l.id = lid => l.worker # w
     /\ UNCHANGED leaseVars

Expired(now) == {l \in leases : l.deadline < now}

\* Mutant of CollectExpired: the index is cleared and the leases stay.
CollectIndexOnly(now) ==
  /\ byTask' = [id \in Task |-> IF \E l \in Expired(now) : l.task = id
                                  THEN NoLease ELSE byTask[id]]
  /\ UNCHANGED <<leases, leaseSeq>>

\* The first half of ReapExpired: unhook every expired lease.
CollectExpired(now) ==
  /\ leases' = leases \ Expired(now)
  /\ byTask' = [id \in Task |-> IF \E l \in Expired(now) : l.task = id
                                  THEN NoLease ELSE byTask[id]]
  /\ UNCHANGED leaseSeq
=============================================================================
