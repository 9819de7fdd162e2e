---------------------------- MODULE LeaseProofs ----------------------------
(***************************************************************************)
(* The lease table: what it holds belongs to somebody, and with the one    *)
(* executor cmd/schedd runs a Leased task can always come back.            *)
(***************************************************************************)
EXTENDS LifecycleProofs

(***************************************************************************)
(* The inductive invariant of the table, for any number of executors.      *)
(***************************************************************************)
\* idgen never issues an identifier twice.
LeaseIds == \A l, m \in leases : l.id = m.id => l = m

\* Every lease is in the hands of an executor, which releases it in the end.
Held == \A l \in leases : \E e \in Executor : ex[e].lease = l.id /\ ex[e].task = l.task

\* byTask points at leases of the table only, each of its task.
IndexSound ==
  \A id \in Task : byTask[id] # NoLease => \E l \in leases : l.id = byTask[id] /\ l.task = id

\* Between Pop and BindLease an executor has no lease to lose.
NoLeaseYet ==
  \A e \in Executor :
    ex[e].pc \in {"idle", "popped", "again", "picking", "repush"} => ex[e].lease = NoLease

TableInv == LeaseIds /\ IndexSound /\ Held /\ NoLeaseYet

(***************************************************************************)
(* What the operations of Manager do to the table.                         *)
(***************************************************************************)
Same(l, m) == l.id = m.id /\ l.task = m.task /\ l.version = m.version

\* Nothing happens to the table but a new deadline.
TableKept ==
  /\ \A m \in leases' : \E l \in leases : Same(l, m)
  /\ \A l \in leases : \E m \in leases' : Same(l, m)
  /\ byTask' = byTask
  /\ LeaseIds'

\* A table that does not change is kept.
LEMMA UnchangedKept ==
  ASSUME LeaseIds, UNCHANGED leaseVars
  PROVE  TableKept
BY DEF TableKept, Same, LeaseIds, leaseVars

\* Manager.Renew extends a lease, drops a stale one, or leaves the table alone.
LEMMA RenewFacts ==
  ASSUME LeasesOK, LeaseIds, NEW lid, NEW w, NEW now, Renew(lid, w, now)
  PROVE  \/ TableKept
         \/ \E l \in leases : DropLease(l) /\ tasks[l.task].version # l.version
<1>1. ASSUME NEW l \in leases, leases' = (leases \ {l}) \cup {[l EXCEPT !.deadline = now + TTL]},
             UNCHANGED byTask
      PROVE  TableKept
  <2> DEFINE m == [l EXCEPT !.deadline = now + TTL]
  <2>1. Same(l, m)
    BY DEF Same, LeasesOK, Lease
  <2>2. leases' = (leases \ {l}) \cup {m}
    BY <1>1
  <2> HIDE DEF m
  <2>3. \A k \in leases : Same(k, k)
    BY DEF Same
  <2>4. LeaseIds'
    BY <2>1, <2>2 DEF LeaseIds, Same
  <2>5. QED
    BY <1>1, <2>1, <2>2, <2>3, <2>4 DEF TableKept
<1>2. QED
  BY <1>1, UnchangedKept DEF Renew

\* Deadlines do not matter to the index.
LEMMA KeptIndexed ==
  ASSUME TableKept, IndexSound
  PROVE  IndexSound'
BY DEF TableKept, IndexSound, Same

\* Dropping a lease takes it out of both maps and leaves the others alone.
LEMMA DropIndexed ==
  ASSUME LeasesOK, LeaseIds, IndexSound, NEW l \in leases, DropLease(l)
  PROVE  LeaseIds' /\ IndexSound' /\ leases' = leases \ {l}
<1>1. leases' = leases \ {l} /\ byTask' = [byTask EXCEPT ![l.task] = NoLease] /\ l.task \in Task
  BY DEF DropLease, LeasesOK, Lease
<1>2. LeaseIds'
  BY <1>1 DEF LeaseIds
<1>3. ASSUME NEW id \in Task, byTask'[id] # NoLease
      PROVE  \E m \in leases' : m.id = byTask'[id] /\ m.task = id
  <2>1. id # l.task /\ byTask'[id] = byTask[id]
    BY <1>1, <1>3 DEF LeasesOK
  <2>2. PICK m \in leases : m.id = byTask[id] /\ m.task = id
    BY <1>3, <2>1 DEF IndexSound
  <2>3. QED
    BY <1>1, <2>1, <2>2
<1>4. QED
  BY <1>1, <1>2, <1>3 DEF IndexSound

\* The reaper unhooks every expired lease from both maps.
LEMMA CollectIndexed ==
  ASSUME LeasesOK, LeaseIds, IndexSound, NEW now, CollectExpired(now)
  PROVE  LeaseIds' /\ IndexSound' /\ leases' = leases \ Expired(now)
<1>1. leases' = leases \ Expired(now)
  BY DEF CollectExpired
<1>2. LeaseIds'
  BY <1>1 DEF LeaseIds
<1>3. ASSUME NEW id \in Task, byTask'[id] # NoLease
      PROVE  \E m \in leases' : m.id = byTask'[id] /\ m.task = id
  <2>1. byTask'[id] = byTask[id] /\ \A l \in Expired(now) : l.task # id
    BY <1>3 DEF CollectExpired
  <2>2. PICK m \in leases : m.id = byTask[id] /\ m.task = id
    BY <1>3, <2>1 DEF IndexSound
  <2>3. QED
    BY <1>1, <2>1, <2>2
<1>4. QED
  BY <1>1, <1>2, <1>3 DEF IndexSound

\* A new lease has an identifier of its own and is the one its task is bound to.
LEMMA BindIndexed ==
  ASSUME LeasesOK, LeaseIds, IndexSound, \A l \in leases : l.id <= leaseSeq,
         NEW id \in Task, NEW w, NEW v, NEW now, Bind(id, w, v, now)
  PROVE  /\ LeaseIds' /\ IndexSound' /\ leaseSeq' > 0
         /\ byTask'[id] = leaseSeq'
         /\ \E l \in leases' :
              /\ l.id = leaseSeq' /\ l.task = id /\ l.version = v
              /\ leases' = leases \cup {l}
<1> DEFINE new == [id |-> leaseSeq', task |-> id, worker |-> w, version |-> v,
                   deadline |-> now + TTL]
<1>1. /\ leaseSeq' = leaseSeq + 1 /\ leases' = leases \cup {new}
      /\ byTask' = [byTask EXCEPT ![id] = leaseSeq']
  BY DEF Bind
<1>2. new.id = leaseSeq' /\ new.task = id /\ new.version = v
  OBVIOUS
<1> HIDE DEF new
<1>3. leaseSeq \in Nat /\ leaseSeq' > 0 /\ \A l \in leases : l.id # leaseSeq'
  BY <1>1 DEF LeasesOK, Lease
<1>4. LeaseIds'
  BY <1>1, <1>2, <1>3 DEF LeaseIds
<1>5. byTask'[id] = leaseSeq' /\ \A other \in Task \ {id} : byTask'[other] = byTask[other]
  BY <1>1 DEF LeasesOK
<1>6. IndexSound'
  BY <1>1, <1>2, <1>5 DEF IndexSound
<1>7. QED
  BY <1>1, <1>2, <1>3, <1>4, <1>5, <1>6

(***************************************************************************)
(* The table over one step.                                                *)
(***************************************************************************)
\* No executor loses the lease it has.
HoldersCarry == \A f \in Executor : ex[f].lease # NoLease => Carries(f)

\* RunNext gives its lease up in Release only.
LEMMA ExecutorCarries ==
  ASSUME ExecutorsOK, NoLeaseYet, NEW e \in Executor, ExecutorStep(e)
  PROVE  NoLeaseYet' /\ (ReleaseLease(e) \/ HoldersCarry)
<1>1. \A f \in Executor \ {e} : ex'[f] = ex[f]
  BY ExecutorAlone
<1>2. ASSUME ex'[e].pc \in {"idle", "popped", "again", "picking", "repush"} =>
               ex'[e].lease = NoLease,
             ReleaseLease(e) \/ ex[e].lease = NoLease \/ Carries(e)
      PROVE  NoLeaseYet' /\ (ReleaseLease(e) \/ HoldersCarry)
  <2>1. NoLeaseYet'
    BY <1>1, <1>2 DEF NoLeaseYet
  <2>2. QED
    BY <1>1, <1>2, <2>1 DEF HoldersCarry, Carries
<1>3. CASE Pop(e) \/ TakeReady(e)
  BY <1>2, <1>3, PopFacts, TakeFacts DEF NoLeaseYet
<1>4. CASE BindLease(e) \/ PickFails(e)
  BY <1>2, <1>4, BindFacts, PickFailsFacts DEF NoLeaseYet, Carries
<1>5. CASE Finish(e) \/ CheckLease(e) \/ ApplyResult(e)
  BY <1>2, <1>5, FinishFacts, CheckFacts, ApplyFacts
<1>6. CASE PopNothing(e) \/ Repush(e)
  BY <1>2, <1>6, IdleFacts DEF PopNothing, Repush, NoLeaseYet
<1>7. CASE ScheduleRetry(e)
  BY <1>2, <1>7, ReleaseFacts DEF ScheduleRetry
<1>8. CASE ReleaseLease(e)
  BY <1>2, <1>8, IdleFacts DEF ReleaseLease
<1>9. QED
  BY <1>3, <1>4, <1>5, <1>6, <1>7, <1>8 DEF ExecutorStep

\* No lease comes or goes, and no holder lets go of one.
StepStays == TableKept /\ HoldersCarry

\* Renew drops a lease it finds stale.
StepDropsStale ==
  \E l \in leases :
    DropLease(l) /\ tasks[l.task].version # l.version /\ UNCHANGED <<tasks, ex, tk>>

\* What one step of the scheduler may do to the table and to those who hold leases.
LEMMA TableMoves ==
  ASSUME TypeInv, LeaseIds, NoLeaseYet, [Next]_vars
  PROVE  \/ StepStays
         \/ StepDropsStale
         \/ TickerRuns /\ ReapCollect
         \/ \E e \in Executor : ExecutorRuns(e) /\ (BindLease(e) \/ ReleaseLease(e))
<1>0. LeasesOK /\ ExecutorsOK
  BY DEF TypeInv
<1>1. ASSUME UNCHANGED <<ex, leaseVars>> PROVE StepStays
  BY <1>1, UnchangedKept DEF StepStays, HoldersCarry, Carries
<1>2. CASE TimePasses \/ WorkerBeats \/ UNCHANGED vars
  BY <1>1, <1>2 DEF TimePasses, WorkerBeats, vars
<1>3. ASSUME TickerRuns, ~ReapCollect PROVE StepStays
  BY <1>1, <1>3 DEF TickerRuns, Ticker, TickScan, TickGet, TickDrop, TickMark, TickPush,
     TickSetNextRun, TickSetFire, TickPopDue, TickEntry, TickPushEntry, ReapRequeue, ReapPush
<1>4. ASSUME NEW e \in Executor, ExecutorRuns(e), ~BindLease(e), ~ReleaseLease(e)
      PROVE  StepStays
  <2>1. ExecutorStep(e) /\ HoldersCarry
    BY <1>0, <1>4, ExecutorCarries DEF ExecutorRuns
  <2>2. UNCHANGED leaseVars
    BY <1>4, <2>1 DEF ExecutorStep, Pop, PopNothing, TakeReady, PickFails, Repush, Finish,
       CheckLease, ApplyResult, ScheduleRetry
  <2>3. QED
    BY <2>1, <2>2, UnchangedKept DEF StepStays
<1>5. ASSUME NEW c \in Client, RequestArrives(c) PROVE StepStays
  BY <1>0, <1>1, <1>5, RequestFacts DEF RequestArrives, TypeInv
<1>6. ASSUME NEW c \in Client, HandlerRuns(c) PROVE StepStays \/ StepDropsStale
  <2>1. UNCHANGED <<ex, tk>>
    BY <1>6 DEF HandlerRuns
  <2>2. CASE HeartbeatRenew(c)
    <3>1. UNCHANGED tasks /\ \E lid \in cl[c].todo : Renew(lid, cl[c].worker, cl[c].at)
      BY <2>2 DEF HeartbeatRenew
    <3>2. TableKept \/ \E l \in leases : DropLease(l) /\ tasks[l.task].version # l.version
      BY <1>0, <3>1, RenewFacts
    <3>3. QED
      BY <2>1, <3>1, <3>2 DEF StepStays, HoldersCarry, Carries, StepDropsStale
  <2>3. CASE ~HeartbeatRenew(c)
    BY <1>1, <1>6, <2>1, <2>3 DEF HandlerRuns, Handle, RegisterTrack, TriggerMark, TriggerPush,
       CancelTransition, CancelUnready, CancelUndelay, CancelUntrack, CronSave, CronRefresh,
       EnrollWorker, HeartbeatMark, HeartbeatList
  <2>4. QED
    BY <2>2, <2>3
<1>7. QED
  BY <1>2, <1>3, <1>4, <1>5, <1>6 DEF Next

\* The table loses a lease only to Release by its holder, to Renew finding it stale,
\* and to the reaper; and every one of these cleans both maps.
LEMMA TableStep ==
  ASSUME TypeInv, LeaseFence, TableInv, [Next]_vars
  PROVE  TableInv'
<1>0. /\ LeasesOK /\ ExecutorsOK
      /\ LeaseIds /\ IndexSound /\ Held /\ NoLeaseYet
  BY DEF TypeInv, TableInv
<1>1. NoLeaseYet'
  <2>1. CASE UNCHANGED ex
    BY <1>0, <2>1 DEF NoLeaseYet
  <2>2. ASSUME NEW e \in Executor, ExecutorRuns(e) PROVE NoLeaseYet'
    BY <1>0, <2>2, ExecutorCarries DEF ExecutorRuns
  <2>3. QED
    BY <2>1, <2>2 DEF Next, vars, TimePasses, WorkerBeats, TickerRuns, RequestArrives, HandlerRuns
<1>2. \A l \in leases : l.id # NoLease
  BY <1>0 DEF LeasesOK, Lease, NoLease
<1>3. ASSUME HoldersCarry, \A m \in leases' : \E l \in leases : Same(l, m)
      PROVE  Held'
  BY <1>0, <1>2, <1>3 DEF Held, HoldersCarry, Carries, Same
<1>4. ASSUME UNCHANGED ex PROVE HoldersCarry
  BY <1>4 DEF HoldersCarry, Carries
<1>5. \A l \in leases : Same(l, l)
  BY DEF Same
<1>6. CASE StepStays
  BY <1>0, <1>1, <1>3, <1>6, KeptIndexed DEF StepStays, TableKept, TableInv
<1>7. CASE StepDropsStale
  <2>1. PICK l \in leases : DropLease(l)
    BY <1>7 DEF StepDropsStale
  <2>2. LeaseIds' /\ IndexSound' /\ leases' = leases \ {l}
    BY <1>0, <2>1, DropIndexed
  <2>3. Held'
    BY <1>3, <1>4, <1>5, <1>7, <2>2 DEF StepDropsStale
  <2>4. QED
    BY <1>1, <2>2, <2>3 DEF TableInv
<1>8. CASE TickerRuns /\ ReapCollect
  <2>1. LeaseIds' /\ IndexSound' /\ leases' = leases \ Expired(clock)
    BY <1>0, <1>8, CollectIndexed DEF ReapCollect
  <2>2. Held'
    BY <1>3, <1>4, <1>5, <1>8, <2>1 DEF TickerRuns
  <2>3. QED
    BY <1>1, <2>1, <2>2 DEF TableInv
<1>9. ASSUME NEW e \in Executor, ExecutorRuns(e), BindLease(e) PROVE TableInv'
  <2>1. PICK w \in Worker : Bind(ex[e].task, w, ex[e].version, ex[e].now)
    BY <1>9 DEF BindLease
  <2>2. /\ ex[e].task \in Task /\ ex'[e].lease = leaseSeq' /\ ex'[e].task = ex[e].task
        /\ ex[e].lease = NoLease
    BY <1>0, <1>9, BindFacts DEF NoLeaseYet
  <2>3. /\ LeaseIds' /\ IndexSound'
        /\ \E l \in leases' : /\ l.id = leaseSeq' /\ l.task = ex[e].task
                              /\ leases' = leases \cup {l}
    BY <1>0, <2>1, <2>2, BindIndexed DEF LeaseFence
  <2>4. \A f \in Executor \ {e} : ex'[f] = ex[f]
    BY <1>0, <1>9, ExecutorAlone DEF ExecutorRuns
  <2>5. Held'
    BY <1>0, <1>2, <2>2, <2>3, <2>4 DEF Held
  <2>6. QED
    BY <1>1, <2>3, <2>5 DEF TableInv
<1>10. ASSUME NEW e \in Executor, ExecutorRuns(e), ReleaseLease(e) PROVE TableInv'
  <2>1. Release(ex[e].lease) /\ \A f \in Executor \ {e} : ex'[f] = ex[f]
    BY <1>0, <1>10, ExecutorAlone DEF ExecutorRuns, ReleaseLease
  <2>2. LeaseIds' /\ IndexSound' /\ leases' \subseteq {l \in leases : l.id # ex[e].lease}
    <3>1. CASE \E l \in leases : l.id = ex[e].lease /\ DropLease(l)
      BY <1>0, <3>1, DropIndexed DEF LeaseIds
    <3>2. CASE UNCHANGED leaseVars /\ \A l \in leases : l.id # ex[e].lease
      BY <1>0, <3>2 DEF LeaseIds, IndexSound, leaseVars
    <3>3. QED
      BY <2>1, <3>1, <3>2 DEF Release
  <2>3. Held'
    BY <1>0, <2>1, <2>2 DEF Held
  <2>4. QED
    BY <1>1, <2>2, <2>3 DEF TableInv
<1>11. QED
  BY <1>0, <1>6, <1>7, <1>8, <1>9, <1>10, TableMoves

\* The service starts with an empty table.
LEMMA TableInit == Init => TableInv
BY DEF Init, InitLeases, InitExecution, IdleExecutor, TableInv, LeaseIds, IndexSound, Held,
   NoLeaseYet

\* Manager's two maps never disagree and never leak, whichever of Release, Renew and
\* ReapExpired comes first, with any number of executors and requests.
THEOREM LeaseTableHasNoLeftovers == Spec => []LeaseTableIsSound
<1>1. FenceInv /\ TableInv /\ [Next]_vars => TableInv'
  BY TableStep DEF FenceInv
<1>2. TableInv => LeaseTableIsSound
  BY DEF TableInv, Held, IndexSound, LeaseTableIsSound
<1>3. QED
  BY <1>1, <1>2, TableInit, FenceIsInvariant, PTL DEF Spec

(***************************************************************************)
(* With one executor, as in cmd/schedd.                                    *)
(***************************************************************************)
OneExecutor == \A e, f \in Executor : e = f

\* byTask knows every lease of the table.
Indexed == \A l \in leases : byTask[l.task] = l.id

\* A single executor never holds more than one lease, so the table never has more.
LEMMA OneLease ==
  ASSUME OneExecutor, TableInv
  PROVE  /\ \A l, m \in leases : l = m
         /\ \A e \in Executor : ex[e].lease = NoLease /\ LeasesOK => leases = {}
<1>1. \A l, m \in leases : l = m
  BY DEF OneExecutor, TableInv, Held, LeaseIds
<1>2. ASSUME NEW e \in Executor, ex[e].lease = NoLease, LeasesOK, NEW l \in leases PROVE FALSE
  <2>1. l.id = NoLease
    BY <1>2 DEF OneExecutor, TableInv, Held
  <2>2. QED
    BY <1>2, <2>1 DEF LeasesOK, Lease, NoLease
<1>3. QED
  BY <1>1, <1>2

\* Every step keeps the only lease reachable through byTask.
LEMMA IndexedStep ==
  ASSUME OneExecutor, TypeInv, LeaseFence, TableInv, Indexed, [Next]_vars
  PROVE  Indexed'
<1>0. LeasesOK /\ ExecutorsOK /\ LeaseIds /\ NoLeaseYet
  BY DEF TypeInv, TableInv
<1>1. \A l, m \in leases : l = m
  BY OneLease
<1>2. CASE StepStays
  BY <1>2 DEF StepStays, TableKept, Same, Indexed
<1>3. ASSUME NEW l \in leases, DropLease(l) PROVE Indexed'
  <2>1. leases' = {}
    BY <1>1, <1>3 DEF DropLease
  <2>2. QED
    BY <2>1 DEF Indexed
<1>4. CASE TickerRuns /\ ReapCollect
  <2>1. CASE Expired(clock) = {}
    <3>1. leases' = leases /\ byTask' = [id \in Task |-> byTask[id]]
      BY <1>4, <2>1 DEF ReapCollect, CollectExpired
    <3>2. QED
      BY <1>0, <3>1 DEF Indexed, LeasesOK, Lease
  <2>2. CASE Expired(clock) # {}
    <3>1. leases' = {}
      BY <1>1, <1>4, <2>2 DEF ReapCollect, CollectExpired, Expired
    <3>2. QED
      BY <3>1 DEF Indexed
  <2>3. QED
    BY <2>1, <2>2
<1>5. ASSUME NEW e \in Executor, ExecutorRuns(e), BindLease(e) PROVE Indexed'
  <2>1. PICK w \in Worker : Bind(ex[e].task, w, ex[e].version, ex[e].now)
    BY <1>5 DEF BindLease
  <2>2. ex[e].task \in Task /\ leases = {}
    BY <1>0, <1>5, BindFacts, OneLease DEF NoLeaseYet
  <2>3. /\ byTask'[ex[e].task] = leaseSeq'
        /\ \E l \in leases' : /\ l.id = leaseSeq' /\ l.task = ex[e].task
                              /\ leases' = leases \cup {l}
    BY <1>0, <2>1, <2>2, BindIndexed DEF LeaseFence, TableInv
  <2>4. QED
    BY <2>2, <2>3 DEF Indexed
<1>6. ASSUME NEW e \in Executor, ExecutorRuns(e), ReleaseLease(e) PROVE Indexed'
  BY <1>3, <1>6 DEF ReleaseLease, Release, Indexed, leaseVars
<1>7. QED
  BY <1>0, <1>2, <1>3, <1>4, <1>5, <1>6, TableMoves DEF StepDropsStale

\* With one executor a lease made for the task's current version is the one Current
\* returns: RecordResult accepts the result of every holder that still owns its task.
THEOREM ActiveLeasesAreCurrent ==
  ASSUME OneExecutor
  PROVE  Spec => []ActiveLeaseIsCurrent
<1>1. Init => TableInv /\ Indexed
  BY TableInit DEF Init, InitLeases, Indexed
<1>2. FenceInv /\ TableInv /\ Indexed /\ [Next]_vars => TableInv' /\ Indexed'
  BY TableStep, IndexedStep DEF FenceInv
<1>3. Indexed => ActiveLeaseIsCurrent
  BY DEF Indexed, ActiveLeaseIsCurrent, IsCurrent
<1>4. QED
  BY <1>1, <1>2, <1>3, FenceIsInvariant, PTL DEF Spec

(***************************************************************************)
(* Where the lease of a Leased task is.                                    *)
(***************************************************************************)
\* Outside its second loop the reaper has no leases in hand.
ReaperIdle == tk.pc \notin {"expired", "pushReaped"} => tk.expired = {}

\* The version RecordResult reads is not older than the one its executor leased.
SeenLater == \A e \in Executor : ex[e].pc = "check" => ex[e].version <= ex[e].seen

\* A lease about to be released is no good any more: its task has moved on.
MovedOn(l) == tasks[l.task].state = "gone" \/ l.version < tasks[l.task].version

LetGo ==
  \A e \in Executor : ex[e].pc \in {"schedule", "release"} =>
    \A l \in leases : l.id = ex[e].lease => MovedOn(l)

CoverInv == ReaperIdle /\ SeenLater /\ LetGo

\* What the ticker does with the leases the reaper has in hand.
LEMMA ReaperFacts ==
  ASSUME TickerOK, Ticker
  PROVE  \/ ReapCollect /\ tk.pc = "entries" /\ tk'.pc = "expired" /\ tk'.expired = Expired(clock)
         \/ \E l \in tk.expired :
              /\ ReapRequeue(l) /\ tk'.pc \in {"expired", "pushReaped"}
              /\ tk'.expired = tk.expired \ {l}
         \/ /\ tk'.expired = tk.expired
            /\ \/ tk'.pc \in {"expired", "pushReaped"}
               \/ tk.pc \notin {"expired", "pushReaped"}
               \/ tk.expired = {}
<1> USE DEF TickerOK, TickerLocal
<1>1. CASE TickScan
  BY <1>1 DEF TickScan, IdleTicker
<1>2. ASSUME NEW id, TickGet(id) \/ TickEntry(id)
      PROVE  tk'.expired = tk.expired /\ tk.pc \in {"due", "entries"}
  BY <1>2 DEF TickGet, TickEntry
<1>3. CASE TickDrop \/ TickMark \/ TickPush
  BY <1>3 DEF TickDrop, TickMark, TickPush
<1>4. CASE TickSetNextRun \/ TickSetFire \/ TickPopDue \/ TickPushEntry
  BY <1>4 DEF TickSetNextRun, TickSetFire, TickPopDue, TickPushEntry
<1>5. CASE ReapCollect
  BY <1>5 DEF ReapCollect
<1>6. ASSUME NEW l \in tk.expired, ReapRequeue(l)
      PROVE  tk'.pc \in {"expired", "pushReaped"} /\ tk'.expired = tk.expired \ {l}
  BY <1>6 DEF ReapRequeue
<1>7. CASE ReapPush
  BY <1>7 DEF ReapPush
<1>8. QED
  BY <1>1, <1>2, <1>3, <1>4, <1>5, <1>6, <1>7 DEF Ticker

\* ReapExpired finishes with the leases it collected before the next tick.
LEMMA ReaperStep ==
  ASSUME TypeInv, ReaperIdle, [Next]_vars
  PROVE  ReaperIdle'
<1>1. CASE TickerRuns
  BY <1>1, ReaperFacts DEF TickerRuns, TypeInv, ReaperIdle
<1>2. CASE UNCHANGED tk
  BY <1>2 DEF ReaperIdle
<1>3. QED
  BY <1>1, <1>2 DEF Next, vars, TimePasses, WorkerBeats, ExecutorRuns, RequestArrives, HandlerRuns

\* RecordResult reads its task after Assign leased it, and versions only grow.
LEMMA SeenLaterStep ==
  ASSUME HoldInv, SeenLater, [Next]_vars
  PROVE  SeenLater'
<1>0. ExecutorsOK /\ StoredFence
  BY DEF HoldInv, TypeInv
<1>1. CASE UNCHANGED ex
  BY <1>1 DEF SeenLater
<1>2. ASSUME NEW e \in Executor, ExecutorRuns(e) PROVE SeenLater'
  <2>1. ExecutorStep(e) /\ \A f \in Executor \ {e} : ex'[f] = ex[f]
    BY <1>0, <1>2, ExecutorAlone DEF ExecutorRuns
  <2>2. ASSUME ex'[e].pc = "check" PROVE ex'[e].version <= ex'[e].seen
    <3>1. Finish(e)
      BY <1>0, <2>1, <2>2, IdleFacts, ReleaseFacts, PopFacts, TakeFacts, BindFacts,
         PickFailsFacts, CheckFacts, ApplyFacts
         DEF ExecutorStep, PopNothing, Repush, ScheduleRetry, ReleaseLease
    <3>2. QED
      BY <1>0, <2>2, <3>1, FinishFacts DEF StoredFence, Stored, HoldsVersion, Absent
  <2>3. QED
    BY <2>1, <2>2 DEF SeenLater
<1>3. QED
  BY <1>1, <1>2 DEF Next, vars, TimePasses, WorkerBeats, TickerRuns, RequestArrives, HandlerRuns

\* RecordResult and RunNext give a lease up only when its task has moved on: the
\* version was read as newer, the result was refused, or it was applied.
LEMMA LetGoExecutor ==
  ASSUME HoldInv, GoneStays, SeenOK, Indexed, SeenLater, LetGo,
         NEW e \in Executor, ExecutorRuns(e), ex'[e].pc \in {"schedule", "release"},
         NEW l \in leases, l.id = ex'[e].lease
  PROVE  MovedOn(l)'
<1>0. /\ ExecutorsOK /\ StoreOK /\ LeasesOK /\ StoredFence /\ LeaseFence /\ SeenOK
      /\ ExecutorStep(e)
  BY DEF HoldInv, TypeInv, ExecutorRuns
<1>1. /\ l.task \in Task /\ l.version \in Nat
      /\ tasks[l.task].version \in Nat /\ tasks[l.task].retriesLeft \in Nat
  BY <1>0 DEF LeasesOK, Lease, StoreOK, TaskRec
<1>2. SUFFICES ASSUME tasks[l.task].state # "gone"
               PROVE  l.version < tasks'[l.task].version
  BY <1>1 DEF GoneStays, MovedOn
<1>3. ASSUME ex[e].pc \in {"running", "check", "apply"}, Carries(e)
      PROVE  /\ l.id = ex[e].lease /\ l.task = ex[e].task /\ l.version = ex[e].version
             /\ Stored(e)
             /\ l.version <= tasks[l.task].version
             /\ l.version = tasks[l.task].version => tasks[l.task].state = "leased"
  BY <1>0, <1>2, <1>3 DEF Carries, LeaseFence, StoredFence, Stored, HoldsVersion
<1>4. CASE Finish(e)
  BY <1>0, <1>1, <1>3, <1>4, FinishFacts DEF Absent
<1>5. CASE CheckLease(e)
  <2>1. /\ ex[e].pc = "check" /\ Carries(e) /\ UNCHANGED tasks
        /\ ~IsCurrent(ex[e].task, ex[e].lease, ex[e].seen)
    BY <1>0, <1>5, CheckFacts
  <2>2. /\ ex[e].version <= ex[e].seen /\ ex[e].seen <= tasks[l.task].version
        /\ ex[e].seen \in Nat
    BY <1>0, <1>3, <2>1 DEF SeenLater, SeenOK, ExecutorsOK, ExecutorLocal
  <2>3. l.version # ex[e].seen
    BY <1>3, <2>1 DEF IsCurrent, Indexed
  <2>4. QED
    BY <1>1, <1>3, <2>1, <2>2, <2>3
<1>6. CASE ApplyResult(e)
  <2>1. /\ ex[e].pc = "apply" /\ Carries(e) /\ ex[e].task = l.task
        /\ ex[e].seen = l.version /\ ex[e].seen \in Nat
    BY <1>0, <1>3, <1>6, ApplyFacts DEF LeaseFence, ExecutorsOK, ExecutorLocal
  <2>2. CASE ~UNCHANGED tasks
    <3>1. tasks'[l.task].version = tasks[l.task].version + 1
      BY <1>0, <1>1, <1>6, <2>1, <2>2, ApplyFacts, EnterFacts, RetryFacts
    <3>2. QED
      BY <1>1, <1>3, <2>1, <3>1
  <2>3. CASE UNCHANGED tasks /\ ~CanTransition(l.task, "leased", ex[e].seen)
    BY <1>1, <1>3, <2>1, <2>3 DEF CanTransition
  <2>4. CASE UNCHANGED tasks /\ ex[e].left > 0 /\ ~CanRetry(l.task, ex[e].seen)
    BY <1>0, <1>1, <1>3, <2>1, <2>4 DEF CanRetry, SeenOK, Absent
  <2>5. CASE UNCHANGED tasks /\ Retry(l.task, ex[e].now + RetryDelay, ex[e].seen)
    BY <1>0, <1>1, <2>5, RetryFacts
  <2>6. CASE UNCHANGED tasks /\ \E to : Enter(l.task, to)
    BY <1>0, <1>1, <2>6, EnterFacts
  <2>7. QED
    BY <1>0, <1>6, <2>1, <2>2, <2>3, <2>4, <2>5, <2>6, ApplyFacts
<1>7. CASE ScheduleRetry(e)
  BY <1>0, <1>2, <1>7, ReleaseFacts DEF ScheduleRetry, Carries, LetGo, MovedOn
<1>8. QED
  BY <1>0, <1>4, <1>5, <1>6, <1>7, IdleFacts, PopFacts, TakeFacts, BindFacts, PickFailsFacts
     DEF ExecutorStep, PopNothing, Repush, ReleaseLease

\* Nothing brings a task back to the version of a lease that was given up.
LEMMA LetGoStep ==
  ASSUME OneExecutor, HoldInv, GoneStays, SeenOK, TableInv, Indexed, SeenLater, LetGo,
         [Next]_vars
  PROVE  LetGo'
<1>0. /\ TypeInv /\ ExecutorsOK /\ LeasesOK /\ StoreOK /\ LeaseIds /\ NoLeaseYet
      /\ StoreAdvances
  BY VersionsAdvance DEF HoldInv, TypeInv, TableInv
<1>1. ASSUME UNCHANGED ex PROVE LetGo'
  <2>1. \A l \in leases' : \E m \in leases : Same(m, l)
    <3>1. \A l \in leases : Same(l, l)
      BY DEF Same
    <3>2. ASSUME NEW e \in Executor, ExecutorRuns(e), BindLease(e) \/ ReleaseLease(e)
          PROVE  FALSE
      BY <1>0, <1>1, <3>2, BindFacts, IdleFacts DEF ReleaseLease
    <3>3. QED
      BY <1>0, <3>1, <3>2, TableMoves
         DEF StepStays, TableKept, StepDropsStale, DropLease, ReapCollect, CollectExpired
  <2>2. ASSUME NEW e \in Executor, ex[e].pc \in {"schedule", "release"},
               NEW l \in leases', l.id = ex[e].lease
        PROVE  MovedOn(l)'
    <3>1. PICK m \in leases : Same(m, l)
      BY <2>1
    <3>2. MovedOn(m)
      BY <2>2, <3>1 DEF LetGo, Same
    <3>3. m.task \in Task /\ m.version \in Nat /\ tasks[m.task].version \in Nat
      BY <1>0 DEF LeasesOK, Lease, StoreOK, TaskRec
    <3>4. QED
      BY <1>0, <3>1, <3>2, <3>3 DEF Same, StoreAdvances, Advances, MovedOn, GoneStays
  <2>3. QED
    BY <1>1, <2>2 DEF LetGo
<1>2. ASSUME NEW f \in Executor, ExecutorRuns(f) PROVE LetGo'
  <2>1. CASE ex'[f].pc \in {"schedule", "release"}
    <3>1. UNCHANGED leases
      BY <1>0, <1>2, <2>1, BindFacts, IdleFacts
         DEF ExecutorRuns, ExecutorStep, Pop, PopNothing, TakeReady, PickFails, Repush, Finish,
             CheckLease, ApplyResult, ScheduleRetry, ReleaseLease, leaseVars
    <3>2. QED
      BY <1>2, <2>1, <3>1, LetGoExecutor DEF LetGo, OneExecutor
  <2>2. CASE ex'[f].pc \notin {"schedule", "release"}
    BY <2>2 DEF LetGo, OneExecutor
  <2>3. QED
    BY <2>1, <2>2
<1>3. QED
  BY <1>1, <1>2 DEF Next, vars, TimePasses, WorkerBeats, TickerRuns, RequestArrives, HandlerRuns

(***************************************************************************)
(* Coverage.                                                               *)
(***************************************************************************)
ByPicking(id) == \E e \in Executor : Owns(e, id) /\ ex[e].pc = "picking"

ByLease(id) == \E l \in leases : l.task = id /\ l.version = tasks[id].version

ByReaper(id) == \E l \in tk.expired : l.task = id /\ l.version = tasks[id].version

\* The task was Leased before the step, under the same version.
StaysLeased(id) == tasks[id].state = "leased" /\ tasks'[id].version = tasks[id].version

\* No task becomes Leased.
NotTaken == \A id \in Task : tasks'[id].state = "leased" => StaysLeased(id)

\* A state change to another state leases no task.
LEMMA EnterNotTaken ==
  ASSUME StoreOK, NEW id \in Task, NEW to, to # "leased", Enter(id, to)
  PROVE  NotTaken
BY EnterFacts DEF Others, NotTaken, StaysLeased

\* Only Assign leases a task; only UpdateCron changes the version of one that is Leased.
LEMMA OnlyAssignTakes ==
  ASSUME NoSaves, TypeInv, [Next]_vars
  PROVE  NotTaken \/ \E e \in Executor : ExecutorRuns(e) /\ TakeReady(e)
<1>0. StoreOK /\ ExecutorsOK /\ ClientsOK /\ TickerOK /\ \A l \in tk.expired : l.task \in Task
  BY DEF TypeInv, TickerOK, TickerLocal, Lease
<1>1. ASSUME UNCHANGED tasks PROVE NotTaken
  BY <1>1 DEF NotTaken, StaysLeased
<1>2. CASE TickerRuns
  <2>1. ASSUME TickMark PROVE NotTaken
    BY <1>0, <1>1, <2>1, EnterNotTaken DEF TickMark, TickerOK, MarkReady
  <2>2. ASSUME TickSetNextRun PROVE NotTaken
    BY <1>0, <1>1, <2>2, SetNextRunFacts DEF TickSetNextRun, TickerOK, Others, NotTaken, StaysLeased
  <2>3. ASSUME NEW l \in tk.expired, ReapRequeue(l) PROVE NotTaken
    BY <1>0, <1>1, <2>3, EnterNotTaken DEF ReapRequeue, Transition
  <2>4. QED
    BY <1>1, <1>2, <2>1, <2>2, <2>3 DEF TickerRuns, Ticker, TickScan, TickGet, TickDrop, TickPush,
       TickSetFire, TickPopDue, TickEntry, TickPushEntry, ReapCollect, ReapPush
<1>3. ASSUME NEW e \in Executor, ExecutorRuns(e), ~TakeReady(e) PROVE NotTaken
  <2>1. ASSUME PickFails(e) PROVE NotTaken
    BY <1>0, <1>1, <2>1, PickFailsFacts, EnterNotTaken
  <2>2. ASSUME ApplyResult(e) PROVE NotTaken
    <3>1. ASSUME NEW t \in Task, NEW next, NEW v, Retry(t, next, v) PROVE NotTaken
      BY <1>0, <3>1, RetryFacts DEF Others, NotTaken, StaysLeased
    <3>2. QED
      BY <1>0, <1>1, <2>2, <3>1, ApplyFacts, EnterNotTaken
  <2>3. QED
    BY <1>1, <1>3, <2>1, <2>2 DEF ExecutorRuns, ExecutorStep, Pop, PopNothing, BindLease,
       Repush, Finish, CheckLease, ScheduleRetry, ReleaseLease
<1>4. ASSUME NEW c \in Client, RequestArrives(c) PROVE NotTaken
  <2>1. ASSUME NEW id \in Task, NEW at, Insert(id, at) PROVE NotTaken
    BY <1>0, <2>1, InsertFacts DEF Others, NotTaken, StaysLeased
  <2>2. QED
    BY <1>0, <1>1, <1>4, <2>1, RequestFacts DEF RequestArrives
<1>5. ASSUME NEW c \in Client, HandlerRuns(c) PROVE NotTaken
  <2>1. cl[c].pc \notin WorkerPc => cl[c].task \in Task
    BY <1>0 DEF ClientsOK
  <2>2. ASSUME TriggerMark(c) PROVE NotTaken
    BY <1>0, <1>1, <2>1, <2>2, EnterNotTaken DEF TriggerMark, WorkerPc, MarkReady
  <2>3. ASSUME CancelTransition(c) PROVE NotTaken
    BY <1>0, <1>1, <2>1, <2>3, EnterNotTaken DEF CancelTransition, WorkerPc, Transition
  <2>4. ~CronSave(c)
    BY DEF CronSave, NoSaves
  <2>5. QED
    BY <1>1, <1>5, <2>2, <2>3, <2>4 DEF HandlerRuns, Handle, RegisterTrack, TriggerPush,
       CancelUnready, CancelUndelay, CancelUntrack, CronRefresh, EnrollWorker, HeartbeatMark,
       HeartbeatList, HeartbeatRenew
<1>6. QED
  BY <1>1, <1>2, <1>3, <1>4, <1>5 DEF Next, vars, TimePasses, WorkerBeats

\* Assign holds on to the task it leased until it stores the lease.
LEMMA PickingCovers ==
  ASSUME TypeInv, [Next]_vars, NEW id \in Task, tasks'[id].state = "leased",
         StaysLeased(id), ByPicking(id)
  PROVE  ByPicking(id)' \/ ByLease(id)'
<1>0. ExecutorsOK /\ StoreOK
  BY DEF TypeInv
<1>1. PICK e \in Executor : Owns(e, id) /\ ex[e].pc = "picking"
  BY DEF ByPicking
<1>2. ASSUME ex'[e] = ex[e] PROVE ByPicking(id)'
  BY <1>1, <1>2 DEF ByPicking, Owns, HoldsVersion, StaysLeased
<1>3. CASE ExecutorRuns(e)
  <2>1. ExecutorStep(e)
    BY <1>3 DEF ExecutorRuns
  <2>2. CASE BindLease(e)
    <3>1. PICK w \in Worker : Bind(ex[e].task, w, ex[e].version, ex[e].now)
      BY <1>0, <2>2, BindFacts
    <3>2. \E l \in leases' : l.task = ex[e].task /\ l.version = ex[e].version
      <4> DEFINE new == [id |-> leaseSeq', task |-> ex[e].task, worker |-> w,
                         version |-> ex[e].version, deadline |-> ex[e].now + TTL]
      <4>1. new \in leases'
        BY <3>1 DEF Bind
      <4>2. new.task = ex[e].task /\ new.version = ex[e].version
        OBVIOUS
      <4>3. QED
        BY <4>1, <4>2
    <3>3. QED
      BY <1>1, <3>2 DEF ByLease, Owns, StaysLeased
  <2>3. CASE PickFails(e)
    <3>1. CanTransition(id, "leased", ex[e].version)
      BY <1>1 DEF CanTransition, StaysLeased, Owns
    <3>2. tasks'[id].state = "ready"
      BY <1>0, <1>1, <2>3, <3>1, PickFailsFacts, EnterFacts DEF Owns
    <3>3. QED
      BY <3>2
  <2>4. QED
    BY <1>1, <2>1, <2>2, <2>3 DEF ExecutorStep, Pop, PopNothing, TakeReady, Repush, Finish,
       CheckLease, ApplyResult, ScheduleRetry, ReleaseLease
<1>4. ASSUME NEW f \in Executor \ {e}, ExecutorRuns(f) PROVE ex'[e] = ex[e]
  BY <1>0, <1>4, ExecutorAlone DEF ExecutorRuns
<1>5. QED
  BY <1>2, <1>3, <1>4 DEF Next, vars, TimePasses, WorkerBeats, TickerRuns, RequestArrives, HandlerRuns

\* A lease that is still good stays in the table, or goes to the reaper.
LEMMA LeaseCovers ==
  ASSUME TypeInv, TableInv, LetGo, [Next]_vars, NEW id \in Task, StaysLeased(id), ByLease(id)
  PROVE  ByLease(id)' \/ ByReaper(id)'
<1>0. ExecutorsOK /\ LeasesOK /\ LeaseIds /\ NoLeaseYet
  BY DEF TypeInv, TableInv
<1>1. PICK l \in leases : l.task = id /\ l.version = tasks[id].version
  BY DEF ByLease
<1>2. ASSUME l \in leases' PROVE ByLease(id)'
  BY <1>1, <1>2 DEF ByLease, StaysLeased
<1>3. CASE StepStays
  BY <1>1, <1>3 DEF StepStays, TableKept, Same, ByLease, StaysLeased
<1>4. CASE StepDropsStale
  BY <1>1, <1>2, <1>4 DEF StepDropsStale, DropLease
<1>5. CASE TickerRuns /\ ReapCollect
  <2>1. leases' = leases \ Expired(clock) /\ tk'.expired = Expired(clock)
    BY <1>5 DEF ReapCollect, CollectExpired, TypeInv, TickerOK, TickerLocal
  <2>2. QED
    BY <1>1, <1>2, <2>1 DEF ByReaper, StaysLeased
<1>6. ASSUME NEW e \in Executor, BindLease(e) PROVE ByLease(id)'
  BY <1>2, <1>6 DEF BindLease, Bind
<1>7. ASSUME NEW e \in Executor, ReleaseLease(e) PROVE ByLease(id)'
  <2>1. l.id # ex[e].lease
    <3>1. l.version \in Nat
      BY <1>0 DEF LeasesOK, Lease
    <3>2. QED
      BY <1>1, <1>7, <3>1 DEF ReleaseLease, LetGo, MovedOn, StaysLeased
  <2>2. QED
    BY <1>2, <1>7, <2>1 DEF ReleaseLease, Release, DropLease, leaseVars
<1>8. QED
  BY <1>0, <1>3, <1>4, <1>5, <1>6, <1>7, TableMoves

\* The reaper gives a task back for the lease that still covers it.
LEMMA ReaperCovers ==
  ASSUME TypeInv, ReaperIdle, [Next]_vars, NEW id \in Task, tasks'[id].state = "leased",
         StaysLeased(id), ByReaper(id)
  PROVE  ByReaper(id)'
<1>0. TickerOK /\ StoreOK
  BY DEF TypeInv
<1>1. PICK l \in tk.expired : l.task = id /\ l.version = tasks[id].version
  BY DEF ByReaper
<1>2. ASSUME l \in tk'.expired PROVE ByReaper(id)'
  BY <1>1, <1>2 DEF ByReaper, StaysLeased
<1>3. CASE TickerRuns
  <2>1. ~ReapRequeue(l)
    <3>1. CanTransition(id, "leased", l.version)
      BY <1>1 DEF CanTransition, StaysLeased
    <3>2. ~Enter(id, "ready")
      BY <1>0, EnterFacts
    <3>3. QED
      BY <1>1, <3>1, <3>2 DEF ReapRequeue, Transition
  <2>2. ~(ReapCollect /\ tk.pc = "entries")
    BY <1>1 DEF ReaperIdle
  <2>3. QED
    BY <1>0, <1>2, <1>3, <2>1, <2>2, ReaperFacts DEF TickerRuns
<1>4. CASE UNCHANGED tk
  BY <1>1, <1>2, <1>4
<1>5. QED
  BY <1>3, <1>4 DEF Next, vars, TimePasses, WorkerBeats, ExecutorRuns, RequestArrives, HandlerRuns

\* Every step keeps a way back for the tasks that are Leased after it.
LEMMA LeasedStep ==
  ASSUME NoSaves, TypeInv, TableInv, ReaperIdle, LetGo, LeasedIsCovered, [Next]_vars
  PROVE  LeasedIsCovered'
<1>1. \A id \in Task : tasks[id].state = "leased" => ByPicking(id) \/ ByLease(id) \/ ByReaper(id)
  BY DEF LeasedIsCovered, ByPicking, ByLease, ByReaper
<1>2. ASSUME \A id \in Task : tasks'[id].state = "leased" =>
               (ByPicking(id) \/ ByLease(id) \/ ByReaper(id))'
      PROVE  LeasedIsCovered'
  BY <1>2 DEF LeasedIsCovered, ByPicking, ByLease, ByReaper
<1>3. ASSUME NEW id \in Task, tasks'[id].state = "leased", StaysLeased(id)
      PROVE  (ByPicking(id) \/ ByLease(id) \/ ByReaper(id))'
  BY <1>1, <1>3, PickingCovers, LeaseCovers, ReaperCovers DEF StaysLeased
<1>4. CASE NotTaken
  BY <1>2, <1>3, <1>4 DEF NotTaken
<1>5. ASSUME NEW e \in Executor, ExecutorRuns(e), TakeReady(e) PROVE LeasedIsCovered'
  <2>0. ExecutorsOK /\ StoreOK
    BY DEF TypeInv
  <2>1. CASE UNCHANGED tasks
    BY <1>4, <2>1 DEF NotTaken, StaysLeased
  <2>2. CASE ~UNCHANGED tasks
    <3> PICK t \in Task : t = ex[e].task
      BY <1>5, <2>0, TakeFacts
    <3>1. /\ ex'[e].task = t /\ ex'[e].pc = "picking" /\ ex'[e].version = tasks'[t].version
          /\ Others(t)
      BY <1>5, <2>0, <2>2, TakeFacts, EnterFacts DEF Carries
    <3>2. ByPicking(t)'
      BY <3>1 DEF ByPicking, Owns, HoldsVersion
    <3>3. \A id \in Task \ {t} : tasks'[id].state = "leased" => StaysLeased(id)
      BY <3>1 DEF Others, StaysLeased
    <3>4. QED
      BY <1>2, <1>3, <3>2, <3>3
  <2>3. QED
    BY <2>1, <2>2
<1>6. QED
  BY <1>4, <1>5, OnlyAssignTakes

\* A Leased task can always come back: with one executor, and as long as no cron
\* update moves its version under the lease, nothing loses the lease that covers it.
THEOREM LeasedTasksAreCovered ==
  ASSUME OneExecutor, NoUpdates
  PROVE  Spec => []LeasedIsCovered
<1> DEFINE Inv == TableInv /\ Indexed /\ CoverInv /\ LeasedIsCovered
<1>1. Init => Inv
  <2>1. Init => Indexed
    BY DEF Init, InitLeases, Indexed
  <2>2. Init => CoverInv /\ LeasedIsCovered
    BY DEF Init, InitStore, InitLeases, InitDispatch, InitExecution, IdleTicker, IdleExecutor,
       CoverInv, ReaperIdle, SeenLater, LetGo, LeasedIsCovered
  <2>3. QED
    BY <2>1, <2>2, TableInit
<1>2. FenceInv /\ BudgetInv /\ Inv /\ [Next]_vars => Inv'
  <2>1. NoUpdates /\ BudgetInv => NoSaves /\ SeenOK
    BY DEF NoUpdates, BudgetInv, CopyOK, NoSaves
  <2>2. QED
    BY <2>1, FenceHolds, TableStep, IndexedStep, ReaperStep, SeenLaterStep, LetGoStep, LeasedStep
       DEF CoverInv, HoldInv
<1>3. Spec => []Inv
  <2> HIDE DEF Inv
  <2>1. QED
    BY <1>1, <1>2, BudgetIsInvariant, PTL DEF Spec
<1>4. QED
  BY <1>3, PTL
=============================================================================
