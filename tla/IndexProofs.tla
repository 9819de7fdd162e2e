---------------------------- MODULE IndexProofs ----------------------------
(***************************************************************************)
(* What the secondary indexes promise, for every set of tasks, every       *)
(* naming of them and every bound on time.                                 *)
(***************************************************************************)
EXTENDS Indexes, TLAPS

Copies == [state: TaskState \cup {"none"}, nextRunAt: Instants]

IndexTypeOK ==
  /\ store \in [Task -> Copies]
  /\ byName \in [Names -> Task \cup {NoTask}]
  /\ byTime \in [Instants -> [Task -> Nat]]

\* A Pending task is found under its own key.  Nothing is said of a Ready task:
\* Transition makes a Leased one Ready without an entry.
PendingIsIndexed ==
  \A id \in Task :
    store[id].state = "pending" => byTime[store[id].nextRunAt][id] = 1

IndexInv == IndexTypeOK /\ IndexIsBounded /\ PendingIsIndexed

(***************************************************************************)
(* The operators on the index.                                             *)
(***************************************************************************)

\* reindexTime's loop leaves no entry of the task and every entry of the others.
LEMMA WithoutFacts ==
  ASSUME NEW index \in [Instants -> [Task -> Nat]], NEW id \in Task
  PROVE  /\ Without(index, id) \in [Instants -> [Task -> Nat]]
         /\ \A at \in Instants, other \in Task :
              Without(index, id)[at][other] = IF other = id THEN 0 ELSE index[at][other]
BY DEF Without

\* indexTime adds one entry for a Pending or Ready copy, under the copy's key.
LEMMA AddedFacts ==
  ASSUME NEW index \in [Instants -> [Task -> Nat]], NEW id \in Task, NEW copy \in Copies
  PROVE  /\ Added(index, id, copy) \in [Instants -> [Task -> Nat]]
         /\ \A at \in Instants, other \in Task :
              Added(index, id, copy)[at][other] =
                IF other = id /\ at = copy.nextRunAt /\ copy.state \in {"pending", "ready"}
                  THEN index[at][other] + 1 ELSE index[at][other]
<1>1. copy.nextRunAt \in Instants
  BY DEF Copies
<1>2. CASE copy.state \in {"pending", "ready"}
  BY <1>1, <1>2 DEF Added
<1>3. CASE copy.state \notin {"pending", "ready"}
  BY <1>3 DEF Added
<1> QED
  BY <1>2, <1>3

-----------------------------------------------------------------------------

(***************************************************************************)
(* Every method but Transition, Delete and Reset ends the same way: a copy *)
(* is stored, and the index has what indexTime gives it over an index      *)
(* without the task.                                                       *)
(***************************************************************************)

\* Storing a copy over an index that has no entry of the task keeps the
\* invariant of the index, whatever the copy's state.
LEMMA StoringKeepsIndex ==
  ASSUME IndexInv,
         NEW id \in Task, NEW copy \in Copies, copy.state # "none",
         NEW index \in [Instants -> [Task -> Nat]],
         \A at \in Instants, other \in Task :
           index[at][other] = IF other = id THEN 0 ELSE byTime[at][other],
         store' = [store EXCEPT ![id] = copy],
         byTime' = Added(index, id, copy),
         byName' \in [Names -> Task \cup {NoTask}]
  PROVE  IndexInv'
<1>1. /\ store' \in [Task -> Copies]
      /\ store'[id] = copy
      /\ \A other \in Task : other # id => store'[other] = store[other]
  BY DEF IndexInv, IndexTypeOK
<1>2. /\ byTime' \in [Instants -> [Task -> Nat]]
      /\ \A at \in Instants, other \in Task :
           byTime'[at][other] =
             IF other # id THEN byTime[at][other]
             ELSE IF at = copy.nextRunAt /\ copy.state \in {"pending", "ready"} THEN 1 ELSE 0
  BY AddedFacts
<1>3. IndexTypeOK'
  BY <1>1, <1>2 DEF IndexTypeOK
<1>4. IndexIsBounded'
  <2> SUFFICES ASSUME NEW task \in Task, NEW at \in Instants, NEW other \in Instants,
                      byTime'[at][task] > 0
               PROVE  /\ Stored(task)'
                      /\ byTime'[at][task] = 1
                      /\ byTime'[other][task] > 0 => other = at
    BY DEF IndexIsBounded
  <2>1. CASE task = id
    BY <1>1, <1>2, <2>1 DEF Stored
  <2>2. CASE task # id
    BY <1>1, <1>2, <2>2 DEF IndexInv, IndexIsBounded, Stored
  <2> QED
    BY <2>1, <2>2
<1>5. PendingIsIndexed'
  <2> SUFFICES ASSUME NEW task \in Task, store'[task].state = "pending"
               PROVE  byTime'[store'[task].nextRunAt][task] = 1
    BY DEF PendingIsIndexed
  <2>1. store'[task].nextRunAt \in Instants
    BY <1>1 DEF Copies
  <2>2. CASE task = id
    BY <1>1, <1>2, <2>1, <2>2
  <2>3. CASE task # id
    BY <1>1, <1>2, <2>1, <2>3 DEF IndexInv, PendingIsIndexed
  <2> QED
    BY <2>2, <2>3
<1> QED
  BY <1>3, <1>4, <1>5 DEF IndexInv

\* reindexTime is what StoringKeepsIndex asks for.
LEMMA ReindexingKeepsIndex ==
  ASSUME IndexInv,
         NEW id \in Task, NEW copy \in Copies, copy.state # "none",
         store' = [store EXCEPT ![id] = copy],
         byTime' = Reindexed(id, copy),
         byName' = byName
  PROVE  IndexInv'
<1> DEFINE index == Without(byTime, id)
<1>1. /\ byTime \in [Instants -> [Task -> Nat]]
      /\ byName \in [Names -> Task \cup {NoTask}]
  BY DEF IndexInv, IndexTypeOK
<1>2. /\ index \in [Instants -> [Task -> Nat]]
      /\ \A at \in Instants, other \in Task :
           index[at][other] = IF other = id THEN 0 ELSE byTime[at][other]
  BY <1>1, WithoutFacts
<1>3. byTime' = Added(index, id, copy)
  BY DEF Reindexed
<1> HIDE DEF index
<1> QED
  BY <1>1, <1>2, <1>3, StoringKeepsIndex

\* Each method keeps the invariant of the index.
LEMMA IndexStep ==
  ASSUME IndexInv, [IndexesNext]_indexVars
  PROVE  IndexInv'
<1>t. /\ store \in [Task -> Copies]
      /\ byName \in [Names -> Task \cup {NoTask}]
      /\ byTime \in [Instants -> [Task -> Nat]]
  BY DEF IndexInv, IndexTypeOK
<1>1. ASSUME NEW id \in Task, NEW state \in TaskState, NEW at \in Instants,
             SaveNew(id, state, at)
      PROVE  IndexInv'
  <2> DEFINE copy == [state |-> state, nextRunAt |-> at]
  <2>1. copy \in Copies /\ copy.state # "none"
    BY DEF Copies, TaskState
  <2>2. /\ store' = [store EXCEPT ![id] = copy]
        /\ byTime' = Added(byTime, id, copy)
        /\ byName' \in [Names -> Task \cup {NoTask}]
        /\ ~Stored(id)
    BY <1>1, <1>t DEF SaveNew
  <2>3. \A key \in Instants, other \in Task :
          byTime[key][other] = IF other = id THEN 0 ELSE byTime[key][other]
    BY <1>t, <2>2 DEF IndexInv, IndexIsBounded
  <2> HIDE DEF copy
  <2> QED
    BY <1>t, <2>1, <2>2, <2>3, StoringKeepsIndex
<1>2. ASSUME NEW id \in Task, NEW at \in Instants,
             SaveOver(id, at) \/ SetNextRun(id, at)
      PROVE  IndexInv'
  <2> DEFINE copy == [store[id] EXCEPT !.nextRunAt = at]
  <2>1. copy \in Copies /\ copy.state # "none"
    BY <1>2, <1>t DEF Copies, SaveOver, SetNextRun, Stored
  <2>2. /\ store' = [store EXCEPT ![id] = copy]
        /\ byTime' = Reindexed(id, copy)
        /\ byName' = byName
    BY <1>2 DEF SaveOver, SetNextRun
  <2> HIDE DEF copy
  <2> QED
    BY <2>1, <2>2, ReindexingKeepsIndex
<1>3. ASSUME NEW id \in Task, NEW at \in Instants, Retry(id, at)
      PROVE  IndexInv'
  <2> DEFINE copy == [state |-> "ready", nextRunAt |-> at]
  <2>1. copy \in Copies /\ copy.state # "none"
    BY DEF Copies, TaskState
  <2>2. /\ store' = [store EXCEPT ![id] = copy]
        /\ byTime' = Reindexed(id, copy)
        /\ byName' = byName
    BY <1>3 DEF Retry
  <2> HIDE DEF copy
  <2> QED
    BY <2>1, <2>2, ReindexingKeepsIndex
<1>4. ASSUME NEW id \in Task, NEW t \in Transitions, Transition(id, t[1], t[2])
      PROVE  IndexInv'
  <2>1. /\ t[1] \in TaskState /\ t[2] \in TaskState \ {"pending"}
    BY DEF Transitions, TaskState
  <2>2. /\ store' = [store EXCEPT ![id].state = t[2]]
        /\ store[id].state = t[1]
        /\ byName' = byName /\ byTime' = byTime
    BY <1>4 DEF Transition
  <2>3. /\ store' \in [Task -> Copies]
        /\ \A other \in Task : /\ store'[other].nextRunAt = store[other].nextRunAt
                               /\ other # id => store'[other] = store[other]
        /\ store'[id].state = t[2]
    BY <1>t, <2>1, <2>2 DEF Copies
  <2>4. IndexTypeOK'
    BY <1>t, <2>2, <2>3 DEF IndexTypeOK
  <2>5. \A task \in Task : Stored(task) => Stored(task)'
    BY <2>1, <2>3 DEF Stored, TaskState
  <2>6. IndexIsBounded'
    BY <2>2, <2>5 DEF IndexInv, IndexIsBounded
  <2>7. PendingIsIndexed'
    BY <2>1, <2>2, <2>3 DEF IndexInv, PendingIsIndexed
  <2> QED
    BY <2>4, <2>6, <2>7 DEF IndexInv
<1>5. ASSUME NEW id \in Task, Delete(id)
      PROVE  IndexInv'
  <2>1. /\ store' = [store EXCEPT ![id] = NotStored]
        /\ byTime' = Without(byTime, id)
        /\ byName' \in [Names -> Task \cup {NoTask}]
    BY <1>5, <1>t DEF Delete
  <2>2. /\ store' \in [Task -> Copies]
        /\ store'[id].state = "none"
        /\ \A other \in Task : other # id => store'[other] = store[other]
    BY <1>t, <2>1, IndexesAssumption DEF NotStored, Copies, Instants
  <2>3. /\ byTime' \in [Instants -> [Task -> Nat]]
        /\ \A at \in Instants, other \in Task :
             byTime'[at][other] = IF other = id THEN 0 ELSE byTime[at][other]
    BY <1>t, <2>1, WithoutFacts
  <2>4. IndexTypeOK'
    BY <2>1, <2>2, <2>3 DEF IndexTypeOK
  <2>5. IndexIsBounded'
    BY <2>2, <2>3 DEF IndexInv, IndexIsBounded, Stored
  <2>6. PendingIsIndexed'
    <3> SUFFICES ASSUME NEW task \in Task, store'[task].state = "pending"
                 PROVE  byTime'[store'[task].nextRunAt][task] = 1
      BY DEF PendingIsIndexed
    <3>1. task # id /\ store'[task] = store[task] /\ store[task].nextRunAt \in Instants
      BY <1>t, <2>2 DEF Copies
    <3> QED
      BY <2>3, <3>1 DEF IndexInv, PendingIsIndexed
  <2> QED
    BY <2>4, <2>5, <2>6 DEF IndexInv
<1>6. ASSUME Reset
      PROVE  IndexInv'
  <2>1. /\ store' = [id \in Task |-> NotStored]
        /\ byName' = [n \in Names |-> NoTask]
        /\ byTime' = Empty
    BY <1>6 DEF Reset
  <2> QED
    BY <2>1, IndexesAssumption
    DEF IndexInv, IndexTypeOK, IndexIsBounded, PendingIsIndexed, Empty, NotStored, Copies, Instants
<1>7. ASSUME UNCHANGED indexVars
      PROVE  IndexInv'
  BY <1>7 DEF IndexInv, IndexTypeOK, IndexIsBounded, PendingIsIndexed, Stored, indexVars
<1> QED
  BY <1>1, <1>2, <1>3, <1>4, <1>5, <1>6, <1>7 DEF IndexesNext

\* Initially nothing is stored or indexed.
LEMMA IndexStart ==
  IndexesInit => IndexInv
BY IndexesAssumption
DEF IndexesInit, IndexInv, IndexTypeOK, IndexIsBounded, PendingIsIndexed, Empty, NotStored, Copies, Instants

\* The index does not grow, whatever sequence of methods is called: Save,
\* SetNextRun, Retry and Delete leave at most one entry for a stored task and
\* none for a removed one, although Transition and MarkReady leave theirs behind.
THEOREM IndexDoesNotGrow == IndexesSpec => []IndexIsBounded
<1>1. IndexInv => IndexIsBounded
  BY DEF IndexInv
<1> QED
  BY IndexStart, IndexStep, <1>1, PTL DEF IndexesSpec

\* ScanDue misses no Pending task that is due, and returns none twice, although
\* it reads the index and not the tasks.
THEOREM ScanDueMissesNothing == IndexesSpec => []ScanDueIsExact
<1>1. IndexInv => ScanDueIsExact
  <2> SUFFICES ASSUME IndexInv, NEW id \in Task, NEW now \in Instants
               PROVE  /\ id \in Due(now) <=> Scanned(id, now) # {}
                      /\ \A at, other \in Scanned(id, now) : at = other /\ byTime[at][id] = 1
    BY DEF ScanDueIsExact
  <2>1. ASSUME id \in Due(now)
        PROVE  store[id].nextRunAt \in Scanned(id, now)
    <3>1. /\ store[id].state = "pending" /\ store[id].nextRunAt <= now
          /\ store[id].nextRunAt \in Instants
      BY <2>1 DEF Due, IndexInv, IndexTypeOK, Copies
    <3>2. byTime[store[id].nextRunAt][id] = 1
      BY <3>1 DEF IndexInv, PendingIsIndexed
    <3> QED
      BY <3>1, <3>2 DEF Scanned
  <2>2. ASSUME Scanned(id, now) # {}
        PROVE  id \in Due(now)
    BY <2>2 DEF Scanned, Due
  <2>3. ASSUME NEW at \in Scanned(id, now), NEW other \in Scanned(id, now)
        PROVE  at = other /\ byTime[at][id] = 1
    BY <2>3 DEF Scanned, IndexInv, IndexIsBounded
  <2> QED
    BY <2>1, <2>2, <2>3
<1> QED
  BY IndexStart, IndexStep, <1>1, PTL DEF IndexesSpec

-----------------------------------------------------------------------------

\* Each method keeps the name table and the tasks in agreement.
LEMMA NameStep ==
  ASSUME IndexInv, NamesAgree, [IndexesNext]_indexVars
  PROVE  NamesAgree'
<1>t. /\ store \in [Task -> Copies]
      /\ byName \in [Names -> Task \cup {NoTask}]
      /\ \A id \in Task : NameOf[id] \in Names
  BY DEF IndexInv, IndexTypeOK, Names
<1>a. \A n \in Names, id \in Task :
        (Stored(id) /\ NameOf[id] = n) <=> (byName[n] = id)
  <2> SUFFICES ASSUME NEW n \in Names, NEW id \in Task
               PROVE  (Stored(id) /\ NameOf[id] = n) <=> (byName[n] = id)
    OBVIOUS
  <2>1. {other \in Task : Stored(other) /\ NameOf[other] = n} = {byName[n]} \ {NoTask}
    BY DEF NamesAgree
  <2>2. id # NoTask
    BY IndexesAssumption
  <2> QED
    BY <2>1, <2>2
<1> SUFFICES \A n \in Names, id \in Task :
               (Stored(id)' /\ NameOf[id] = n) <=> (byName'[n] = id)
  <2> SUFFICES ASSUME \A n \in Names, id \in Task :
                        (Stored(id)' /\ NameOf[id] = n) <=> (byName'[n] = id),
                      NEW n \in Names
               PROVE  {id \in Task : Stored(id)' /\ NameOf[id] = n} = {byName'[n]} \ {NoTask}
    BY DEF NamesAgree
  <2>1. byName'[n] \in Task \cup {NoTask}
    BY IndexStep DEF IndexInv, IndexTypeOK
  <2> QED
    BY <2>1, IndexesAssumption
<1>1. ASSUME NEW id \in Task, NEW state \in TaskState, NEW at \in Instants,
             SaveNew(id, state, at),
             NEW n \in Names, NEW other \in Task
      PROVE  (Stored(other)' /\ NameOf[other] = n) <=> (byName'[n] = other)
  <2>1. /\ store' = [store EXCEPT ![id] = [state |-> state, nextRunAt |-> at]]
        /\ byName' = [byName EXCEPT ![NameOf[id]] = id]
        /\ byName[NameOf[id]] = NoTask
    BY <1>1, <1>t, <1>a DEF SaveNew
  <2>2. Stored(id)' /\ (other # id => (Stored(other)' <=> Stored(other)))
    BY <1>t, <2>1 DEF Stored, TaskState
  <2>3. byName'[n] = IF n = NameOf[id] THEN id ELSE byName[n]
    BY <1>t, <2>1
  <2> QED
    BY <1>t, <1>a, <2>1, <2>2, <2>3, IndexesAssumption
<1>2. ASSUME NEW id \in Task, Delete(id),
             NEW n \in Names, NEW other \in Task
      PROVE  (Stored(other)' /\ NameOf[other] = n) <=> (byName'[n] = other)
  <2>1. /\ store' = [store EXCEPT ![id] = NotStored]
        /\ byName' = [byName EXCEPT ![NameOf[id]] = NoTask]
        /\ byName[NameOf[id]] = id
    BY <1>2, <1>t, <1>a DEF Delete
  <2>2. ~Stored(id)' /\ (other # id => (Stored(other)' <=> Stored(other)))
    BY <1>t, <2>1 DEF Stored, NotStored
  <2>3. byName'[n] = IF n = NameOf[id] THEN NoTask ELSE byName[n]
    BY <1>t, <2>1
  <2> QED
    BY <1>t, <1>a, <2>1, <2>2, <2>3, IndexesAssumption
<1>3. ASSUME Reset, NEW n \in Names, NEW id \in Task
      PROVE  (Stored(id)' /\ NameOf[id] = n) <=> (byName'[n] = id)
  BY <1>3, IndexesAssumption DEF Reset, Stored, NotStored
<1>4. ASSUME byName' = byName, \A id \in Task : Stored(id)' <=> Stored(id)
      PROVE  \A n \in Names, id \in Task :
               (Stored(id)' /\ NameOf[id] = n) <=> (byName'[n] = id)
  BY <1>4, <1>a
<1>5. ASSUME NEW id \in Task, NEW at \in Instants,
             SaveOver(id, at) \/ SetNextRun(id, at) \/ Retry(id, at)
      PROVE  byName' = byName /\ \A other \in Task : Stored(other)' <=> Stored(other)
  BY <1>5, <1>t DEF SaveOver, SetNextRun, Retry, Stored, Copies
<1>6. ASSUME NEW id \in Task, NEW t \in Transitions, Transition(id, t[1], t[2])
      PROVE  byName' = byName /\ \A other \in Task : Stored(other)' <=> Stored(other)
  <2>1. t[1] # "none" /\ t[2] # "none"
    BY DEF Transitions
  <2> QED
    BY <1>6, <1>t, <2>1 DEF Transition, Stored, Copies
<1>7. ASSUME UNCHANGED indexVars
      PROVE  byName' = byName /\ \A other \in Task : Stored(other)' <=> Stored(other)
  BY <1>7 DEF indexVars, Stored
<1> QED
  BY <1>1, <1>2, <1>3, <1>4, <1>5, <1>6, <1>7 DEF IndexesNext

\* No two stored tasks carry one name, and the name of a removed task is free:
\* what Save's duplicate check promises, through Delete, Reset and restores.
THEOREM NamesAreUnique == IndexesSpec => []NamesAgree
<1>1. IndexesInit => NamesAgree
  BY DEF IndexesInit, NamesAgree, Stored, NotStored
<1> QED
  BY IndexStart, IndexStep, NameStep, <1>1, PTL DEF IndexesSpec
=============================================================================
