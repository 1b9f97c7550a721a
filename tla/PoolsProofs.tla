------------------------------ MODULE PoolsProofs ------------------------------
(***************************************************************************)
(* Proofs about the pools, for every value of the constants, in the order  *)
(* in which they rest on each other: the supervisor and its workers; the   *)
(* router, the agreement of its two maps and that it implements            *)
(* SessionAffinity; the configuration document; and the composition of     *)
(* MCPools, which has all of them side by side.                            *)
(***************************************************************************)
EXTENDS MCPools, FiniteSetTheorems, FunctionTheorems, TLAPS

-----------------------------------------------------------------------------
(***************************************************************************)
(* The supervisor: its types, its instances, and what quarantine promises. *)
(***************************************************************************)

\* What a batch of spawns contains.
LEMMA BatchElements ==
    ASSUME NEW first \in Nat, NEW last \in Nat, NEW need,
           NEW b \in Batch(first, last, need)
    PROVE  /\ \A i \in b : /\ i \in Instance
                           /\ i.id \in first..(last - 1)
                           /\ i.supervised <=> i.state = "Ready"
                           /\ need[i.pool] > 0
           /\ \A i, j \in b : i.id = j.id => i = j
<1>1. PICK o \in [first..(last - 1) -> {p \in Pool : need[p] > 0} \X SpawnOutcomes] :
           b = {Worker(n, o[n][1], o[n][2]) : n \in first..(last - 1)}
  BY DEF Batch
<1>2. \A n \in first..(last - 1) :
          /\ n \in Nat
          /\ o[n][1] \in Pool
          /\ need[o[n][1]] > 0
          /\ o[n][2] \in {"Ready", "Failed"}
  <2> SUFFICES ASSUME NEW n \in first..(last - 1)
               PROVE  /\ n \in Nat
                      /\ o[n][1] \in Pool
                      /\ need[o[n][1]] > 0
                      /\ o[n][2] \in {"Ready", "Failed"}
    OBVIOUS
  <2>1. o[n] \in {p \in Pool : need[p] > 0} \X SpawnOutcomes
    OBVIOUS
  <2>2. o[n][1] \in {p \in Pool : need[p] > 0} /\ o[n][2] \in SpawnOutcomes
    BY <2>1
  <2>3. n \in Nat
    OBVIOUS
  <2>4. o[n][2] \in {"Ready", "Failed"}
    BY <2>2, SupervisorAssumption
  <2> QED
    BY <2>2, <2>3, <2>4
<1>3. \A n \in first..(last - 1) :
          LET w == Worker(n, o[n][1], o[n][2]) IN
          /\ w \in Instance
          /\ w.id = n
          /\ w.supervised <=> w.state = "Ready"
          /\ need[w.pool] > 0
  BY <1>2 DEF Worker, Instance
<1> QED
  BY <1>1, <1>3


\* A batch of workers that a reap, or a reap and the spawn round after it,
\* may install: fresh serials, registered pools, a child iff Ready.
GoodFresh(fresh, last) ==
    /\ fresh \subseteq Instance
    /\ last \in nextSerial..(MaxSerial + 1)
    /\ \A i \in fresh : /\ i.id \in nextSerial..(last - 1)
                        /\ i.supervised <=> i.state = "Ready"
                        /\ i.pool \in Registered
    /\ \A i, j \in fresh : i.id = j.id => i = j

\* Respawning only serves registered pools.
LEMMA RespawnIsGood ==
    ASSUME SupTypeOK, NEW last \in nextSerial..(MaxSerial + 1),
           NEW fresh \in Batch(nextSerial, last, RespawnNeed)
    PROVE  GoodFresh(fresh, last)
<1>1. nextSerial \in Nat /\ last \in Nat
  BY SupervisorAssumption DEF SupTypeOK
<1>2. \A p \in Pool : RespawnNeed[p] > 0 => p \in Registered
  BY DEF RespawnNeed, Shortfall
<1> HIDE DEF RespawnNeed
<1> QED
  BY <1>1, <1>2, BatchElements DEF GoodFresh, Instance

\* Two rounds of spawns under one lock are one good batch.
LEMMA TwoRoundsAreGood ==
    ASSUME SupTypeOK, NEW p \in Pool, NEW want,
           want > 0 => p \in Registered,
           NEW mid \in nextSerial..(MaxSerial + 1),
           NEW last \in mid..(MaxSerial + 1),
           NEW fresh \in Batch(nextSerial, mid, RespawnNeed),
           NEW more \in Batch(mid, last,
                              [q \in Pool |-> IF q = p THEN want ELSE 0])
    PROVE  GoodFresh(fresh \cup more, last)
<1>1. nextSerial \in Nat /\ mid \in Nat /\ last \in Nat
  BY SupervisorAssumption DEF SupTypeOK
<1>2. GoodFresh(fresh, mid)
  BY RespawnIsGood
<1> DEFINE need == [q \in Pool |-> IF q = p THEN want ELSE 0]
<1>3. \A q \in Pool : need[q] > 0 => q \in Registered
  OBVIOUS
<1> HIDE DEF need
<1>4. /\ \A i \in more : /\ i \in Instance
                         /\ i.id \in mid..(last - 1)
                         /\ i.supervised <=> i.state = "Ready"
                         /\ need[i.pool] > 0
      /\ \A i, j \in more : i.id = j.id => i = j
  BY <1>1, BatchElements DEF need
<1> QED
  BY <1>1, <1>2, <1>3, <1>4 DEF GoodFresh, Instance

\* The steps that contain a reap all have the same shape.
LEMMA ReapingSteps ==
    ASSUME SupTypeOK,
           \/ Reap
           \/ \E k \in calls : EnsureMinInstances(k) \/ \E n : ScaleUpOnce(k, n)
    PROVE  \E last, fresh : GoodFresh(fresh, last) /\ ReapInto(fresh, last)
<1>1. CASE Reap
  BY <1>1, RespawnIsGood DEF Reap
<1>2. ASSUME NEW k \in calls, EnsureMinInstances(k)
      PROVE  \E last, fresh : GoodFresh(fresh, last) /\ ReapInto(fresh, last)
  <2>1. PICK mid \in nextSerial..(MaxSerial + 1) :
           \E last \in mid..(MaxSerial + 1) :
             \E fresh \in Batch(nextSerial, mid, RespawnNeed) :
               \E more \in Batch(mid, last,
                            [q \in Pool |-> IF q = k.pool
                              THEN Shortfall(Survivors \cup fresh, k.pool)
                              ELSE 0]) :
                 ReapInto(fresh \cup more, last)
    BY <1>2 DEF EnsureMinInstances, ReapThenSpawn
  <2>2. k.pool \in Pool
    BY DEF SupTypeOK
  <2>3. \A insts : Shortfall(insts, k.pool) > 0 => k.pool \in Registered
    BY DEF Shortfall
  <2> QED
    BY <2>1, <2>2, <2>3, TwoRoundsAreGood
<1>3. ASSUME NEW k \in calls, NEW n, ScaleUpOnce(k, n)
      PROVE  \E last, fresh : GoodFresh(fresh, last) /\ ReapInto(fresh, last)
  <2>1. PICK mid \in nextSerial..(MaxSerial + 1) :
           \E last \in mid..(MaxSerial + 1) :
             \E fresh \in Batch(nextSerial, mid, RespawnNeed) :
               \E more \in Batch(mid, last,
                            [q \in Pool |-> IF q = k.pool
                              THEN HeadroomBelowMax(Survivors \cup fresh, k.pool)
                              ELSE 0]) :
                 ReapInto(fresh \cup more, last)
    BY <1>3 DEF ScaleUpOnce, ReapThenSpawn
  <2>2. k.pool \in Pool
    BY DEF SupTypeOK
  <2>3. \A insts : HeadroomBelowMax(insts, k.pool) > 0 => k.pool \in Registered
    BY DEF HeadroomBelowMax
  <2> QED
    BY <2>1, <2>2, <2>3, TwoRoundsAreGood
<1> QED
  BY <1>1, <1>2, <1>3

-----------------------------------------------------------------------------
(* Type correctness *)

\* What the bookkeeping after a reap is made of.
LEMMA ReapTypes ==
    ASSUME SupTypeOK, NEW last, NEW fresh,
           GoodFresh(fresh, last), ReapInto(fresh, last)
    PROVE  /\ instances' \subseteq Instance
           /\ children' \subseteq Nat
           /\ alive' \subseteq Nat
           /\ nextSerial' \in Nat
           /\ failures' \in [Pool -> SUBSET Failure]
           /\ quarantine' \in [Pool -> Nat]
           /\ UNCHANGED << pools, shuttingDown, stopper >>
<1>1. instances' \subseteq Instance
  BY DEF SupTypeOK, GoodFresh, ReapInto, Survivors
<1>2. Supervised(fresh) \subseteq Nat
  BY DEF Supervised, GoodFresh, Instance
<1>3. children' \subseteq Nat /\ alive' \subseteq Nat
  BY <1>2 DEF SupTypeOK, ReapInto
<1>4. nextSerial' \in Nat
  BY SupervisorAssumption DEF SupTypeOK, GoodFresh, ReapInto
<1>5. ASSUME NEW p \in Pool
      PROVE  FailuresAfterReap(p) \subseteq Failure
  <2>1. \A i \in DeadOf(p) : i.id \in Nat
    BY DEF DeadOf, DeadInstances, SupTypeOK, Instance
  <2>2. {[id |-> i.id, age |-> 0] : i \in DeadOf(p)} \subseteq Failure
    BY <2>1, SupervisorAssumption DEF Failure
  <2>3. failures[p] \subseteq Failure
    BY DEF SupTypeOK
  <2> QED
    BY <2>2, <2>3 DEF FailuresAfterReap, Recent
<1>6. failures' \in [Pool -> SUBSET Failure]
  BY <1>5 DEF ReapInto
<1>7. \A p \in Pool : QuarantineAfterReap(p) \in Nat
  BY SupervisorAssumption DEF QuarantineAfterReap, SupTypeOK
<1>8. quarantine' \in [Pool -> Nat]
  BY <1>7 DEF ReapInto
<1> QED
  BY <1>1, <1>3, <1>4, <1>6, <1>8 DEF ReapInto

LEMMA TickTypes ==
    ASSUME SupTypeOK, Tick
    PROVE  failures' \in [Pool -> SUBSET Failure] /\ quarantine' \in [Pool -> Nat]
<1>1. ASSUME NEW p \in Pool
      PROVE  {[f EXCEPT !.age = IF f.age > Window THEN f.age ELSE f.age + 1] :
                 f \in failures[p]} \subseteq Failure
  <2>1. ASSUME NEW f \in failures[p]
        PROVE  [f EXCEPT !.age = IF f.age > Window THEN f.age ELSE f.age + 1]
                  \in Failure
    <3>1. f \in Failure
      BY DEF SupTypeOK
    <3>2. f.id \in Nat /\ f.age \in 0..(Window + 1)
      BY <3>1 DEF Failure
    <3>3. (IF f.age > Window THEN f.age ELSE f.age + 1) \in 0..(Window + 1)
      BY <3>2, SupervisorAssumption
    <3> QED
      BY <3>1, <3>2, <3>3 DEF Failure
  <2> QED
    BY <2>1
<1>2. failures' \in [Pool -> SUBSET Failure]
  BY <1>1 DEF Tick
<1>3. ASSUME NEW p \in Pool
      PROVE  (IF quarantine[p] = 0 THEN 0 ELSE quarantine[p] - 1) \in Nat
  <2>1. quarantine[p] \in Nat
    BY DEF SupTypeOK
  <2> QED
    BY <2>1
<1>4. quarantine' \in [Pool -> Nat]
  BY <1>3 DEF Tick
<1> QED
  BY <1>2, <1>4

LEMMA SupTypeStep == SupTypeOK /\ [SupNext]_supVars => SupTypeOK'
<1> SUFFICES ASSUME SupTypeOK, [SupNext]_supVars
             PROVE  SupTypeOK'
  OBVIOUS
<1>1. CASE ReadPools
  <2>1. PICK last, fresh : GoodFresh(fresh, last) /\ ReapInto(fresh, last)
    BY <1>1, ReapingSteps DEF ReadPools
  <2> QED
    BY <1>1, <2>1, ReapTypes DEF ReadPools, SupTypeOK, Registered
<1>2. ASSUME NEW k \in calls, EnsureMinInstances(k) \/ \E n : ScaleUpOnce(k, n)
      PROVE  SupTypeOK'
  <2>1. PICK last, fresh : GoodFresh(fresh, last) /\ ReapInto(fresh, last)
    BY <1>2, ReapingSteps
  <2>2. calls' \subseteq calls /\ watchdog' = watchdog
    BY <1>2 DEF EnsureMinInstances, ScaleUpOnce
  <2> QED
    BY <2>1, <2>2, ReapTypes DEF SupTypeOK, Registered
<1>3. CASE WatchdogReap
  <2>1. PICK last, fresh : GoodFresh(fresh, last) /\ ReapInto(fresh, last)
    BY <1>3, ReapingSteps DEF WatchdogReap
  <2> QED
    BY <1>3, <2>1, ReapTypes DEF WatchdogReap, SupTypeOK, Registered
<1>4. ASSUME NEW p \in Pool, NEW policy \in Policies, UpsertPool(p, policy)
      PROVE  SupTypeOK'
  BY <1>4 DEF UpsertPool, SupTypeOK, Registered
<1>5. ASSUME NEW p \in Pool, RemovePool(p)
      PROVE  SupTypeOK'
  BY <1>5 DEF RemovePool, SupTypeOK, Registered
<1>6. ASSUME NEW p \in Pool, DrainPool(p)
      PROVE  SupTypeOK'
  <2>1. \A i \in instances : [i EXCEPT !.state = "Draining"] \in Instance
    BY DEF SupTypeOK, Instance
  <2>2. instances' \subseteq Instance
    BY <1>6, <2>1 DEF DrainPool, SupTypeOK
  <2> QED
    BY <1>6, <2>2 DEF DrainPool, SupTypeOK, Registered
<1>7. ASSUME NEW c \in Caller, NEW op \in Ops, NEW p \in Pool, BeginCall(c, op, p)
      PROVE  SupTypeOK'
  BY <1>7 DEF BeginCall, SupTypeOK, Registered
<1>8. CASE BeginShutdown
  BY <1>8 DEF BeginShutdown, SupTypeOK, Registered
<1>9. CASE TerminateAll
  BY <1>9 DEF TerminateAll, SupTypeOK, Registered
<1>10. CASE WatchdogPrune
  <2>1. failures' \in [Pool -> SUBSET Failure]
    BY <1>10 DEF WatchdogPrune, SupTypeOK, Recent
  <2> QED
    BY <1>10, <2>1 DEF WatchdogPrune, SupTypeOK, Registered
<1>11. ASSUME NEW i \in instances, WriteFailure(i)
       PROVE  SupTypeOK'
  BY <1>11 DEF WriteFailure, SupTypeOK, Registered
<1>12. ASSUME NEW n \in alive, WorkerExits(n)
       PROVE  SupTypeOK'
  BY <1>12 DEF WorkerExits, SupTypeOK, Registered
<1>13. CASE Tick
  BY <1>13, TickTypes DEF Tick, SupTypeOK, Registered
<1>14. CASE UNCHANGED supVars
  BY <1>14 DEF supVars, SupTypeOK, Registered
<1> QED
  BY <1>1, <1>2, <1>3, <1>4, <1>5, <1>6, <1>7, <1>8, <1>9, <1>10, <1>11,
     <1>12, <1>13, <1>14 DEF SupNext

\* Every variable of the supervisor keeps its type, for any set of pools,
\* policies, callers and any breaker settings.
THEOREM SupervisorTypes == SupSpec => []SupTypeOK
<1>1. SupInit => SupTypeOK
  <2> SUFFICES ASSUME SupInit PROVE SupTypeOK
    OBVIOUS
  <2>1. Registered = {} /\ pools \in [Registered -> ValidPolicy]
    BY DEF SupInit, Registered
  <2>2. failures \in [Pool -> SUBSET Failure] /\ quarantine \in [Pool -> Nat]
    BY DEF SupInit
  <2> QED
    BY <2>1, <2>2 DEF SupInit, SupTypeOK
<1>2. QED
  BY <1>1, SupTypeStep, PTL DEF SupSpec

-----------------------------------------------------------------------------
(* Process ownership *)

\* The inductive strengthening of NoOrphanWorker: the tables agree, a running
\* process has a child record, and no instance belongs to a removed pool.
Ownership ==
    /\ SupTypeOK
    /\ BookkeepingAgrees
    /\ alive \subseteq children
    /\ \A i \in instances : i.pool \in Registered

\* Taking the instances in gone away, and the child records of their ids,
\* leaves the two tables in agreement.
LEMMA DroppingInstances ==
    ASSUME BookkeepingAgrees, NEW gone \in SUBSET instances
    PROVE  children \ IdsOf(gone) = Supervised(instances \ gone)
BY DEF BookkeepingAgrees, IdsOf, Supervised

LEMMA ReapKeepsOwnership ==
    ASSUME Ownership, SupTypeOK', NEW last, NEW fresh,
           GoodFresh(fresh, last), ReapInto(fresh, last)
    PROVE  Ownership'
<1>1. /\ instances' = Survivors \cup fresh
      /\ children' = (children \ IdsOf(DeadInstances)) \cup Supervised(fresh)
      /\ alive' = (alive \ IdsOf(DeadInstances)) \cup Supervised(fresh)
      /\ nextSerial' = last
      /\ pools' = pools
  BY DEF ReapInto
<1>2. Survivors \subseteq instances
  BY DEF Survivors
<1>3. nextSerial \in Nat /\ nextSerial <= last /\ last \in Nat
  BY SupervisorAssumption DEF GoodFresh, Ownership, SupTypeOK
<1>4. \A i \in Survivors : i.id \in Nat /\ i.id < nextSerial
  BY <1>2 DEF Ownership, SupTypeOK, BookkeepingAgrees, Instance
<1>5. \A i \in fresh : i.id \in Nat /\ i.id >= nextSerial /\ i.id < last
  BY <1>3 DEF GoodFresh
<1>6. \A i, j \in instances' : i.id = j.id => i = j
  <2>1. \A i, j \in Survivors : i.id = j.id => i = j
    BY <1>2 DEF Ownership, BookkeepingAgrees
  <2>2. \A i, j \in fresh : i.id = j.id => i = j
    BY DEF GoodFresh
  <2>3. \A i \in Survivors, j \in fresh : i.id # j.id
    BY <1>3, <1>4, <1>5
  <2> QED
    BY <1>1, <2>1, <2>2, <2>3
<1>7. children' = Supervised(instances')
  <2>1. children \ IdsOf(DeadInstances) = Supervised(Survivors)
    BY DroppingInstances DEF Ownership, Survivors, DeadInstances
  <2>2. Supervised(Survivors) \cup Supervised(fresh) = Supervised(Survivors \cup fresh)
    BY DEF Supervised
  <2> QED
    BY <1>1, <2>1, <2>2 DEF Supervised
<1>8. \A i \in instances' : i.id < nextSerial'
  BY <1>1, <1>3, <1>4, <1>5
<1>9. BookkeepingAgrees'
  BY <1>6, <1>7, <1>8 DEF BookkeepingAgrees, Supervised
<1>10. alive' \subseteq children'
  BY <1>1 DEF Ownership
<1>11. \A i \in instances' : i.pool \in DOMAIN pools'
  BY <1>1, <1>2 DEF Ownership, GoodFresh, Registered
<1> QED
  BY <1>9, <1>10, <1>11 DEF Ownership, Registered

LEMMA OwnershipStep == Ownership /\ [SupNext]_supVars => Ownership'
<1> SUFFICES ASSUME Ownership, [SupNext]_supVars
             PROVE  Ownership'
  OBVIOUS
<1>0. SupTypeOK /\ SupTypeOK'
  BY SupTypeStep DEF Ownership
<1>1. CASE ReadPools \/ WatchdogReap
  BY <1>0, <1>1, ReapingSteps, ReapKeepsOwnership DEF ReadPools, WatchdogReap
<1>2. CASE \E k \in calls : EnsureMinInstances(k) \/ \E n : ScaleUpOnce(k, n)
  BY <1>0, <1>2, ReapingSteps, ReapKeepsOwnership
<1>3. ASSUME NEW p \in Pool, NEW policy \in Policies, UpsertPool(p, policy)
      PROVE  Ownership'
  <2>1. Registered \subseteq DOMAIN pools'
    BY <1>3 DEF UpsertPool
  <2> QED
    BY <1>0, <1>3, <2>1
       DEF UpsertPool, Ownership, BookkeepingAgrees, Supervised, Registered
<1>4. ASSUME NEW p \in Pool, RemovePool(p)
      PROVE  Ownership'
  <2> DEFINE gone == {i \in instances : i.pool = p}
  <2>1. /\ instances' = instances \ gone
        /\ children' = children \ IdsOf(gone)
        /\ alive' = alive \ IdsOf(gone)
        /\ nextSerial' = nextSerial
        /\ DOMAIN pools' = Registered \ {p}
    BY <1>4 DEF RemovePool
  <2>2. children' = Supervised(instances \ gone)
    BY <2>1, DroppingInstances DEF Ownership
  <2>3. BookkeepingAgrees'
    BY <2>1, <2>2 DEF BookkeepingAgrees, Ownership, Supervised
  <2>4. \A i \in instances' : i.pool \in DOMAIN pools'
    BY <2>1 DEF Ownership
  <2> QED
    BY <1>0, <2>1, <2>3, <2>4 DEF Ownership, Registered
<1>5. ASSUME NEW p \in Pool, DrainPool(p)
      PROVE  Ownership'
  <2> DEFINE drained(i) == IF i.pool = p THEN [i EXCEPT !.state = "Draining"] ELSE i
  <2>1. instances' = {drained(i) : i \in instances}
    BY <1>5 DEF DrainPool
  <2>2. \A i \in instances : /\ drained(i).id = i.id
                             /\ drained(i).pool = i.pool
                             /\ drained(i).supervised = i.supervised
    BY <1>0 DEF SupTypeOK, Instance
  <2> HIDE DEF drained
  <2>3. Supervised(instances') = Supervised(instances)
    BY <2>1, <2>2 DEF Supervised
  <2>4. \A i, j \in instances' : i.id = j.id => i = j
    BY <2>1, <2>2 DEF Ownership, BookkeepingAgrees
  <2>5. \A i \in instances' : i.id < nextSerial /\ i.pool \in Registered
    BY <2>1, <2>2 DEF Ownership, BookkeepingAgrees
  <2>6. UNCHANGED << pools, children, alive, nextSerial >>
    BY <1>5 DEF DrainPool
  <2>7. BookkeepingAgrees'
    BY <2>3, <2>4, <2>5, <2>6 DEF Ownership, BookkeepingAgrees, Supervised
  <2> QED
    BY <1>0, <2>5, <2>6, <2>7 DEF Ownership, Registered
<1>6. CASE TerminateAll
  <2>1. Supervised({}) = {}
    BY DEF Supervised
  <2>2. children' = Supervised({}) /\ alive' = {}
    BY <1>6, <2>1 DEF TerminateAll, Ownership, BookkeepingAgrees, Supervised, IdsOf
  <2> QED
    BY <1>0, <1>6, <2>1, <2>2
       DEF TerminateAll, Ownership, BookkeepingAgrees, Supervised
<1>7. ASSUME NEW i \in instances, WriteFailure(i)
      PROVE  Ownership'
  <2>1. /\ instances' = instances \ {i}
        /\ children' = children \ IdsOf({i})
        /\ alive' = alive \ {i.id}
        /\ UNCHANGED << pools, nextSerial >>
    BY <1>7 DEF WriteFailure, IdsOf
  <2>2. children' = Supervised(instances \ {i})
    BY <2>1, DroppingInstances DEF Ownership
  <2> QED
    BY <1>0, <2>1, <2>2 DEF Ownership, BookkeepingAgrees, Supervised, Registered, IdsOf
<1>8. ASSUME NEW n \in alive, WorkerExits(n)
      PROVE  Ownership'
  BY <1>0, <1>8 DEF WorkerExits, Ownership, BookkeepingAgrees, Supervised, Registered
<1>9. CASE \/ \E c \in Caller, op \in Ops, p \in Pool : BeginCall(c, op, p)
           \/ BeginShutdown
           \/ WatchdogPrune
           \/ Tick
           \/ UNCHANGED supVars
  <2>1. UNCHANGED << pools, instances, children, alive, nextSerial >>
    BY <1>9 DEF BeginCall, BeginShutdown, WatchdogPrune, Tick, supVars
  <2> QED
    BY <1>0, <2>1 DEF Ownership, BookkeepingAgrees, Supervised, Registered
<1> QED
  BY <1>1, <1>2, <1>3, <1>4, <1>5, <1>6, <1>7, <1>8, <1>9 DEF SupNext

LEMMA OwnershipStart == SupInit => Ownership
<1> SUFFICES ASSUME SupInit PROVE Ownership
  OBVIOUS
<1>1. SupTypeOK
  <2>1. Registered = {} /\ pools \in [Registered -> ValidPolicy]
    BY DEF SupInit, Registered
  <2>2. failures \in [Pool -> SUBSET Failure] /\ quarantine \in [Pool -> Nat]
    BY DEF SupInit
  <2> QED
    BY <2>1, <2>2 DEF SupInit, SupTypeOK
<1> QED
  BY <1>1 DEF SupInit, Ownership, BookkeepingAgrees, Supervised

LEMMA OwnershipHolds == SupSpec => []Ownership
  BY OwnershipStart, OwnershipStep, PTL DEF SupSpec

\* No step, in any interleaving of reaps, scale calls, removals, drains, write
\* failures, crashes and shutdown, leaves a worker process that the
\* supervisor has lost track of.
THEOREM NoOrphanWorkers == SupSpec => []NoOrphanWorker
<1>1. Ownership => NoOrphanWorker
  BY DEF Ownership, NoOrphanWorker, BookkeepingAgrees, Supervised
<1>2. QED
  BY <1>1, OwnershipHolds, PTL

\* children_ and the instance lists never disagree.
THEOREM BookkeepingAlwaysAgrees == SupSpec => []BookkeepingAgrees
<1>1. Ownership => BookkeepingAgrees
  BY DEF Ownership
<1>2. QED
  BY <1>1, OwnershipHolds, PTL

-----------------------------------------------------------------------------
(* Growth *)

\* Instances with ids of their own below a serial are finitely many.
LEMMA FewIds ==
    ASSUME NEW insts, NEW n \in Nat, \A i \in insts : i.id \in Nat /\ i.id < n,
           \A i, j \in insts : i.id = j.id => i = j
    PROVE  IsFiniteSet(insts)
<1> DEFINE f == [i \in insts |-> i.id]
<1>1. f \in [insts -> 0 .. n] /\ \A i, j \in insts : f[i] = f[j] => i = j
  OBVIOUS
<1> HIDE DEF f
<1>2. f \in Injection(insts, 0 .. n)
  BY <1>1, Fun_IsInj
<1>3. IsFiniteSet(0 .. n)
  BY FS_Interval
<1> QED
  BY <1>2, <1>3, FS_Injection

LEMMA HealthyIsFinite ==
    ASSUME NEW insts, IsFiniteSet(insts), NEW p
    PROVE  IsFiniteSet(Healthy(insts, p)) /\ Cardinality(Healthy(insts, p)) \in Nat
<1>1. Healthy(insts, p) \subseteq insts
  BY DEF Healthy
<1> QED
  BY <1>1, FS_Subset, FS_CardinalityType

LEMMA FewerHealthy ==
    ASSUME NEW insts, IsFiniteSet(insts), NEW p, NEW some, Healthy(some, p) \subseteq Healthy(insts, p)
    PROVE  Cardinality(Healthy(some, p)) <= Cardinality(Healthy(insts, p))
  BY HealthyIsFinite, FS_Subset

\* A round of spawns adds at most what it was to start.
LEMMA RoundBounded ==
    ASSUME NEW first, NEW last, NEW need, NEW b \in Batch(first, last, need),
           NEW base, IsFiniteSet(base \cup b), NEW p \in Pool, need[p] \in Nat
    PROVE  /\ Cardinality(Healthy(base \cup b, p)) \in Nat /\ Cardinality(Healthy(base, p)) \in Nat
           /\ Cardinality(Healthy(base \cup b, p)) <= Cardinality(Healthy(base, p)) + need[p]
<1>1. IsFiniteSet(base) /\ IsFiniteSet(b)
  BY FS_Subset
<1>2. /\ IsFiniteSet(Healthy(base, p)) /\ Cardinality(Healthy(base, p)) \in Nat
      /\ IsFiniteSet(Healthy(b, p)) /\ Cardinality(Healthy(b, p)) \in Nat
      /\ Cardinality(Healthy(base \cup b, p)) \in Nat
  BY <1>1, HealthyIsFinite
<1>3. Healthy(base \cup b, p) = Healthy(base, p) \cup Healthy(b, p)
  BY DEF Healthy
<1>4. Cardinality(Healthy(base, p) \cap Healthy(b, p)) \in Nat
  <2>1. Healthy(base, p) \cap Healthy(b, p) \subseteq Healthy(b, p)
    OBVIOUS
  <2> QED
    BY <1>2, <2>1, FS_Subset, FS_CardinalityType
<1>5. Cardinality(Healthy(base \cup b, p)) <= Cardinality(Healthy(base, p)) + Cardinality(Healthy(b, p))
  <2>1. Cardinality(Healthy(base, p) \cup Healthy(b, p))
          = Cardinality(Healthy(base, p)) + Cardinality(Healthy(b, p))
              - Cardinality(Healthy(base, p) \cap Healthy(b, p))
    BY <1>2, FS_Union
  <2>2. \A x, y, z \in Nat : x + y - z <= x + y
    OBVIOUS
  <2>3. Cardinality(Healthy(base, p)) + Cardinality(Healthy(b, p))
              - Cardinality(Healthy(base, p) \cap Healthy(b, p))
          <= Cardinality(Healthy(base, p)) + Cardinality(Healthy(b, p))
    BY <1>2, <1>4, <2>2
  <2> QED
    BY <1>3, <2>1, <2>3, Zenon
<1>6. Cardinality(Healthy(b, p)) <= need[p]
  <2>1. Cardinality({i \in b : i.pool = p}) = need[p]
    BY DEF Batch
  <2>2. Healthy(b, p) \subseteq {i \in b : i.pool = p}
    BY DEF Healthy
  <2>3. IsFiniteSet({i \in b : i.pool = p})
    BY <1>1, FS_Subset
  <2> QED
    BY <2>1, <2>2, <2>3, FS_Subset
<1> QED
  BY <1>2, <1>5, <1>6

\* A registered policy has numbers that are in order.
LEMMA PolicyInOrder ==
    ASSUME SupTypeOK, NEW p \in Registered
    PROVE  /\ p \in Pool /\ pools[p].min \in Nat /\ pools[p].max \in Nat
           /\ pools[p].min <= pools[p].max
<1>1. pools[p] \in ValidPolicy
  BY DEF SupTypeOK
<1>2. pools[p] \in Policy
  BY <1>1, SupervisorAssumption DEF ValidPolicy
<1> QED
  BY <1>1, <1>2 DEF SupTypeOK, ValidPolicy, Policy

\* The respawn pass brings no pool past its floor, and the floor is not above
\* the limit.
LEMMA RespawnBounded ==
    ASSUME Ownership, NEW last, NEW fresh \in Batch(nextSerial, last, RespawnNeed),
           IsFiniteSet(Survivors \cup fresh), NEW p \in Registered
    PROVE  /\ Cardinality(Healthy(Survivors \cup fresh, p)) \in Nat
           /\ \/ Cardinality(Healthy(Survivors \cup fresh, p)) <= Cardinality(Healthy(instances, p))
              \/ Cardinality(Healthy(Survivors \cup fresh, p)) <= pools[p].max
<1>1. /\ p \in Pool /\ pools[p].min \in Nat /\ pools[p].max \in Nat
      /\ pools[p].min <= pools[p].max
  BY PolicyInOrder DEF Ownership
<1>2. IsFiniteSet(instances)
  BY FewIds DEF Ownership, SupTypeOK, BookkeepingAgrees, Instance
<1>3. Cardinality(Healthy(Survivors, p)) \in Nat
  <2>1. IsFiniteSet(Survivors)
    BY FS_Subset
  <2> QED
    BY <2>1, HealthyIsFinite
<1>4. Cardinality(Healthy(Survivors, p)) <= Cardinality(Healthy(instances, p))
  <2>1. Healthy(Survivors, p) \subseteq Healthy(instances, p)
    BY DEF Healthy, Survivors
  <2> QED
    BY <1>2, <2>1, FewerHealthy
<1>5. /\ RespawnNeed[p] \in Nat
      /\ \/ RespawnNeed[p] = 0
         \/ Cardinality(Healthy(Survivors, p)) + RespawnNeed[p] = pools[p].min
  BY <1>1, <1>3 DEF RespawnNeed, Shortfall
<1>6. /\ Cardinality(Healthy(Survivors \cup fresh, p)) \in Nat
      /\ Cardinality(Healthy(Survivors \cup fresh, p))
           <= Cardinality(Healthy(Survivors, p)) + RespawnNeed[p]
  BY <1>1, <1>5, RoundBounded
<1>7. Cardinality(Healthy(instances, p)) \in Nat
  BY <1>2, HealthyIsFinite
<1> QED
  BY <1>1, <1>3, <1>4, <1>5, <1>6, <1>7

\* Neither does the second round: ensureMinInstances stops at the floor and
\* scaleUpOnce at the limit, both counted after the respawn pass.
LEMMA SecondRoundBounded ==
    ASSUME Ownership, Ownership', NEW mid, NEW last, NEW k \in calls, NEW want,
           NEW fresh \in Batch(nextSerial, mid, RespawnNeed),
           NEW more \in Batch(mid, last, [q \in Pool |-> IF q = k.pool THEN want ELSE 0]),
           \/ want = Shortfall(Survivors \cup fresh, k.pool)
           \/ want = HeadroomBelowMax(Survivors \cup fresh, k.pool),
           ReapInto(fresh \cup more, last), NEW p \in Registered
    PROVE  \/ Cardinality(Healthy(instances', p)) <= Cardinality(Healthy(instances, p))
           \/ Cardinality(Healthy(instances', p)) <= pools[p].max
<1> DEFINE base == Survivors \cup fresh
           need == [q \in Pool |-> IF q = k.pool THEN want ELSE 0]
<1>1. /\ p \in Pool /\ pools[p].min \in Nat /\ pools[p].max \in Nat
      /\ pools[p].min <= pools[p].max
  BY PolicyInOrder DEF Ownership
<1>2. instances' = base \cup more
  BY DEF ReapInto
<1>3. IsFiniteSet(instances') /\ IsFiniteSet(instances)
  <2>1. IsFiniteSet(instances)
    BY FewIds DEF Ownership, SupTypeOK, BookkeepingAgrees, Instance
  <2>2. IsFiniteSet(instances')
    BY FewIds DEF Ownership, SupTypeOK, BookkeepingAgrees, Instance
  <2> QED
    BY <2>1, <2>2
<1>4. IsFiniteSet(base)
  BY <1>2, <1>3, FS_Subset
<1>5. /\ Cardinality(Healthy(base, p)) \in Nat
      /\ \/ Cardinality(Healthy(base, p)) <= Cardinality(Healthy(instances, p))
         \/ Cardinality(Healthy(base, p)) <= pools[p].max
  BY <1>4, RespawnBounded
<1>6. Cardinality(Healthy(instances, p)) \in Nat
  BY <1>3, HealthyIsFinite
<1> HIDE DEF base
<1>7. /\ need[p] \in Nat
      /\ need[p] = 0 \/ Cardinality(Healthy(base, p)) + need[p] <= pools[p].max
  <2>1. CASE p # k.pool
    BY <1>1, <2>1
  <2>2. CASE p = k.pool
    <3>1. need[p] = want
      BY <1>1, <2>2
    <3>2. want = Shortfall(base, p) \/ want = HeadroomBelowMax(base, p)
      BY <2>2 DEF base
    <3> HIDE DEF need
    <3> QED
      BY <1>1, <1>5, <3>1, <3>2 DEF Shortfall, HeadroomBelowMax
  <2> QED
    BY <2>1, <2>2
<1> HIDE DEF need
<1>8. /\ Cardinality(Healthy(instances', p)) \in Nat
      /\ Cardinality(Healthy(instances', p)) <= Cardinality(Healthy(base, p)) + need[p]
  <2>1. more \in Batch(mid, last, need)
    BY DEF need
  <2>2. IsFiniteSet(base \cup more)
    BY <1>2, <1>3
  <2>3. /\ Cardinality(Healthy(base \cup more, p)) \in Nat
        /\ Cardinality(Healthy(base \cup more, p)) <= Cardinality(Healthy(base, p)) + need[p]
    BY <1>1, <1>7, <2>1, <2>2, RoundBounded
  <2> QED
    BY <1>2, <2>3
<1> QED
  BY <1>1, <1>5, <1>6, <1>7, <1>8

GrowsWithin ==
    \A p \in DOMAIN pools' :
        Cardinality(Healthy(instances', p)) > Cardinality(Healthy(instances, p))
            => Cardinality(Healthy(instances', p)) <= pools'[p].max

LEMMA GrowthStep == Ownership /\ Ownership' /\ [SupNext]_supVars => GrowsWithin
<1> SUFFICES ASSUME Ownership, Ownership', [SupNext]_supVars
             PROVE  GrowsWithin
  OBVIOUS
<1>1. IsFiniteSet(instances) /\ IsFiniteSet(instances')
  <2>1. IsFiniteSet(instances)
    BY FewIds DEF Ownership, SupTypeOK, BookkeepingAgrees, Instance
  <2>2. IsFiniteSet(instances')
    BY FewIds DEF Ownership, SupTypeOK, BookkeepingAgrees, Instance
  <2> QED
    BY <2>1, <2>2
<1> SUFFICES ASSUME NEW p \in DOMAIN pools'
             PROVE  \/ Cardinality(Healthy(instances', p)) <= Cardinality(Healthy(instances, p))
                    \/ Cardinality(Healthy(instances', p)) <= pools'[p].max
  <2>1. \A q : Cardinality(Healthy(instances, q)) \in Nat /\ Cardinality(Healthy(instances', q)) \in Nat
    BY <1>1, HealthyIsFinite
  <2> QED
    BY <2>1 DEF GrowsWithin
<1>2. ASSUME Healthy(instances', p) \subseteq Healthy(instances, p)
      PROVE  Cardinality(Healthy(instances', p)) <= Cardinality(Healthy(instances, p))
  BY <1>1, <1>2, FewerHealthy
<1>3. CASE ReadPools \/ WatchdogReap
  <2>1. PICK last, fresh : fresh \in Batch(nextSerial, last, RespawnNeed) /\ ReapInto(fresh, last)
    BY <1>3 DEF ReadPools, WatchdogReap, Reap
  <2>2. instances' = Survivors \cup fresh /\ pools' = pools
    BY <2>1 DEF ReapInto
  <2> QED
    BY <1>1, <2>1, <2>2, RespawnBounded DEF Registered
<1>4. ASSUME NEW k \in calls, EnsureMinInstances(k)
      PROVE  \/ Cardinality(Healthy(instances', p)) <= Cardinality(Healthy(instances, p))
             \/ Cardinality(Healthy(instances', p)) <= pools'[p].max
  <2>1. PICK mid \in nextSerial..(MaxSerial + 1) :
           \E last \in mid..(MaxSerial + 1) :
             \E fresh \in Batch(nextSerial, mid, RespawnNeed) :
               \E more \in Batch(mid, last,
                            [q \in Pool |-> IF q = k.pool
                              THEN Shortfall(Survivors \cup fresh, k.pool)
                              ELSE 0]) :
                 ReapInto(fresh \cup more, last)
    BY <1>4 DEF EnsureMinInstances, ReapThenSpawn
  <2>2. pools' = pools
    BY <2>1 DEF ReapInto
  <2> QED
    BY <2>1, <2>2, SecondRoundBounded DEF Registered
<1>5. ASSUME NEW k \in calls, NEW n, ScaleUpOnce(k, n)
      PROVE  \/ Cardinality(Healthy(instances', p)) <= Cardinality(Healthy(instances, p))
             \/ Cardinality(Healthy(instances', p)) <= pools'[p].max
  <2>1. PICK mid \in nextSerial..(MaxSerial + 1) :
           \E last \in mid..(MaxSerial + 1) :
             \E fresh \in Batch(nextSerial, mid, RespawnNeed) :
               \E more \in Batch(mid, last,
                            [q \in Pool |-> IF q = k.pool
                              THEN HeadroomBelowMax(Survivors \cup fresh, k.pool)
                              ELSE 0]) :
                 ReapInto(fresh \cup more, last)
    BY <1>5 DEF ScaleUpOnce, ReapThenSpawn
  <2>2. pools' = pools
    BY <2>1 DEF ReapInto
  <2> QED
    BY <2>1, <2>2, SecondRoundBounded DEF Registered
<1>6. CASE \E q \in Pool : DrainPool(q)
  <2>1. Healthy(instances', p) \subseteq Healthy(instances, p)
    BY <1>6 DEF DrainPool, Healthy, Ownership, SupTypeOK, Instance
  <2> QED
    BY <1>2, <2>1
<1>7. CASE \/ \E q \in Pool, policy \in Policies : UpsertPool(q, policy)
           \/ \E q \in Pool : RemovePool(q)
           \/ \E c \in Caller, op \in Ops, q \in Pool : BeginCall(c, op, q)
           \/ BeginShutdown \/ TerminateAll \/ WatchdogPrune
           \/ \E i \in instances : WriteFailure(i)
           \/ \E n \in alive : WorkerExits(n)
           \/ Tick \/ UNCHANGED supVars
  <2>1. instances' \subseteq instances
    BY <1>7 DEF UpsertPool, RemovePool, BeginCall, BeginShutdown, TerminateAll, WatchdogPrune,
                WriteFailure, WorkerExits, Tick, supVars
  <2>2. Healthy(instances', p) \subseteq Healthy(instances, p)
    BY <2>1 DEF Healthy
  <2> QED
    BY <1>2, <2>2
<1> QED
  BY <1>3, <1>4, <1>5, <1>6, <1>7 DEF SupNext

\* Whatever deaths, drains, policy changes and queued scale calls came before,
\* no step brings the healthy workers of a pool past its maxInstances.
THEOREM GrowthIsBounded == SupSpec => GrowthStaysBelowMax
<1>1. Ownership /\ Ownership' /\ [SupNext]_supVars => [GrowsWithin]_supVars
  BY GrowthStep
<1> QED
  BY <1>1, OwnershipHolds, PTL DEF SupSpec, GrowthStaysBelowMax, GrowsWithin

-----------------------------------------------------------------------------
(* Quarantine *)

StartsAreCalled ==
    \A i \in instances' :
        (i.id \notin IdsOf(instances) /\ quarantine'[i.pool] > 0)
            => \E k \in calls \ calls' : k.pool = i.pool

\* The respawn pass starts nothing in a pool that is in quarantine afterwards.
LEMMA RespawnSparesQuarantined ==
    ASSUME SupTypeOK, NEW last \in Nat, NEW fresh \in Batch(nextSerial, last, RespawnNeed),
           NEW all, NEW end, ReapInto(all, end), NEW i \in fresh
    PROVE  ~(quarantine'[i.pool] > 0)
<1>1. RespawnNeed[i.pool] > 0 /\ i.pool \in Pool
  BY BatchElements DEF SupTypeOK, Instance
<1>2. quarantine'[i.pool] = QuarantineAfterReap(i.pool)
  BY <1>1 DEF ReapInto
<1>3. ~(QuarantineAfterReap(i.pool) > 0)
  BY <1>1 DEF RespawnNeed
<1> QED
  BY <1>2, <1>3

LEMMA QuarantineStep == SupTypeOK /\ [SupNext]_supVars => StartsAreCalled
<1> SUFFICES ASSUME SupTypeOK, [SupNext]_supVars, NEW i \in instances',
                    i.id \notin IdsOf(instances), quarantine'[i.pool] > 0
             PROVE  \E k \in calls \ calls' : k.pool = i.pool
  BY DEF StartsAreCalled
<1>1. i \notin instances /\ i \notin Survivors
  BY DEF IdsOf, Survivors
<1>2. CASE ReadPools \/ WatchdogReap
  <2>1. PICK last \in nextSerial..(MaxSerial + 1) :
           \E fresh \in Batch(nextSerial, last, RespawnNeed) : ReapInto(fresh, last)
    BY <1>2 DEF ReadPools, WatchdogReap, Reap
  <2>2. PICK fresh \in Batch(nextSerial, last, RespawnNeed) : ReapInto(fresh, last)
    BY <2>1
  <2>3. i \in fresh
    BY <1>1, <2>2 DEF ReapInto
  <2>4. last \in Nat
    BY SupervisorAssumption DEF SupTypeOK
  <2> QED
    BY <2>2, <2>3, <2>4, RespawnSparesQuarantined
<1>3. ASSUME NEW k \in calls, NEW want, calls' = calls \ {k},
             NEW mid \in nextSerial..(MaxSerial + 1), NEW last \in mid..(MaxSerial + 1),
             NEW fresh \in Batch(nextSerial, mid, RespawnNeed),
             NEW more \in Batch(mid, last, [q \in Pool |-> IF q = k.pool THEN want ELSE 0]),
             ReapInto(fresh \cup more, last)
      PROVE  \E c \in calls \ calls' : c.pool = i.pool
  <2>1. mid \in Nat /\ last \in Nat
    BY SupervisorAssumption DEF SupTypeOK
  <2>2. i \in fresh \/ i \in more
    BY <1>1, <1>3 DEF ReapInto
  <2>3. i \notin fresh
    BY <1>3, <2>1, RespawnSparesQuarantined
  <2>4. i \in Instance /\ [q \in Pool |-> IF q = k.pool THEN want ELSE 0][i.pool] > 0
    BY <2>1, <2>2, <2>3, BatchElements
  <2>5. i.pool \in Pool
    BY <2>4 DEF Instance
  <2>6. i.pool = k.pool
    BY <2>4, <2>5
  <2> QED
    BY <1>3, <2>6
<1>4. ASSUME NEW k \in calls, EnsureMinInstances(k)
      PROVE  \E c \in calls \ calls' : c.pool = i.pool
  <2>1. PICK mid \in nextSerial..(MaxSerial + 1) :
           \E last \in mid..(MaxSerial + 1) :
             \E fresh \in Batch(nextSerial, mid, RespawnNeed) :
               \E more \in Batch(mid, last,
                            [q \in Pool |-> IF q = k.pool
                              THEN Shortfall(Survivors \cup fresh, k.pool)
                              ELSE 0]) :
                 ReapInto(fresh \cup more, last)
    BY <1>4 DEF EnsureMinInstances, ReapThenSpawn
  <2>2. calls' = calls \ {k}
    BY <1>4 DEF EnsureMinInstances
  <2> QED
    BY <1>3, <2>1, <2>2
<1>5. ASSUME NEW k \in calls, NEW n, ScaleUpOnce(k, n)
      PROVE  \E c \in calls \ calls' : c.pool = i.pool
  <2>1. PICK mid \in nextSerial..(MaxSerial + 1) :
           \E last \in mid..(MaxSerial + 1) :
             \E fresh \in Batch(nextSerial, mid, RespawnNeed) :
               \E more \in Batch(mid, last,
                            [q \in Pool |-> IF q = k.pool
                              THEN HeadroomBelowMax(Survivors \cup fresh, k.pool)
                              ELSE 0]) :
                 ReapInto(fresh \cup more, last)
    BY <1>5 DEF ScaleUpOnce, ReapThenSpawn
  <2>2. calls' = calls \ {k}
    BY <1>5 DEF ScaleUpOnce
  <2> QED
    BY <1>3, <2>1, <2>2
<1>6. CASE \E q \in Pool : DrainPool(q)
  <2>1. \E j \in instances : i.id = j.id
    BY <1>6 DEF DrainPool, SupTypeOK, Instance
  <2> QED
    BY <2>1 DEF IdsOf
<1>7. CASE \/ \E q \in Pool, policy \in Policies : UpsertPool(q, policy)
           \/ \E q \in Pool : RemovePool(q)
           \/ \E c \in Caller, op \in Ops, q \in Pool : BeginCall(c, op, q)
           \/ BeginShutdown \/ TerminateAll \/ WatchdogPrune
           \/ \E j \in instances : WriteFailure(j)
           \/ \E n \in alive : WorkerExits(n)
           \/ Tick \/ UNCHANGED supVars
  <2>1. instances' \subseteq instances
    BY <1>7 DEF UpsertPool, RemovePool, BeginCall, BeginShutdown, TerminateAll, WatchdogPrune,
                WriteFailure, WorkerExits, Tick, supVars
  <2> QED
    BY <1>1, <2>1
<1> QED
  BY <1>2, <1>4, <1>5, <1>6, <1>7 DEF SupNext

\* While the circuit breaker holds a pool in quarantine, no worker starts in it
\* but by a call that names the pool: no interleaving of reaps, watchdog cycles
\* and calls for other pools starts one.
THEOREM QuarantineHolds == SupSpec => QuarantineStopsRespawn
<1>1. SupTypeOK /\ [SupNext]_supVars => [StartsAreCalled]_supVars
  BY QuarantineStep
<1> QED
  BY <1>1, SupervisorTypes, PTL DEF SupSpec, QuarantineStopsRespawn, StartsAreCalled

\* The policy of a pool and its quarantine bound every start of a worker, for any
\* number of pools, of calls and of workers.
THEOREM StartsStayAllowed == SupSpec => StartsAreAllowed
  BY GrowthIsBounded, QuarantineHolds DEF StartsAreAllowed

-----------------------------------------------------------------------------
(***************************************************************************)
(* The router: its types, the agreement of its two maps, and that it       *)
(* implements SessionAffinity.                                             *)
(***************************************************************************)

(* The inductive invariant *)

\* The leases ls and the sticky map st, with serials below n, agree.
Agree(ls, st, n) ==
    /\ ls \subseteq Lease
    /\ st \in [Key -> Nat]
    /\ n \in Nat \ {0}
    /\ \A l, m \in ls : l.id = m.id => l = m
    /\ \A l \in ls : l.id # 0 /\ l.id < n
    /\ \A l \in Active(ls) : l.session \in Session => st[KeyOf(l)] = l.id
    /\ \A k \in Key : st[k] # 0 =>
          \E l \in Active(ls) : l.id = st[k] /\ KeyOf(l) = k

\* A lease names an instance of its own pool, or one that has gone: serials of
\* instances are never reused.
OnOwnPool(ls, insts, n) ==
    \A l \in ls :
        /\ l.inst < n
        /\ \A i \in insts : i.id = l.inst => i.pool = l.pool

\* The acquireLease in scale-out: the router makes no other call, and its
\* session has no lease.
ScaleOutAlone ==
    /\ scaleOut \subseteq Request
    /\ \A r, q \in scaleOut : r = q
    /\ \A k, q \in RoutersCalls : k = q
    /\ \A k \in RoutersCalls : k.op = "scaleUp" /\ \E r \in scaleOut : r.pool = k.pool
    /\ \A r \in scaleOut : r.session \in Session => sticky[<< r.pool, r.session >>] = 0

RouterInv ==
    /\ Ownership
    /\ Agree(leases, sticky, nextLease)
    /\ OnOwnPool(leases, instances, nextSerial)
    /\ ScaleOutAlone

-----------------------------------------------------------------------------
(* What the operations do to leases and sticky sessions that agree *)

LEMMA ReleasedIsLease ==
    ASSUME NEW l \in Lease
    PROVE  /\ Released(l) \in Lease
           /\ Released(l).id = l.id /\ Released(l).inst = l.inst
           /\ Released(l).pool = l.pool /\ Released(l).state = "Released"
<1>1. 0 \in 0 .. IdleTimeout /\ "Released" \in {"Active", "Released"}
  BY RouterAssumption
<1>2. [l EXCEPT !.state = "Released", !.idle = 0] \in Lease
  BY <1>1 DEF Lease
<1>3. /\ [l EXCEPT !.state = "Released", !.idle = 0].id = l.id
      /\ [l EXCEPT !.state = "Released", !.idle = 0].inst = l.inst
      /\ [l EXCEPT !.state = "Released", !.idle = 0].pool = l.pool
      /\ [l EXCEPT !.state = "Released", !.idle = 0].state = "Released"
  BY DEF Lease
<1> QED
  BY <1>2, <1>3 DEF Released

LEMMA TouchedIsLease ==
    ASSUME NEW l \in Lease
    PROVE  /\ [l EXCEPT !.idle = 0] \in Lease
           /\ [l EXCEPT !.idle = 0].id = l.id /\ [l EXCEPT !.idle = 0].inst = l.inst
           /\ [l EXCEPT !.idle = 0].pool = l.pool /\ [l EXCEPT !.idle = 0].state = l.state
           /\ [l EXCEPT !.idle = 0].session = l.session
           /\ [l EXCEPT !.idle = 0].idle = 0
  BY RouterAssumption DEF Lease

\* A session of a lease is a key exactly when it is a session id.
LEMMA KeysOfLeases ==
    ASSUME NEW l \in Lease
    PROVE  KeyOf(l) \in Key <=> l.session \in Session
  BY DEF KeyOf, Key, Lease

LEMMA AgreeAfterRelease ==
    ASSUME NEW ls, NEW st, NEW n, Agree(ls, st, n), NEW l \in Active(ls)
    PROVE  Agree((ls \ {l}) \cup {Released(l)},
                 [k \in Key |-> IF k = KeyOf(l) THEN 0 ELSE st[k]], n)
<1> DEFINE ls2 == (ls \ {l}) \cup {Released(l)}
           st2 == [k \in Key |-> IF k = KeyOf(l) THEN 0 ELSE st[k]]
<1>1. l \in ls /\ l \in Lease /\ l.state = "Active"
  BY DEF Agree, Active
<1>2. /\ Released(l) \in Lease /\ Released(l).id = l.id
      /\ Released(l).state = "Released"
  BY <1>1, ReleasedIsLease
<1>3. ls2 \subseteq Lease /\ st2 \in [Key -> Nat] /\ n \in Nat \ {0}
  BY <1>2 DEF Agree
<1>4. \A m \in ls2 : \A q \in ls2 : m.id = q.id => m = q
  BY <1>1, <1>2 DEF Agree
<1>5. \A m \in ls2 : m.id # 0 /\ m.id < n
  BY <1>1, <1>2 DEF Agree
<1>6. Active(ls2) = Active(ls) \ {l}
  BY <1>2 DEF Active
<1>7. ASSUME NEW m \in Active(ls2), m.session \in Session
      PROVE  st2[KeyOf(m)] = m.id
  <2>1. m \in Active(ls) /\ m \in Lease /\ m # l /\ m \in ls
    BY <1>6 DEF Active, Agree
  <2>2. st[KeyOf(m)] = m.id /\ KeyOf(m) \in Key
    BY <1>7, <2>1, KeysOfLeases DEF Agree
  <2>3. KeyOf(m) # KeyOf(l)
    <3> SUFFICES ASSUME KeyOf(m) = KeyOf(l) PROVE FALSE
      OBVIOUS
    <3>1. l.session = m.session
      BY DEF KeyOf
    <3>2. st[KeyOf(l)] = l.id
      BY <1>7, <3>1 DEF Agree
    <3> QED
      BY <1>1, <2>1, <2>2, <3>2 DEF Agree
  <2> QED
    BY <2>2, <2>3
<1>8. ASSUME NEW k \in Key, st2[k] # 0
      PROVE  \E m \in Active(ls2) : m.id = st2[k] /\ KeyOf(m) = k
  <2>1. k # KeyOf(l) /\ st2[k] = st[k]
    BY <1>8
  <2>2. PICK m \in Active(ls) : m.id = st[k] /\ KeyOf(m) = k
    BY <1>8, <2>1 DEF Agree
  <2> QED
    BY <1>6, <2>1, <2>2
<1> HIDE DEF ls2, st2
<1>9. Agree(ls2, st2, n)
  BY <1>3, <1>4, <1>5, <1>7, <1>8 DEF Agree
<1> QED
  BY <1>9 DEF ls2, st2

LEMMA AgreeAfterTouch ==
    ASSUME NEW ls, NEW st, NEW n, Agree(ls, st, n), NEW l \in Active(ls)
    PROVE  Agree((ls \ {l}) \cup {[l EXCEPT !.idle = 0]}, st, n)
<1> DEFINE t == [l EXCEPT !.idle = 0]
           ls2 == (ls \ {l}) \cup {t}
<1>1. l \in ls /\ l \in Lease /\ l.state = "Active"
  BY DEF Agree, Active
<1>2. /\ t \in Lease /\ t.id = l.id /\ t.pool = l.pool
      /\ t.session = l.session /\ t.state = "Active"
  BY <1>1, TouchedIsLease
<1>3. KeyOf(t) = KeyOf(l)
  BY <1>2 DEF KeyOf
<1> HIDE DEF t
<1>4. ls2 \subseteq Lease /\ st \in [Key -> Nat] /\ n \in Nat \ {0}
  BY <1>2 DEF Agree
<1>5. \A m \in ls2 : \A q \in ls2 : m.id = q.id => m = q
  BY <1>1, <1>2 DEF Agree
<1>6. \A m \in ls2 : m.id # 0 /\ m.id < n
  BY <1>1, <1>2 DEF Agree
<1>7. Active(ls2) = (Active(ls) \ {l}) \cup {t}
  BY <1>2 DEF Active
<1>8. \A m \in Active(ls2) : m.session \in Session => st[KeyOf(m)] = m.id
  BY <1>1, <1>2, <1>3, <1>7 DEF Agree
<1>9. \A k \in Key : st[k] # 0 => \E m \in Active(ls2) : m.id = st[k] /\ KeyOf(m) = k
  <2> SUFFICES ASSUME NEW k \in Key, st[k] # 0
               PROVE  \E m \in Active(ls2) : m.id = st[k] /\ KeyOf(m) = k
    OBVIOUS
  <2>1. PICK m \in Active(ls) : m.id = st[k] /\ KeyOf(m) = k
    BY DEF Agree
  <2> QED
    BY <1>2, <1>3, <1>7, <2>1
<1> HIDE DEF ls2
<1>10. Agree(ls2, st, n)
  BY <1>4, <1>5, <1>6, <1>8, <1>9 DEF Agree
<1> QED
  BY <1>10 DEF ls2, t

\* bindLeaseLocked adds a lease with the next serial.
NewLease(p, s, n, inst) ==
    [id |-> n, pool |-> p, inst |-> inst, session |-> s, state |-> "Active", idle |-> 0]

LEMMA NewLeaseIsLease ==
    ASSUME NEW p \in Pool, NEW s \in Session \cup {NoSession}, NEW n \in Nat, NEW inst \in Nat
    PROVE  NewLease(p, s, n, inst) \in Lease
  BY RouterAssumption DEF NewLease, Lease

LEMMA AgreeAfterBind ==
    ASSUME NEW ls, NEW st, NEW n, Agree(ls, st, n),
           NEW p \in Pool, NEW s \in Session \cup {NoSession}, NEW inst \in Nat,
           s \in Session => st[<< p, s >>] = 0
    PROVE  Agree(ls \cup {NewLease(p, s, n, inst)},
                 IF s \in Session THEN [st EXCEPT ![<< p, s >>] = n] ELSE st, n + 1)
<1> DEFINE l == NewLease(p, s, n, inst)
           ls2 == ls \cup {l}
           st2 == IF s \in Session THEN [st EXCEPT ![<< p, s >>] = n] ELSE st
<1>1. n \in Nat /\ n # 0 /\ st \in [Key -> Nat] /\ ls \subseteq Lease
  BY DEF Agree
<1>2. /\ l \in Lease /\ l.id = n /\ l.state = "Active" /\ l.session = s
      /\ KeyOf(l) = << p, s >>
  BY <1>1, NewLeaseIsLease DEF NewLease, KeyOf
<1> HIDE DEF l
<1>3. << p, s >> \in Key <=> s \in Session
  BY DEF Key
<1>4. /\ st2 \in [Key -> Nat]
      /\ \A k \in Key : st2[k] = IF k = << p, s >> THEN n ELSE st[k]
  BY <1>1, <1>3
<1> HIDE DEF st2
<1>5. ls2 \subseteq Lease /\ n + 1 \in Nat \ {0}
  BY <1>1, <1>2
<1>6. \A m \in ls : m.id # 0 /\ m.id < n /\ m.id \in Nat
  BY <1>1 DEF Agree, Lease
<1>7. \A m \in ls2 : m.id # 0 /\ m.id < n + 1
  BY <1>1, <1>2, <1>6
<1>8. \A m \in ls2 : \A q \in ls2 : m.id = q.id => m = q
  BY <1>1, <1>2, <1>6 DEF Agree
<1>9. Active(ls2) = Active(ls) \cup {l}
  BY <1>2 DEF Active
<1>10. ASSUME NEW m \in Active(ls2), m.session \in Session
       PROVE  st2[KeyOf(m)] = m.id
  <2>1. CASE m = l
    BY <1>2, <1>3, <1>4, <1>10, <2>1
  <2>2. CASE m # l
    <3>1. m \in Active(ls) /\ m \in ls /\ m \in Lease
      BY <1>1, <1>9, <2>2 DEF Active
    <3>2. st[KeyOf(m)] = m.id /\ KeyOf(m) \in Key /\ m.id # 0
      BY <1>6, <1>10, <3>1, KeysOfLeases DEF Agree
    <3>3. KeyOf(m) # << p, s >>
      BY <1>3, <3>2
    <3> QED
      BY <1>4, <3>2, <3>3
  <2> QED
    BY <2>1, <2>2
<1>11. ASSUME NEW k \in Key, st2[k] # 0
       PROVE  \E m \in Active(ls2) : m.id = st2[k] /\ KeyOf(m) = k
  <2>1. CASE k = << p, s >>
    BY <1>2, <1>4, <1>9, <2>1
  <2>2. CASE k # << p, s >>
    BY <1>4, <1>9, <1>11, <2>2 DEF Agree
  <2> QED
    BY <2>1, <2>2
<1> HIDE DEF ls2
<1>12. Agree(ls2, st2, n + 1)
  BY <1>4, <1>5, <1>7, <1>8, <1>10, <1>11 DEF Agree
<1> QED
  BY <1>12 DEF ls2, st2, l

\* pruneExpiredLeasesLocked.
LEMMA AgreeAfterPrune ==
    ASSUME Agree(leases, sticky, nextLease)
    PROVE  Agree(LeasesAfterPrune, StickyAfterPrune, nextLease)
<1> DEFINE ls2 == LeasesAfterPrune
           st2 == StickyAfterPrune
<1>1. leases \subseteq Lease /\ sticky \in [Key -> Nat] /\ nextLease \in Nat \ {0}
  BY DEF Agree
<1>2. \A m \in ls2 : /\ m \in Lease
                     /\ \E l \in leases : /\ m.id = l.id
                                          /\ \/ m = l /\ ~Expired(l)
                                             \/ /\ m = Released(l) /\ l \in Active(leases)
                                                /\ Expired(l)
  BY <1>1, ReleasedIsLease DEF LeasesAfterPrune, Active
<1>3. st2 \in [Key -> Nat]
  BY <1>1 DEF StickyAfterPrune
<1>4. ASSUME NEW m \in ls2, NEW q \in ls2, m.id = q.id
      PROVE  m = q
  <2>1. PICK l \in leases : /\ m.id = l.id
                            /\ \/ m = l /\ ~Expired(l)
                               \/ m = Released(l) /\ Expired(l)
    BY <1>2
  <2>2. PICK j \in leases : /\ q.id = j.id
                            /\ \/ q = j /\ ~Expired(j)
                               \/ q = Released(j) /\ Expired(j)
    BY <1>2
  <2>3. l = j
    BY <1>4, <2>1, <2>2 DEF Agree
  <2> QED
    BY <2>1, <2>2, <2>3
<1>5. \A m \in ls2 : m.id # 0 /\ m.id < nextLease
  BY <1>2 DEF Agree
<1>6. Active(ls2) = {l \in Active(leases) : ~Expired(l)}
  <2>1. \A l \in leases : Released(l).state = "Released"
    BY <1>1, ReleasedIsLease
  <2> QED
    BY <2>1 DEF Active, LeasesAfterPrune
<1>7. ASSUME NEW m \in Active(ls2), m.session \in Session
      PROVE  st2[KeyOf(m)] = m.id
  <2>1. m \in Active(leases) /\ ~Expired(m) /\ m \in leases /\ m \in Lease
    BY <1>1, <1>6 DEF Active
  <2>2. sticky[KeyOf(m)] = m.id /\ KeyOf(m) \in Key
    BY <1>7, <2>1, KeysOfLeases DEF Agree
  <2>3. ASSUME NEW l \in Active(leases), Expired(l), KeyOf(l) = KeyOf(m)
        PROVE  FALSE
    <3>1. l.session \in Session /\ l \in leases
      BY <1>7, <2>3 DEF KeyOf, Active
    <3>2. sticky[KeyOf(l)] = l.id
      BY <3>1 DEF Agree
    <3> QED
      BY <2>1, <2>2, <2>3, <3>1, <3>2 DEF Agree
  <2> QED
    BY <2>2, <2>3 DEF StickyAfterPrune
<1>8. ASSUME NEW k \in Key, st2[k] # 0
      PROVE  \E m \in Active(ls2) : m.id = st2[k] /\ KeyOf(m) = k
  <2>1. /\ st2[k] = sticky[k]
        /\ \A l \in Active(leases) : KeyOf(l) = k => ~Expired(l)
    BY <1>8 DEF StickyAfterPrune
  <2>2. PICK m \in Active(leases) : m.id = sticky[k] /\ KeyOf(m) = k
    BY <1>8, <2>1 DEF Agree
  <2> QED
    BY <1>6, <2>1, <2>2
<1> HIDE DEF ls2, st2
<1>9. Agree(ls2, st2, nextLease)
  BY <1>1, <1>2, <1>3, <1>4, <1>5, <1>7, <1>8 DEF Agree
<1> QED
  BY <1>9 DEF ls2, st2

-----------------------------------------------------------------------------
(* What the operations do to the worker that a session is bound to *)

\* The worker of the lease that the sticky map st gives key k, 0 if none.
Bound(ls, st, k) == IF st[k] = 0 THEN 0 ELSE (CHOOSE l \in ls : l.id = st[k]).inst

Lapsed(k) == sticky[k] # 0 /\ Expired(LeaseOf(k))

LEMMA BoundIs ==
    ASSUME NEW ls, NEW st, NEW n, Agree(ls, st, n), NEW k \in Key, NEW l \in ls, l.id = st[k]
    PROVE  Bound(ls, st, k) = l.inst
<1>1. l.id # 0 /\ \A m \in ls : m.id = st[k] => m = l
  BY DEF Agree
<1>2. (CHOOSE m \in ls : m.id = st[k]) = l
  BY <1>1
<1> QED
  BY <1>1, <1>2 DEF Bound

LEMMA BoundIsWorker ==
    ASSUME NEW ls, NEW st, NEW n, Agree(ls, st, n), NEW k \in Key
    PROVE  Bound(ls, st, k) \in Nat
<1>1. CASE st[k] = 0
  BY <1>1 DEF Bound
<1>2. CASE st[k] # 0
  <2>1. PICK m \in Active(ls) : m.id = st[k]
    BY <1>2 DEF Agree
  <2>2. m \in ls /\ m.inst \in Nat
    BY DEF Active, Agree, Lease
  <2> QED
    BY <2>1, <2>2, BoundIs
<1> QED
  BY <1>1, <1>2

LEMMA BoundAfterRelease ==
    ASSUME NEW ls, NEW st, NEW n, Agree(ls, st, n), NEW l \in Active(ls), NEW k \in Key
    PROVE  Bound((ls \ {l}) \cup {Released(l)},
                 [q \in Key |-> IF q = KeyOf(l) THEN 0 ELSE st[q]], k)
           = IF k = KeyOf(l) THEN 0 ELSE Bound(ls, st, k)
<1> DEFINE ls2 == (ls \ {l}) \cup {Released(l)}
           st2 == [q \in Key |-> IF q = KeyOf(l) THEN 0 ELSE st[q]]
<1>1. Agree(ls2, st2, n)
  BY AgreeAfterRelease
<1>2. st2[k] = IF k = KeyOf(l) THEN 0 ELSE st[k]
  OBVIOUS
<1>3. CASE st2[k] = 0
  BY <1>2, <1>3 DEF Bound
<1>4. CASE st2[k] # 0
  <2>1. PICK m \in Active(ls) : m.id = st[k] /\ KeyOf(m) = k
    BY <1>2, <1>4 DEF Agree
  <2>2. m \in ls /\ m \in ls2
    BY <1>2, <1>4, <2>1 DEF Active
  <2> HIDE DEF ls2, st2
  <2>3. Bound(ls2, st2, k) = m.inst /\ Bound(ls, st, k) = m.inst
    BY <1>1, <1>2, <1>4, <2>1, <2>2, BoundIs
  <2> QED
    BY <1>2, <1>4, <2>3 DEF ls2, st2
<1> QED
  BY <1>3, <1>4

LEMMA BoundAfterTouch ==
    ASSUME NEW ls, NEW st, NEW n, Agree(ls, st, n), NEW l \in Active(ls), NEW k \in Key
    PROVE  Bound((ls \ {l}) \cup {[l EXCEPT !.idle = 0]}, st, k) = Bound(ls, st, k)
<1> DEFINE t == [l EXCEPT !.idle = 0]
           ls2 == (ls \ {l}) \cup {t}
<1>1. Agree(ls2, st, n)
  BY AgreeAfterTouch
<1>2. l \in ls /\ t.id = l.id /\ t.inst = l.inst
  BY TouchedIsLease DEF Active, Agree
<1> HIDE DEF t
<1>3. CASE st[k] = 0
  BY <1>3 DEF Bound
<1>4. CASE st[k] # 0
  <2>1. PICK m \in Active(ls) : m.id = st[k]
    BY <1>4 DEF Agree
  <2>2. m \in ls
    BY DEF Active
  <2>3. \E q \in ls2 : q.id = st[k] /\ q.inst = m.inst
    BY <1>2, <2>1, <2>2
  <2> HIDE DEF ls2
  <2> QED
    BY <1>1, <2>1, <2>2, <2>3, BoundIs DEF ls2, t
<1> QED
  BY <1>3, <1>4 DEF t

LEMMA BoundAfterBind ==
    ASSUME NEW ls, NEW st, NEW n, Agree(ls, st, n),
           NEW p \in Pool, NEW s \in Session \cup {NoSession}, NEW inst \in Nat,
           s \in Session => st[<< p, s >>] = 0, NEW k \in Key
    PROVE  Bound(ls \cup {NewLease(p, s, n, inst)},
                 IF s \in Session THEN [st EXCEPT ![<< p, s >>] = n] ELSE st, k)
           = IF k = << p, s >> THEN inst ELSE Bound(ls, st, k)
<1> DEFINE l == NewLease(p, s, n, inst)
           ls2 == ls \cup {l}
           st2 == IF s \in Session THEN [st EXCEPT ![<< p, s >>] = n] ELSE st
<1>1. Agree(ls2, st2, n + 1)
  BY AgreeAfterBind
<1>2. l.id = n /\ l.inst = inst
  BY DEF NewLease
<1>3. k = << p, s >> => s \in Session
  BY DEF Key
<1>4. st2[k] = IF k = << p, s >> THEN n ELSE st[k]
  BY <1>3 DEF Agree
<1> HIDE DEF l, st2
<1>5. CASE k = << p, s >>
  <2>1. l \in ls2 /\ l.id = st2[k]
    BY <1>2, <1>4, <1>5
  <2> HIDE DEF ls2
  <2>2. Bound(ls2, st2, k) = inst
    BY <1>1, <1>2, <2>1, BoundIs
  <2> QED
    BY <1>5, <2>2 DEF l, ls2, st2
<1>6. CASE k # << p, s >> /\ st[k] = 0
  <2>1. Bound(ls2, st2, k) = 0 /\ Bound(ls, st, k) = 0
    BY <1>4, <1>6 DEF Bound
  <2> QED
    BY <1>6, <2>1 DEF l, ls2, st2
<1>7. CASE k # << p, s >> /\ st[k] # 0
  <2>1. PICK m \in Active(ls) : m.id = st[k]
    BY <1>7 DEF Agree
  <2>2. m \in ls /\ m \in ls2 /\ m.id = st2[k]
    BY <1>4, <1>7, <2>1 DEF Active
  <2> HIDE DEF ls2
  <2>3. Bound(ls2, st2, k) = m.inst
    BY <1>1, <2>2, BoundIs
  <2>4. \A q \in ls : q.id = st[k] => q = m
    BY <2>1, <2>2 DEF Agree
  <2>5. (CHOOSE q \in ls : q.id = st[k]) = m
    BY <2>1, <2>2, <2>4
  <2>6. Bound(ls, st, k) = m.inst
    BY <1>7, <2>5 DEF Bound
  <2> QED
    BY <1>7, <2>3, <2>6 DEF l, ls2, st2
<1> QED
  BY <1>5, <1>6, <1>7

LEMMA BoundAfterPrune ==
    ASSUME Agree(leases, sticky, nextLease), NEW k \in Key
    PROVE  /\ StickyAfterPrune[k] = IF Lapsed(k) THEN 0 ELSE sticky[k]
           /\ Bound(LeasesAfterPrune, StickyAfterPrune, k)
              = IF Lapsed(k) THEN 0 ELSE Bound(leases, sticky, k)
<1>1. Agree(LeasesAfterPrune, StickyAfterPrune, nextLease)
  BY AgreeAfterPrune
<1>2. StickyAfterPrune[k] = IF \E l \in Active(leases) : Expired(l) /\ KeyOf(l) = k
                            THEN 0 ELSE sticky[k]
  BY DEF StickyAfterPrune
<1>3. CASE sticky[k] = 0
  BY <1>2, <1>3 DEF Bound, Lapsed
<1>4. CASE sticky[k] # 0
  <2>1. PICK m \in Active(leases) : m.id = sticky[k] /\ KeyOf(m) = k
    BY <1>4 DEF Agree
  <2>2. m \in leases /\ m \in Lease
    BY DEF Active, Agree
  <2>3. LeaseOf(k) = m
    BY <2>1, <2>2 DEF LeaseOf, Agree
  <2>4. \A l \in Active(leases) : KeyOf(l) = k => l = m
    <3> SUFFICES ASSUME NEW l \in Active(leases), KeyOf(l) = k PROVE l = m
      OBVIOUS
    <3>1. l \in leases /\ l.session \in Session
      BY DEF Active, KeyOf, Key
    <3> QED
      BY <2>1, <2>2, <3>1 DEF Agree
  <2>5. CASE Expired(m)
    BY <1>2, <1>4, <2>1, <2>3, <2>5 DEF Bound, Lapsed
  <2>6. CASE ~Expired(m)
    <3>1. ~Lapsed(k) /\ StickyAfterPrune[k] = sticky[k]
      BY <1>2, <2>3, <2>4, <2>6 DEF Lapsed
    <3>2. m \in LeasesAfterPrune
      BY <2>2, <2>6 DEF LeasesAfterPrune
    <3>3. Bound(LeasesAfterPrune, StickyAfterPrune, k) = m.inst
      BY <1>1, <2>1, <3>1, <3>2, BoundIs
    <3>4. Bound(leases, sticky, k) = m.inst
      BY <2>1, <2>2, BoundIs
    <3> QED
      BY <3>1, <3>3, <3>4
  <2> QED
    BY <2>5, <2>6
<1> QED
  BY <1>3, <1>4

-----------------------------------------------------------------------------
(* What a step of the supervisor does to the instances *)

\* An instance is new, or was listed before in the same pool, and Ready now
\* only if it was.
InstancesFollow ==
    /\ nextSerial' >= nextSerial
    /\ \A i \in instances' :
        \/ i.id >= nextSerial /\ i.id < nextSerial'
        \/ \E j \in instances : /\ j.id = i.id /\ j.pool = i.pool
                                /\ i.state = "Ready" => j.state = "Ready"

LEMMA ReapFollows ==
    ASSUME Ownership, NEW last, NEW fresh, GoodFresh(fresh, last), ReapInto(fresh, last)
    PROVE  InstancesFollow
<1>1. nextSerial \in Nat /\ nextSerial <= last /\ last \in Nat
  BY SupervisorAssumption DEF GoodFresh, Ownership, SupTypeOK
<1>2. instances' = Survivors \cup fresh /\ nextSerial' = last
  BY DEF ReapInto
<1>3. \A i \in fresh : i.id >= nextSerial /\ i.id < last
  BY <1>1 DEF GoodFresh
<1> QED
  BY <1>1, <1>2, <1>3 DEF InstancesFollow, Survivors

LEMMA SupervisorFollows ==
    ASSUME Ownership, [SupNext]_supVars
    PROVE  InstancesFollow
<1>1. SupTypeOK /\ nextSerial \in Nat
  BY DEF Ownership, SupTypeOK
<1>2. CASE \/ ReadPools \/ WatchdogReap
           \/ \E k \in calls : EnsureMinInstances(k) \/ \E n : ScaleUpOnce(k, n)
  BY <1>1, <1>2, ReapingSteps, ReapFollows DEF ReadPools, WatchdogReap
<1>3. ASSUME NEW p \in Pool, DrainPool(p) PROVE InstancesFollow
  <2>1. nextSerial' = nextSerial
    BY <1>3 DEF DrainPool
  <2>2. ASSUME NEW i \in instances'
        PROVE  \E j \in instances : /\ j.id = i.id /\ j.pool = i.pool
                                    /\ i.state = "Ready" => j.state = "Ready"
    <3>1. PICK j \in instances : i = IF j.pool = p THEN [j EXCEPT !.state = "Draining"] ELSE j
      BY <1>3 DEF DrainPool
    <3>2. j \in Instance
      BY <1>1 DEF SupTypeOK
    <3> QED
      BY <3>1, <3>2 DEF Instance
  <2> QED
    BY <1>1, <2>1, <2>2 DEF InstancesFollow
<1>4. CASE \/ \E p \in Pool : RemovePool(p)
           \/ TerminateAll
           \/ \E i \in instances : WriteFailure(i)
  <2>1. instances' \subseteq instances /\ nextSerial' = nextSerial
    BY <1>4 DEF RemovePool, TerminateAll, WriteFailure
  <2> QED
    BY <1>1, <2>1 DEF InstancesFollow
<1>5. CASE \/ \E p \in Pool, policy \in Policies : UpsertPool(p, policy)
           \/ \E c \in Caller, op \in Ops, p \in Pool : BeginCall(c, op, p)
           \/ BeginShutdown \/ WatchdogPrune \/ Tick
           \/ \E n \in alive : WorkerExits(n)
           \/ UNCHANGED supVars
  <2>1. instances' = instances /\ nextSerial' = nextSerial
    BY <1>5 DEF UpsertPool, BeginCall, BeginShutdown, WatchdogPrune, Tick, WorkerExits, supVars
  <2> QED
    BY <1>1, <2>1 DEF InstancesFollow
<1> QED
  BY <1>2, <1>3, <1>4, <1>5 DEF SupNext

\* The new id that scaleUpOnce returns names a new instance of the pool.
LEMMA ScaleUpListsItsWorker ==
    ASSUME Ownership, NEW k \in calls, NEW newId, newId # 0, ScaleUpOnce(k, newId)
    PROVE  \E i \in instances' : /\ i.id = newId /\ i.pool = k.pool /\ i.id >= nextSerial
                                 /\ SpawnOutcomes = {"Ready"} => i.state = "Ready"
<1>0. PICK mid \in nextSerial..(MaxSerial + 1) :
        \E last \in mid..(MaxSerial + 1) : \E fresh \in Batch(nextSerial, mid, RespawnNeed) :
            \E more \in Batch(mid, last, [q \in Pool |-> IF q = k.pool
                                 THEN HeadroomBelowMax(Survivors \cup fresh, k.pool) ELSE 0]) :
                ReapInto(fresh \cup more, last) /\ IdsOf(more) = {newId} \ {0}
  BY DEF ScaleUpOnce, ReapThenSpawn
<1>1. PICK last \in mid..(MaxSerial + 1), fresh \in Batch(nextSerial, mid, RespawnNeed) :
        \E more \in Batch(mid, last, [q \in Pool |-> IF q = k.pool
                             THEN HeadroomBelowMax(Survivors \cup fresh, k.pool) ELSE 0]) :
            ReapInto(fresh \cup more, last) /\ IdsOf(more) = {newId} \ {0}
  BY <1>0
<1> DEFINE need == [q \in Pool |-> IF q = k.pool
                       THEN HeadroomBelowMax(Survivors \cup fresh, k.pool) ELSE 0]
<1>2. PICK more \in Batch(mid, last, need) :
        ReapInto(fresh \cup more, last) /\ IdsOf(more) = {newId} \ {0}
  BY <1>1
<1>3. mid \in Nat /\ last \in Nat /\ nextSerial \in Nat /\ mid >= nextSerial
  BY SupervisorAssumption DEF Ownership, SupTypeOK
<1>4. PICK i \in more : i.id = newId
  BY <1>2 DEF IdsOf
<1>5. i \in instances'
  BY <1>2 DEF ReapInto
<1>6. \A q \in Pool : need[q] > 0 => q = k.pool
  OBVIOUS
<1> HIDE DEF need
<1>7. /\ i \in Instance /\ need[i.pool] > 0 /\ (i.supervised <=> i.state = "Ready")
      /\ i.id \in mid..(last - 1)
  BY <1>3, BatchElements
<1>10. i.id >= nextSerial
  BY <1>3, <1>7
<1>8. i.pool = k.pool
  BY <1>6, <1>7 DEF Instance
<1>9. SpawnOutcomes = {"Ready"} => i.state = "Ready"
  <2> SUFFICES ASSUME SpawnOutcomes = {"Ready"} PROVE i.state = "Ready"
    OBVIOUS
  <2>1. PICK o \in [mid..(last - 1) -> {q \in Pool : need[q] > 0} \X SpawnOutcomes] :
            more = {Worker(n, o[n][1], o[n][2]) : n \in mid..(last - 1)}
    BY DEF Batch
  <2>2. PICK n \in mid..(last - 1) : i = Worker(n, o[n][1], o[n][2])
    BY <2>1
  <2>3. o[n] \in {q \in Pool : need[q] > 0} \X SpawnOutcomes
    OBVIOUS
  <2>4. o[n][2] = "Ready"
    BY <2>3
  <2> QED
    BY <2>2, <2>4 DEF Worker
<1> QED
  BY <1>4, <1>5, <1>8, <1>9, <1>10

-----------------------------------------------------------------------------
(* The steps of the router *)

Serving(insts) == {i.id : i \in {j \in insts : j.state = "Ready"}}

\* What a step may do to the worker of a session, when every spawn succeeds.
BindingKept(k) ==
    \/ Bound(leases', sticky', k) = Bound(leases, sticky, k)
    \/ Bound(leases', sticky', k) = 0
    \/ /\ \/ Bound(leases, sticky, k) = 0
          \/ Bound(leases, sticky, k) \notin Serving(instances')
          \/ Lapsed(k)
       /\ SpawnOutcomes = {"Ready"} => Bound(leases', sticky', k) \in Serving(instances')

\* What the leases ls and sessions st of a step have to satisfy.
StepKeeps ==
    /\ Agree(leases', sticky', nextLease')
    /\ OnOwnPool(leases', instances', nextSerial')
    /\ \A k \in Key : BindingKept(k)
    /\ SpawnOutcomes = {"Ready"} =>
           \A l \in Answered : l.inst \in IdsOf(Healthy(instances', l.pool))

\* Leases stay on their own pool while the supervisor runs.
LEMMA OwnPoolFollows ==
    ASSUME NEW ls, ls \subseteq Lease, OnOwnPool(ls, instances, nextSerial),
           Ownership, InstancesFollow, nextSerial' \in Nat
    PROVE  OnOwnPool(ls, instances', nextSerial')
<1>1. nextSerial \in Nat /\ \A l \in ls : l.inst \in Nat
  BY DEF Ownership, SupTypeOK, Lease
<1>2. \A l \in ls : l.inst < nextSerial'
  BY <1>1 DEF InstancesFollow, OnOwnPool
<1>3. ASSUME NEW l \in ls, NEW i \in instances', i.id = l.inst
      PROVE  i.pool = l.pool
  <2>1. l.inst < nextSerial
    BY DEF OnOwnPool
  <2>2. PICK j \in instances : j.id = i.id /\ j.pool = i.pool
    BY <1>1, <1>3, <2>1 DEF InstancesFollow
  <2> QED
    BY <1>3, <2>2 DEF OnOwnPool
<1> QED
  BY <1>2, <1>3 DEF OnOwnPool

\* Leases that are those of ls but for their state and their age stay on their
\* own pool, too.
LEMMA OwnPoolOfSome ==
    ASSUME NEW ls, NEW ls2, NEW insts, NEW n, OnOwnPool(ls, insts, n),
           \A m \in ls2 : \E l \in ls : m.inst = l.inst /\ m.pool = l.pool
    PROVE  OnOwnPool(ls2, insts, n)
  BY DEF OnOwnPool

LEMMA OwnPoolAfterPrune ==
    ASSUME NEW insts, NEW n, OnOwnPool(leases, insts, n), leases \subseteq Lease
    PROVE  OnOwnPool(LeasesAfterPrune, insts, n)
<1>1. \A m \in LeasesAfterPrune : \E l \in leases : m.inst = l.inst /\ m.pool = l.pool
  BY ReleasedIsLease DEF LeasesAfterPrune, Active
<1> QED
  BY <1>1, OwnPoolOfSome

LEMMA OwnPoolAfterRelease ==
    ASSUME NEW ls, NEW insts, NEW n, OnOwnPool(ls, insts, n), ls \subseteq Lease,
           NEW l \in ls
    PROVE  OnOwnPool((ls \ {l}) \cup {Released(l)}, insts, n)
<1>1. \A m \in (ls \ {l}) \cup {Released(l)} :
        \E q \in ls : m.inst = q.inst /\ m.pool = q.pool
  BY ReleasedIsLease
<1> QED
  BY <1>1, OwnPoolOfSome

\* The sessions and leases that a request finds after the prune, and that
\* FreshAnswer starts from.
ClearedLeases(stuck) ==
    (LeasesAfterPrune \ stuck) \cup {Released(l) : l \in stuck}
ClearedSticky(p, s) ==
    IF s \in Session THEN [StickyAfterPrune EXCEPT ![<< p, s >>] = 0] ELSE StickyAfterPrune

LEMMA StuckIsOne ==
    ASSUME Agree(leases, sticky, nextLease), NEW p \in Pool, NEW s \in Session \cup {NoSession},
           NEW l \in StuckLease(LeasesAfterPrune, StickyAfterPrune, p, s)
    PROVE  /\ l \in Active(LeasesAfterPrune) /\ KeyOf(l) = << p, s >> /\ s \in Session
           /\ StuckLease(LeasesAfterPrune, StickyAfterPrune, p, s) = {l}
<1> DEFINE ls0 == LeasesAfterPrune
           st0 == StickyAfterPrune
<1>1. Agree(ls0, st0, nextLease)
  BY AgreeAfterPrune
<1> HIDE DEF ls0, st0
<1>2. /\ l \in Active(ls0) /\ s \in Session /\ l.id = st0[<< p, s >>]
      /\ \A m \in StuckLease(ls0, st0, p, s) : m \in Active(ls0) /\ m.id = l.id
  BY DEF StuckLease, ls0, st0
<1>3. << p, s >> \in Key
  BY <1>2 DEF Key
<1>4. \A m \in Active(ls0) : m \in ls0
  BY DEF Active
<1>5. l.id # 0
  BY <1>1, <1>2, <1>4 DEF Agree
<1>6. PICK m \in Active(ls0) : m.id = st0[<< p, s >>] /\ KeyOf(m) = << p, s >>
  BY <1>1, <1>2, <1>3, <1>5 DEF Agree
<1>7. m = l
  BY <1>1, <1>2, <1>4, <1>6 DEF Agree
<1>8. \A q \in StuckLease(ls0, st0, p, s) : q = l
  BY <1>1, <1>2, <1>4 DEF Agree
<1> QED
  BY <1>2, <1>6, <1>7, <1>8 DEF ls0, st0

LEMMA ClearedAgree ==
    ASSUME Agree(leases, sticky, nextLease), NEW p \in Pool, NEW s \in Session \cup {NoSession},
           NEW insts, NEW n, OnOwnPool(leases, insts, n)
    PROVE  LET ls == ClearedLeases(StuckLease(LeasesAfterPrune, StickyAfterPrune, p, s))
               st == ClearedSticky(p, s)
           IN  /\ Agree(ls, st, nextLease) /\ OnOwnPool(ls, insts, n)
               /\ s \in Session => st[<< p, s >>] = 0
               /\ \A k \in Key : Bound(ls, st, k) = IF k = << p, s >> THEN 0
                                  ELSE Bound(LeasesAfterPrune, StickyAfterPrune, k)
<1> DEFINE ls0 == LeasesAfterPrune
           st0 == StickyAfterPrune
           stuck == StuckLease(ls0, st0, p, s)
<1>1. Agree(ls0, st0, nextLease)
  BY AgreeAfterPrune
<1>2. OnOwnPool(ls0, insts, n)
  BY OwnPoolAfterPrune DEF Agree
<1>3. << p, s >> \in Key <=> s \in Session
  BY DEF Key
<1>4. CASE stuck = {}
  <2>1. s \in Session => st0[<< p, s >>] = 0
    <3> SUFFICES ASSUME s \in Session, st0[<< p, s >>] # 0 PROVE FALSE
      OBVIOUS
    <3>1. \E m \in Active(ls0) : m.id = st0[<< p, s >>]
      BY <1>1, <1>3 DEF Agree
    <3> QED
      BY <1>4, <3>1 DEF StuckLease
  <2>2. ClearedSticky(p, s) = st0
    BY <1>1, <1>3, <2>1 DEF ClearedSticky, Agree
  <2>3. ClearedLeases(stuck) = ls0
    BY <1>4 DEF ClearedLeases
  <2>4. \A k \in Key : k = << p, s >> => Bound(ls0, st0, k) = 0
    BY <1>3, <2>1 DEF Bound
  <2> HIDE DEF ls0, st0, stuck
  <2> QED
    BY <1>1, <1>2, <2>1, <2>2, <2>3, <2>4 DEF ls0, st0, stuck
<1>5. CASE stuck # {}
  <2>1. PICK l \in stuck : TRUE
    BY <1>5
  <2>2. /\ l \in Active(ls0) /\ KeyOf(l) = << p, s >> /\ s \in Session
        /\ stuck = {l}
    BY <2>1, StuckIsOne
  <2>3. ClearedLeases(stuck) = (ls0 \ {l}) \cup {Released(l)}
    BY <2>2 DEF ClearedLeases
  <2>4. ClearedSticky(p, s) = [k \in Key |-> IF k = KeyOf(l) THEN 0 ELSE st0[k]]
    BY <1>1, <1>3, <2>2 DEF ClearedSticky, Agree
  <2> HIDE DEF ls0, st0, stuck
  <2>5. Agree(ClearedLeases(stuck), ClearedSticky(p, s), nextLease)
    <3>1. Agree((ls0 \ {l}) \cup {Released(l)},
                [k \in Key |-> IF k = KeyOf(l) THEN 0 ELSE st0[k]], nextLease)
      BY <1>1, <2>2, AgreeAfterRelease
    <3> QED
      BY <2>3, <2>4, <3>1
  <2>6. OnOwnPool(ClearedLeases(stuck), insts, n)
    <3>1. l \in ls0 /\ ls0 \subseteq Lease
      BY <1>1, <2>2 DEF Agree, Active
    <3>2. OnOwnPool((ls0 \ {l}) \cup {Released(l)}, insts, n)
      BY <1>2, <3>1, OwnPoolAfterRelease
    <3> QED
      BY <2>3, <3>2
  <2>7. \A k \in Key : Bound(ClearedLeases(stuck), ClearedSticky(p, s), k)
                       = IF k = KeyOf(l) THEN 0 ELSE Bound(ls0, st0, k)
    BY <1>1, <2>2, <2>3, <2>4, BoundAfterRelease
  <2>8. ClearedSticky(p, s)[<< p, s >>] = 0
    BY <1>3, <2>2, <2>4
  <2> QED
    BY <2>2, <2>5, <2>6, <2>7, <2>8 DEF ls0, st0, stuck
<1> QED
  BY <1>4, <1>5

\* What every step that prunes, or starts from the pruned leases, relies on.
LEMMA AfterPrune ==
    ASSUME RouterInv, Ownership', InstancesFollow
    PROVE  /\ Agree(LeasesAfterPrune, StickyAfterPrune, nextLease)
           /\ OnOwnPool(leases, instances', nextSerial')
           /\ OnOwnPool(LeasesAfterPrune, instances', nextSerial')
           /\ Active(LeasesAfterPrune) \subseteq leases
<1>1. leases \subseteq Lease /\ nextSerial' \in Nat
  BY DEF RouterInv, Agree, Ownership, SupTypeOK
<1>2. OnOwnPool(leases, instances', nextSerial')
  BY <1>1, OwnPoolFollows DEF RouterInv
<1>3. Active(LeasesAfterPrune) \subseteq leases
  BY <1>1, ReleasedIsLease DEF Active, LeasesAfterPrune
<1> QED
  BY <1>1, <1>2, <1>3, AgreeAfterPrune, OwnPoolAfterPrune DEF RouterInv

LEMMA PruneKeeps ==
    ASSUME RouterInv, Ownership', InstancesFollow, Prune
    PROVE  StepKeeps
<1>1. leases' = LeasesAfterPrune /\ sticky' = StickyAfterPrune /\ nextLease' = nextLease
  BY DEF Prune
<1>2. Agree(leases', sticky', nextLease') /\ OnOwnPool(leases', instances', nextSerial')
  BY <1>1, AfterPrune
<1>3. \A k \in Key : BindingKept(k)
  BY <1>1, BoundAfterPrune DEF BindingKept, RouterInv
<1>4. Answered = {}
  BY <1>1, AfterPrune DEF Answered
<1> QED
  BY <1>2, <1>3, <1>4 DEF StepKeeps

\* A lease is bound to an instance of its pool on top of ls and st.
LEMMA BindKeeps ==
    ASSUME RouterInv, Ownership',
           NEW p \in Pool, NEW s \in Session \cup {NoSession}, NEW ls, NEW st,
           NEW i \in instances', i.pool = p, SpawnOutcomes = {"Ready"} => i.state = "Ready",
           Agree(ls, st, nextLease), OnOwnPool(ls, instances', nextSerial'),
           Active(ls) \subseteq leases,
           s \in Session => st[<< p, s >>] = 0,
           \A k \in Key : k # << p, s >> =>
               Bound(ls, st, k) \in {Bound(leases, sticky, k), 0},
           \A k \in Key : k = << p, s >> => \/ Bound(leases, sticky, k) = 0
                                            \/ Bound(leases, sticky, k) \notin Serving(instances')
                                            \/ Lapsed(k),
           Bind(ls, st, p, s, i.id)
    PROVE  StepKeeps
<1> DEFINE l == NewLease(p, s, nextLease, i.id)
<1>1. /\ leases' = ls \cup {l}
      /\ sticky' = IF s \in Session THEN [st EXCEPT ![<< p, s >>] = nextLease] ELSE st
      /\ nextLease' = nextLease + 1
  BY DEF Bind, NewLease
<1>2. /\ l.pool = p /\ l.inst = i.id
  BY DEF NewLease
<1> HIDE DEF l
<1>3. i.id \in Nat /\ i.id < nextSerial' /\ \A j \in instances' : j.id = i.id => j = i
  BY DEF Ownership, SupTypeOK, BookkeepingAgrees, Instance
<1>4. Agree(leases', sticky', nextLease')
  BY <1>1, <1>3, AgreeAfterBind DEF l
<1>5. OnOwnPool(leases', instances', nextSerial')
  BY <1>1, <1>2, <1>3 DEF OnOwnPool
<1>6. ASSUME NEW k \in Key
      PROVE  BindingKept(k)
  <2>1. Bound(leases', sticky', k) = IF k = << p, s >> THEN i.id ELSE Bound(ls, st, k)
    BY <1>1, <1>3, BoundAfterBind DEF l
  <2>2. CASE k = << p, s >>
    <3>1. SpawnOutcomes = {"Ready"} => i.id \in Serving(instances')
      BY DEF Serving
    <3> QED
      BY <2>1, <2>2, <3>1 DEF BindingKept
  <2>3. CASE k # << p, s >>
    BY <2>1, <2>3 DEF BindingKept
  <2> QED
    BY <2>2, <2>3
<1>7. ASSUME SpawnOutcomes = {"Ready"}, NEW m \in Answered
      PROVE  m.inst \in IdsOf(Healthy(instances', m.pool))
  <2>1. m = l
    BY <1>1 DEF Answered, Active
  <2> QED
    BY <1>2, <1>7, <2>1 DEF IdsOf, Healthy
<1> QED
  BY <1>4, <1>5, <1>6, <1>7 DEF StepKeeps

\* acquireLease, step 1: the stuck lease on an instance that is live.
LEMMA StickyAnswerKeeps ==
    ASSUME RouterInv, Ownership', InstancesFollow,
           NEW p \in Pool, NEW s \in Session \cup {NoSession},
           NEW l \in StillLive(StuckLease(LeasesAfterPrune, StickyAfterPrune, p, s),
                               instances', p),
           StickyAnswer(l)
    PROVE  StepKeeps
<1> DEFINE t == [l EXCEPT !.idle = 0]
           ls0 == LeasesAfterPrune
           st0 == StickyAfterPrune
<1>1. /\ Agree(ls0, st0, nextLease) /\ OnOwnPool(ls0, instances', nextSerial')
      /\ Active(ls0) \subseteq leases
  BY AfterPrune
<1>2. /\ leases' = (ls0 \ {l}) \cup {t} /\ sticky' = st0 /\ nextLease' = nextLease
  BY DEF StickyAnswer
<1>3. /\ l \in Active(ls0) /\ KeyOf(l) = << p, s >>
      /\ l.inst \in IdsOf(Healthy(instances', p))
  BY StuckIsOne DEF StillLive, RouterInv
<1>4. l \in ls0 /\ l \in Lease /\ t.inst = l.inst /\ t.pool = l.pool
  BY <1>1, <1>3, TouchedIsLease DEF Active, Agree
<1>5. l.pool = p
  BY <1>3 DEF KeyOf
<1>6. Agree(leases', sticky', nextLease')
  BY <1>1, <1>2, <1>3, AgreeAfterTouch
<1>7. OnOwnPool(leases', instances', nextSerial')
  <2> HIDE DEF t
  <2> QED
    BY <1>1, <1>2, <1>4 DEF OnOwnPool
<1>8. ASSUME NEW k \in Key PROVE BindingKept(k)
  <2>1. Bound(leases', sticky', k) = Bound(ls0, st0, k)
    BY <1>1, <1>2, <1>3, BoundAfterTouch
  <2>2. Bound(ls0, st0, k) \in {Bound(leases, sticky, k), 0}
    BY BoundAfterPrune DEF RouterInv
  <2> QED
    BY <2>1, <2>2 DEF BindingKept
<1>9. ASSUME NEW m \in Answered
      PROVE  m.inst \in IdsOf(Healthy(instances', m.pool))
  <2>1. m = t
    BY <1>1, <1>2 DEF Answered, Active
  <2> HIDE DEF t
  <2> QED
    BY <1>3, <1>4, <1>5, <2>1
<1> QED
  BY <1>6, <1>7, <1>8, <1>9 DEF StepKeeps

\* acquireLease, steps 2 and 3: no stuck lease is on an instance that is live.
LEMMA FreshAnswerKeeps ==
    ASSUME RouterInv, Ownership', InstancesFollow,
           NEW p \in Pool, NEW s \in Session \cup {NoSession},
           StillLive(StuckLease(LeasesAfterPrune, StickyAfterPrune, p, s), instances', p) = {},
           FreshAnswer(p, s, instances',
               ClearedLeases(StuckLease(LeasesAfterPrune, StickyAfterPrune, p, s)),
               ClearedSticky(p, s))
    PROVE  StepKeeps
<1> DEFINE ls0 == LeasesAfterPrune
           st0 == StickyAfterPrune
           stuck == StuckLease(ls0, st0, p, s)
           ls1 == ClearedLeases(stuck)
           st1 == ClearedSticky(p, s)
<1>1. /\ Agree(ls0, st0, nextLease) /\ OnOwnPool(ls0, instances', nextSerial')
      /\ OnOwnPool(leases, instances', nextSerial')
      /\ Active(ls0) \subseteq leases /\ ls0 \subseteq Lease
  BY AfterPrune DEF Agree
<1>2. /\ Agree(ls1, st1, nextLease) /\ OnOwnPool(ls1, instances', nextSerial')
      /\ s \in Session => st1[<< p, s >>] = 0
      /\ \A k \in Key : Bound(ls1, st1, k) = IF k = << p, s >> THEN 0 ELSE Bound(ls0, st0, k)
  BY <1>1, ClearedAgree DEF RouterInv
<1>3. \A k \in Key : Bound(ls0, st0, k) \in {Bound(leases, sticky, k), 0}
  BY BoundAfterPrune DEF RouterInv
<1>4. Active(ls1) \subseteq leases
  <2>1. \A l \in stuck : l \in Lease
    BY <1>1 DEF StuckLease, Active
  <2>2. \A l \in stuck : Released(l).state = "Released"
    BY <2>1, ReleasedIsLease
  <2> QED
    BY <1>1, <2>2 DEF Active, ClearedLeases
<1>5. ASSUME NEW k \in Key, k = << p, s >>
      PROVE  \/ Bound(leases, sticky, k) = 0
             \/ Bound(leases, sticky, k) \notin Serving(instances')
             \/ Lapsed(k)
  <2>1. SUFFICES ASSUME ~Lapsed(k), sticky[k] # 0
                 PROVE  Bound(leases, sticky, k) \notin Serving(instances')
    BY DEF Bound
  <2>2. /\ st0[k] = sticky[k] /\ st0[k] # 0
        /\ Bound(ls0, st0, k) = Bound(leases, sticky, k)
    BY <2>1, BoundAfterPrune DEF RouterInv
  <2>3. PICK m \in Active(ls0) : m.id = st0[k] /\ KeyOf(m) = k
    BY <1>1, <2>2 DEF Agree
  <2>4. m \in ls0 /\ m \in stuck
    BY <1>5, <2>3 DEF Active, StuckLease, Key
  <2>5. m.inst \notin IdsOf(Healthy(instances', p)) /\ m.pool = p
    BY <1>5, <2>3, <2>4 DEF StillLive, KeyOf
  <2>6. \A i \in instances' : i.id = m.inst => i.pool = p
    BY <1>1, <2>4, <2>5 DEF OnOwnPool
  <2>7. m.inst \notin Serving(instances')
    BY <2>5, <2>6 DEF Serving, IdsOf, Healthy
  <2>8. Bound(ls0, st0, k) = m.inst
    BY <1>1, <2>3, <2>4, BoundIs
  <2> QED
    BY <2>2, <2>7, <2>8
<1>6. ASSUME NEW i \in LeastLoaded(ls1, instances', p), Bind(ls1, st1, p, s, i.id)
      PROVE  StepKeeps
  <2>1. i \in instances' /\ i.pool = p /\ i.state = "Ready"
    BY DEF LeastLoaded, WithHeadroom, Healthy
  <2> HIDE DEF ls0, st0, ls1, st1, stuck
  <2> QED
    BY <1>2, <1>3, <1>4, <1>5, <1>6, <2>1, BindKeeps, SMTT(30)
<1>7. ASSUME leases' = ls1, sticky' = st1, nextLease' = nextLease
      PROVE  StepKeeps
  <2>1. Agree(leases', sticky', nextLease') /\ OnOwnPool(leases', instances', nextSerial')
    BY <1>2, <1>7
  <2>2. \A k \in Key : BindingKept(k)
    BY <1>2, <1>3, <1>7 DEF BindingKept
  <2>3. Answered = {}
    BY <1>4, <1>7 DEF Answered
  <2> QED
    BY <2>1, <2>2, <2>3 DEF StepKeeps
<1> QED
  BY <1>6, <1>7 DEF FreshAnswer

LEMMA AcquireKeeps ==
    ASSUME RouterInv, Ownership', InstancesFollow,
           NEW p \in Pool, NEW s \in Session \cup {NoSession}, Acquire(p, s)
    PROVE  StepKeeps
<1> DEFINE stuck == StuckLease(LeasesAfterPrune, StickyAfterPrune, p, s)
           live == StillLive(stuck, instances', p)
<1>1. CASE p \notin Registered
  BY <1>1, PruneKeeps DEF Acquire
<1>2. CASE p \in Registered
  <2>1. Answer(p, s, instances')
    BY <1>2 DEF Acquire
  <2>2. \/ \E l \in live : StickyAnswer(l)
        \/ /\ live = {}
           /\ FreshAnswer(p, s, instances', ClearedLeases(stuck), ClearedSticky(p, s))
    BY <2>1 DEF Answer, ClearedLeases, ClearedSticky
  <2> QED
    BY <2>2, StickyAnswerKeeps, FreshAnswerKeeps
<1> QED
  BY <1>1, <1>2

\* A step that leaves leases and sticky sessions alone.
LEMMA IdleKeeps ==
    ASSUME RouterInv, Ownership', InstancesFollow, UNCHANGED << leases, sticky, nextLease >>
    PROVE  StepKeeps
<1>1. Agree(leases', sticky', nextLease')
  BY DEF RouterInv
<1>2. OnOwnPool(leases', instances', nextSerial')
  BY AfterPrune
<1>3. \A k \in Key : BindingKept(k)
  BY DEF BindingKept, Bound
<1>4. Answered = {}
  BY DEF Answered, Active
<1> QED
  BY <1>1, <1>2, <1>3, <1>4 DEF StepKeeps

LEMMA ScaleOutEndKeeps ==
    ASSUME RouterInv, Ownership', InstancesFollow,
           NEW r \in scaleOut, NEW k \in calls, NEW newId \in 0 .. MaxSerial,
           ScaleOutEnd(r, k, newId)
    PROVE  StepKeeps
<1>1. CASE newId = 0
  BY <1>1, IdleKeeps DEF ScaleOutEnd
<1>2. CASE newId # 0
  <2>1. /\ r.pool \in Pool /\ r.session \in Session \cup {NoSession}
        /\ r.session \in Session => sticky[<< r.pool, r.session >>] = 0
    BY DEF RouterInv, ScaleOutAlone, Request
  <2>2. k.pool = r.pool
    BY DEF RouterInv, ScaleOutAlone, ScaleOutEnd, RoutersCalls
  <2>3. PICK i \in instances' : /\ i.id = newId /\ i.pool = r.pool
                                /\ SpawnOutcomes = {"Ready"} => i.state = "Ready"
    BY <1>2, <2>2, ScaleUpListsItsWorker DEF ScaleOutEnd, RouterInv
  <2>4. Bind(leases, sticky, r.pool, r.session, i.id)
    BY <1>2, <2>3 DEF ScaleOutEnd
  <2>5. \A q \in Key : q = << r.pool, r.session >> => Bound(leases, sticky, q) = 0
    BY <2>1 DEF Bound, Key
  <2>6. /\ Agree(leases, sticky, nextLease) /\ OnOwnPool(leases, instances', nextSerial')
        /\ Active(leases) \subseteq leases
    BY AfterPrune DEF RouterInv, Active
  <2> QED
    BY <2>1, <2>3, <2>4, <2>5, <2>6, BindKeeps
<1> QED
  BY <1>1, <1>2

LEMMA ReleaseKeeps ==
    ASSUME RouterInv, Ownership', InstancesFollow, NEW l \in leases, ReleaseLease(l)
    PROVE  StepKeeps
<1>1. /\ l \in Active(leases)
      /\ leases' = (leases \ {l}) \cup {Released(l)}
      /\ sticky' = [k \in Key |-> IF k = KeyOf(l) THEN 0 ELSE sticky[k]]
      /\ nextLease' = nextLease
  BY DEF ReleaseLease
<1>2. /\ Agree(leases, sticky, nextLease) /\ leases \subseteq Lease
      /\ OnOwnPool(leases, instances', nextSerial')
  BY AfterPrune DEF RouterInv, Agree
<1>3. Agree(leases', sticky', nextLease')
  BY <1>1, <1>2, AgreeAfterRelease
<1>4. OnOwnPool(leases', instances', nextSerial')
  BY <1>1, <1>2, OwnPoolAfterRelease
<1>5. \A k \in Key : BindingKept(k)
  BY <1>1, <1>2, BoundAfterRelease DEF BindingKept
<1>6. Answered = {}
  <2>1. Released(l).state = "Released"
    BY <1>2, ReleasedIsLease
  <2> QED
    BY <1>1, <2>1 DEF Answered, Active
<1> QED
  BY <1>3, <1>4, <1>5, <1>6 DEF StepKeeps

\* Time passes for the leases: they only get older.
Older(l) == [l EXCEPT !.idle = IF Expired(l) THEN l.idle ELSE l.idle + 1]

LEMMA OlderIsLease ==
    ASSUME NEW l \in Lease
    PROVE  /\ Older(l) \in Lease
           /\ Older(l).id = l.id /\ Older(l).inst = l.inst /\ Older(l).pool = l.pool
           /\ Older(l).session = l.session /\ Older(l).state = l.state
           /\ Older(l).idle = 0 => Older(l) = l
<1> DEFINE a == IF Expired(l) THEN l.idle ELSE l.idle + 1
<1>1. l.idle \in 0 .. IdleTimeout
  BY DEF Lease
<1>2. a \in 0 .. IdleTimeout /\ (a = 0 => a = l.idle)
  BY <1>1, RouterAssumption DEF Expired
<1> HIDE DEF a
<1>3. /\ [l EXCEPT !.idle = a] \in Lease
      /\ [l EXCEPT !.idle = a].id = l.id /\ [l EXCEPT !.idle = a].inst = l.inst
      /\ [l EXCEPT !.idle = a].pool = l.pool /\ [l EXCEPT !.idle = a].session = l.session
      /\ [l EXCEPT !.idle = a].state = l.state /\ [l EXCEPT !.idle = a].idle = a
  BY <1>2 DEF Lease
<1>4. a = l.idle => [l EXCEPT !.idle = a] = l
  BY DEF Lease
<1> QED
  BY <1>2, <1>3, <1>4 DEF Older, a

LEMMA LeaseTickKeeps ==
    ASSUME RouterInv, Ownership', InstancesFollow, LeaseTick
    PROVE  StepKeeps
<1>1. leases' = {Older(l) : l \in leases} /\ sticky' = sticky /\ nextLease' = nextLease
  BY DEF LeaseTick, Older
<1>2. /\ Agree(leases, sticky, nextLease) /\ leases \subseteq Lease
      /\ OnOwnPool(leases, instances', nextSerial')
  BY AfterPrune DEF RouterInv, Agree
<1>3. \A l \in leases : /\ Older(l) \in Lease
                        /\ Older(l).id = l.id /\ Older(l).inst = l.inst
                        /\ Older(l).pool = l.pool /\ Older(l).state = l.state
                        /\ Older(l).session = l.session
                        /\ Older(l).idle = 0 => Older(l) = l
  BY <1>2, OlderIsLease
<1>4. \A l \in leases : KeyOf(Older(l)) = KeyOf(l)
  BY <1>3 DEF KeyOf
<1>5. Active(leases') = {Older(l) : l \in Active(leases)}
  BY <1>1, <1>3 DEF Active
<1>6. Agree(leases', sticky', nextLease')
  <2>1. leases' \subseteq Lease
    BY <1>1, <1>3
  <2>2. \A l, m \in leases' : l.id = m.id => l = m
    BY <1>1, <1>2, <1>3 DEF Agree
  <2>3. \A l \in leases' : l.id # 0 /\ l.id < nextLease
    BY <1>1, <1>2, <1>3 DEF Agree
  <2>4. \A l \in Active(leases) : l \in leases
    BY DEF Active
  <2>5. \A l \in Active(leases') : l.session \in Session => sticky[KeyOf(l)] = l.id
    BY <1>2, <1>3, <1>4, <1>5, <2>4 DEF Agree
  <2>6. ASSUME NEW k \in Key, sticky[k] # 0
        PROVE  \E l \in Active(leases') : l.id = sticky[k] /\ KeyOf(l) = k
    <3>1. PICK l \in Active(leases) : l.id = sticky[k] /\ KeyOf(l) = k
      BY <1>2, <2>6 DEF Agree
    <3> QED
      BY <1>3, <1>4, <1>5, <2>4, <3>1
  <2> QED
    BY <1>1, <1>2, <2>1, <2>2, <2>3, <2>5, <2>6 DEF Agree
<1>7. OnOwnPool(leases', instances', nextSerial')
  BY <1>1, <1>2, <1>3 DEF OnOwnPool
<1>8. ASSUME NEW k \in Key PROVE BindingKept(k)
  <2>1. CASE sticky[k] = 0
    BY <1>1, <2>1 DEF BindingKept, Bound
  <2>2. CASE sticky[k] # 0
    <3>1. PICK l \in Active(leases) : l.id = sticky[k]
      BY <1>2, <2>2 DEF Agree
    <3>2. l \in leases /\ Older(l) \in leases' /\ Older(l).id = sticky'[k]
      BY <1>1, <1>3, <3>1 DEF Active
    <3>3. Bound(leases, sticky, k) = l.inst
      BY <1>2, <3>1, <3>2, BoundIs
    <3>4. Bound(leases', sticky', k) = Older(l).inst
      BY <1>6, <3>2, BoundIs
    <3> QED
      BY <1>3, <3>2, <3>3, <3>4 DEF BindingKept
  <2> QED
    BY <2>1, <2>2
<1>9. Answered = {}
  BY <1>1, <1>3 DEF Answered, Active
<1> QED
  BY <1>6, <1>7, <1>8, <1>9 DEF StepKeeps

-----------------------------------------------------------------------------
(* Steps of the router are steps of the supervisor *)

LEMMA RouterIsSupervisor ==
    ASSUME RouterInv, [RouterNext]_routerVars
    PROVE  [SupNext]_supVars
<1>1. ASSUME NEW p \in Pool, NEW s \in Session \cup {NoSession}, Acquire(p, s)
      PROVE  SupNext
  BY <1>1 DEF Acquire, SupNext
<1>2. ASSUME NEW r \in scaleOut, ScaleOutRefused(r)
      PROVE  UNCHANGED supVars
  BY <1>2 DEF ScaleOutRefused
<1>3. ASSUME NEW r \in scaleOut, ScaleOutBegin(r)
      PROVE  SupNext
  BY <1>3, RouterAssumption DEF ScaleOutBegin, SupNext, Ops, RouterInv, ScaleOutAlone, Request
<1>4. ASSUME NEW r \in scaleOut, NEW k \in calls, NEW newId \in 0 .. MaxSerial,
             ScaleOutEnd(r, k, newId)
      PROVE  SupNext
  BY <1>4 DEF ScaleOutEnd, SupNext
<1>5. ASSUME NEW l \in leases, ReleaseLease(l)
      PROVE  UNCHANGED supVars
  BY <1>5 DEF ReleaseLease
<1>6. CASE ActiveLeases \/ LeaseTick \/ UNCHANGED routerVars
  BY <1>6 DEF ActiveLeases, LeaseTick, routerVars
<1>7. CASE SaturationFor \/ SupervisorStep
  BY <1>7 DEF SaturationFor, SupervisorStep, SupNext
<1> QED
  BY <1>1, <1>2, <1>3, <1>4, <1>5, <1>6, <1>7 DEF RouterNext

LEMMA RouterKeeps ==
    ASSUME RouterInv, [RouterNext]_routerVars
    PROVE  Ownership' /\ InstancesFollow /\ StepKeeps
<1>1. Ownership' /\ InstancesFollow
  BY RouterIsSupervisor, OwnershipStep, SupervisorFollows DEF RouterInv
<1>2. CASE \E p \in Pool, s \in Session \cup {NoSession} : Acquire(p, s)
  BY <1>1, <1>2, AcquireKeeps
<1>3. CASE \E r \in scaleOut : ScaleOutRefused(r) \/ ScaleOutBegin(r)
  <2>1. UNCHANGED << leases, sticky, nextLease >>
    BY <1>3 DEF ScaleOutRefused, ScaleOutBegin, routerOwnVars
  <2> QED
    BY <1>1, <2>1, IdleKeeps
<1>4. CASE \E r \in scaleOut, k \in calls, newId \in 0 .. MaxSerial : ScaleOutEnd(r, k, newId)
  BY <1>1, <1>4, ScaleOutEndKeeps
<1>5. CASE \E l \in leases : ReleaseLease(l)
  BY <1>1, <1>5, ReleaseKeeps
<1>6. CASE ActiveLeases \/ SaturationFor
  BY <1>1, <1>6, PruneKeeps DEF ActiveLeases, SaturationFor
<1>7. CASE LeaseTick
  BY <1>1, <1>7, LeaseTickKeeps
<1>8. CASE SupervisorStep \/ UNCHANGED routerVars
  <2>1. UNCHANGED << leases, sticky, nextLease >>
    BY <1>8 DEF SupervisorStep, routerOwnVars, routerVars
  <2> QED
    BY <1>1, <2>1, IdleKeeps
<1> QED
  BY <1>1, <1>2, <1>3, <1>4, <1>5, <1>6, <1>7, <1>8 DEF RouterNext

-----------------------------------------------------------------------------
(* The acquireLease in scale-out *)

\* Outside a scale-out the router makes no call.
LEMMA IdleMakesNoCall ==
    ASSUME ScaleOutAlone, RouterIdle
    PROVE  RoutersCalls = {}
  BY DEF ScaleOutAlone, RouterIdle

\* While no call of the router is under way, a request that enters scale-out
\* is the only one.
LEMMA EntersAlone ==
    ASSUME RoutersCalls' = {},
           \/ scaleOut' = {}
           \/ \E r \in Request : /\ scaleOut' = {r}
                                 /\ r.session \in Session => sticky'[<< r.pool, r.session >>] = 0
    PROVE  ScaleOutAlone'
  BY DEF ScaleOutAlone

LEMMA AcquireAlone ==
    ASSUME RouterInv, NEW p \in Pool, NEW s \in Session \cup {NoSession}, Acquire(p, s)
    PROVE  ScaleOutAlone'
<1> DEFINE stuck == StuckLease(LeasesAfterPrune, StickyAfterPrune, p, s)
           r == [pool |-> p, session |-> s]
<1>1. RoutersCalls' = {} /\ scaleOut = {}
  BY IdleMakesNoCall DEF RouterInv, Acquire, RouterIdle, ReadPools, RoutersCalls
<1>2. r \in Request /\ r.pool = p /\ r.session = s
  BY DEF Request
<1>3. s \in Session => ClearedSticky(p, s)[<< p, s >>] = 0
  BY ClearedAgree DEF RouterInv
<1>4. CASE p \notin Registered
  BY <1>1, <1>4, EntersAlone DEF Acquire, Prune
<1>5. CASE p \in Registered
  <2>1. Answer(p, s, instances')
    BY <1>5 DEF Acquire
  <2>2. \/ scaleOut' = scaleOut
        \/ scaleOut' = {r} /\ sticky' = ClearedSticky(p, s)
    BY <2>1 DEF Answer, StickyAnswer, FreshAnswer, ClearedSticky
  <2> HIDE DEF r
  <2> QED
    BY <1>1, <1>2, <1>3, <2>2, EntersAlone
<1> QED
  BY <1>4, <1>5

LEMMA ScaleOutBeginAlone ==
    ASSUME RouterInv, NEW r \in scaleOut, ScaleOutBegin(r)
    PROVE  ScaleOutAlone'
<1> DEFINE k == [caller |-> Router, op |-> "scaleUp", pool |-> r.pool]
<1>1. /\ calls' = calls \cup {k} /\ \A q \in calls : q.caller # Router
      /\ UNCHANGED << scaleOut, sticky >>
  BY DEF ScaleOutBegin, BeginCall, routerOwnVars
<1>2. k.caller = Router /\ k.op = "scaleUp" /\ k.pool = r.pool
  OBVIOUS
<1> HIDE DEF k
<1>3. RoutersCalls' = {k}
  BY <1>1, <1>2 DEF RoutersCalls
<1> QED
  BY <1>1, <1>2, <1>3 DEF RouterInv, ScaleOutAlone

LEMMA ScaleOutEndAlone ==
    ASSUME RouterInv, NEW r \in scaleOut, NEW k \in calls, NEW newId, ScaleOutEnd(r, k, newId)
    PROVE  ScaleOutAlone'
<1>1. k \in RoutersCalls /\ calls' = calls \ {k} /\ scaleOut' = {}
  BY DEF ScaleOutEnd, ScaleUpOnce, RoutersCalls
<1>2. RoutersCalls' = {}
  BY <1>1 DEF RouterInv, ScaleOutAlone, RoutersCalls
<1> QED
  BY <1>1, <1>2, EntersAlone

LEMMA ScaleOutStep ==
    ASSUME RouterInv, [RouterNext]_routerVars
    PROVE  ScaleOutAlone'
<1>1. CASE \E p \in Pool, s \in Session \cup {NoSession} : Acquire(p, s)
  BY <1>1, AcquireAlone
<1>2. CASE \E r \in scaleOut : ScaleOutRefused(r)
  <2>1. RoutersCalls' = {} /\ scaleOut' = {}
    BY <1>2 DEF ScaleOutRefused, RoutersCalls, supVars
  <2> QED
    BY <2>1, EntersAlone
<1>3. CASE \E r \in scaleOut : ScaleOutBegin(r)
  BY <1>3, ScaleOutBeginAlone
<1>4. CASE \E r \in scaleOut, k \in calls, newId \in 0 .. MaxSerial : ScaleOutEnd(r, k, newId)
  BY <1>4, ScaleOutEndAlone
<1>5. CASE (\E l \in leases : ReleaseLease(l)) \/ ActiveLeases \/ SaturationFor
  <2>1. RouterIdle /\ scaleOut' = scaleOut /\ calls' = calls
    BY <1>5 DEF ReleaseLease, ActiveLeases, SaturationFor, Prune, ReadPools, supVars
  <2>2. RoutersCalls' = {} /\ scaleOut' = {}
    BY <2>1, IdleMakesNoCall DEF RouterInv, RouterIdle, RoutersCalls
  <2> QED
    BY <2>2, EntersAlone
<1>6. CASE SupervisorStep \/ LeaseTick \/ UNCHANGED routerVars
  <2>1. RoutersCalls' = RoutersCalls /\ UNCHANGED << scaleOut, sticky >>
    BY <1>6 DEF SupervisorStep, LeaseTick, routerVars, routerOwnVars, supVars, RoutersCalls
  <2> QED
    BY <2>1 DEF RouterInv, ScaleOutAlone
<1> QED
  BY <1>1, <1>2, <1>3, <1>4, <1>5, <1>6 DEF RouterNext

-----------------------------------------------------------------------------
(* The theorems *)

LEMMA RouterStart == RouterInit => RouterInv
<1> SUFFICES ASSUME RouterInit PROVE RouterInv
  OBVIOUS
<1>1. Ownership
  BY OwnershipStart DEF RouterInit
<1>2. Agree(leases, sticky, nextLease)
  BY DEF RouterInit, Agree, Active
<1>3. OnOwnPool(leases, instances, nextSerial)
  BY DEF RouterInit, OnOwnPool
<1>4. ScaleOutAlone
  BY DEF RouterInit, SupInit, ScaleOutAlone, RoutersCalls
<1> QED
  BY <1>1, <1>2, <1>3, <1>4 DEF RouterInv

LEMMA RouterInvStep ==
    RouterInv /\ [RouterNext]_routerVars => RouterInv' /\ InstancesFollow /\ StepKeeps
  BY RouterKeeps, ScaleOutStep DEF RouterInv, StepKeeps

LEMMA RouterAlways == RouterSpec => []RouterInv
  BY RouterStart, RouterInvStep, PTL DEF RouterSpec

\* The variables of the router hold values of their C++ types, and its mutex
\* admits one acquireLease in scale-out at a time.
THEOREM RouterTypes == RouterSpec => []RouterTypeOK
<1>1. RouterInv => RouterTypeOK
  <2> SUFFICES ASSUME RouterInv PROVE RouterTypeOK
    OBVIOUS
  <2>1. Cardinality(scaleOut) <= 1
    <3>1. CASE scaleOut = {}
      BY <3>1, FS_EmptySet
    <3>2. CASE scaleOut # {}
      <4>1. PICK r : scaleOut = {r}
        BY <3>2 DEF RouterInv, ScaleOutAlone
      <4> QED
        BY <4>1, FS_Singleton
    <3> QED
      BY <3>1, <3>2
  <2> QED
    BY <2>1 DEF RouterTypeOK, RouterInv, Agree, ScaleOutAlone
<1> QED
  BY <1>1, RouterAlways, PTL

\* leases_ and stickySessions_ agree after every operation of the router.
THEOREM SessionsAgree == RouterSpec => []StickyMapAgrees
<1>1. RouterInv => StickyMapAgrees
  BY DEF StickyMapAgrees, RouterInv, Agree
<1> QED
  BY <1>1, RouterAlways, PTL

LEMMA AffinityStart == RouterInit => Affinity!AffinityInit
<1> SUFFICES ASSUME RouterInit PROVE Affinity!AffinityInit
  OBVIOUS
<1>1. \A k \in Key : sticky[k] = 0
  BY DEF RouterInit
<1>2. instances = {} /\ nextSerial = 1
  BY DEF RouterInit, SupInit
<1> QED
  BY <1>1, <1>2 DEF Affinity!AffinityInit

LEMMA WorkforceStep ==
    ASSUME RouterInv, RouterInv', InstancesFollow
    PROVE  Affinity!Workforce
<1>1. nextSerial \in Nat /\ nextSerial' \in Nat /\ \A i \in instances' : i.id \in Nat
  BY DEF RouterInv, Ownership, SupTypeOK, Instance
<1>2. ASSUME NEW i \in instances', i.state = "Ready",
             i.id \notin {j.id : j \in {q \in instances : q.state = "Ready"}}
      PROVE  i.id > nextSerial - 1 /\ i.id <= nextSerial' - 1
  BY <1>1, <1>2 DEF InstancesFollow
<1>3. nextSerial' - 1 >= nextSerial - 1
  BY <1>1 DEF InstancesFollow
<1> QED
  BY <1>2, <1>3 DEF Affinity!Workforce

LEMMA BindingsStep ==
    ASSUME SpawnOutcomes = {"Ready"}, RouterInv, RouterInv', StepKeeps
    PROVE  Affinity!Bindings
<1> SUFFICES ASSUME NEW k \in Key
             PROVE  LET b == IF sticky[k] = 0 THEN 0 ELSE LeaseOf(k).inst
                        c == IF sticky'[k] = 0 THEN 0 ELSE (LeaseOf(k)').inst
                        s == {i.id : i \in {j \in instances' : j.state = "Ready"}}
                    IN  \/ c = b
                        \/ c = 0
                        \/ /\ \/ b = 0
                              \/ b \notin s
                              \/ sticky[k] # 0 /\ Expired(LeaseOf(k))
                           /\ c \in s
  BY DEF Affinity!Bindings, Affinity!MayRebind
<1>1. BindingKept(k)
  BY DEF StepKeeps
<1> QED
  BY <1>1 DEF BindingKept, Bound, LeaseOf, Lapsed, Serving

LEMMA AffinityStep ==
    ASSUME SpawnOutcomes = {"Ready"}, RouterInv, RouterInv', InstancesFollow, StepKeeps
    PROVE  Affinity!AffinityNext
<1>1. [k \in Key |-> IF sticky'[k] = 0 THEN 0 ELSE (LeaseOf(k)').inst] \in [Key -> Nat]
  <2> SUFFICES ASSUME NEW k \in Key
               PROVE  (IF sticky'[k] = 0 THEN 0 ELSE (LeaseOf(k)').inst) \in Nat
    OBVIOUS
  <2>1. Bound(leases', sticky', k) \in Nat
    BY BoundIsWorker DEF RouterInv
  <2> QED
    BY <2>1 DEF Bound, LeaseOf
<1> QED
  BY <1>1, WorkforceStep, BindingsStep DEF Affinity!AffinityNext

\* When every spawn succeeds, leases, sticky sessions, prunes, scale-outs and
\* the supervisor together implement SessionAffinity: a session moves to
\* another worker only if its own left service or the session lapsed.
THEOREM SessionsKeepWorkers ==
    ASSUME SpawnOutcomes = {"Ready"}
    PROVE  RouterSpec => KeepsAffinity
<1>1. RouterInv /\ RouterInv' /\ [RouterNext]_routerVars => Affinity!AffinityNext
  BY RouterInvStep, AffinityStep
<1> QED
  BY <1>1, AffinityStart, RouterAlways, PTL DEF RouterSpec, KeepsAffinity, Affinity!AffinitySpec

\* When every spawn succeeds, each lease that acquireLease answers with is on
\* an instance that is Ready.
THEOREM AnswersAreReady ==
    ASSUME SpawnOutcomes = {"Ready"}
    PROVE  RouterSpec => LeaseBoundToReady
<1>1. RouterInv /\ [RouterNext]_routerVars
          => [\A l \in Answered : l.inst \in IdsOf(Healthy(instances', l.pool))]_routerVars
  BY RouterInvStep DEF StepKeeps
<1> QED
  BY <1>1, RouterAlways, PTL DEF RouterSpec, LeaseBoundToReady

-----------------------------------------------------------------------------
(* The load of the instances *)

LEMMA LeasesAreFinite ==
    ASSUME NEW ls, NEW st, NEW n, Agree(ls, st, n)
    PROVE  IsFiniteSet(ls)
<1> DEFINE f == [l \in ls |-> l.id]
<1>1. n \in Nat /\ \A l \in ls : l.id \in 0 .. n
  BY DEF Agree, Lease
<1>2. f \in [ls -> 0 .. n] /\ \A l, m \in ls : f[l] = f[m] => l = m
  BY <1>1 DEF Agree
<1> HIDE DEF f
<1>3. f \in Injection(ls, 0 .. n)
  BY <1>2, Fun_IsInj
<1>4. IsFiniteSet(0 .. n)
  BY <1>1, FS_Interval
<1> QED
  BY <1>3, <1>4, FS_Injection

\* Each active lease of ls2 is, but for its age, one of ls.
Inherits(ls2, ls) ==
    \A m \in Active(ls2) : \E l \in Active(ls) : l.id = m.id /\ l.inst = m.inst

LEMMA LoadIsNat ==
    ASSUME NEW ls, IsFiniteSet(ls), NEW n
    PROVE  /\ Load(ls, n) \in Nat
           /\ IsFiniteSet({l \in Active(ls) : l.inst = n})
<1>1. {l \in Active(ls) : l.inst = n} \in SUBSET ls
  BY DEF Active
<1> QED
  BY <1>1, FS_Subset, FS_CardinalityType DEF Load

LEMMA LoadInherited ==
    ASSUME NEW ls, NEW ls2, IsFiniteSet(ls), IsFiniteSet(ls2), Inherits(ls2, ls),
           \A l, m \in ls2 : l.id = m.id => l = m, NEW n
    PROVE  Load(ls2, n) <= Load(ls, n)
<1> DEFINE S == {m \in Active(ls2) : m.inst = n}
           T == {l \in Active(ls) : l.inst = n}
           f == [m \in S |-> CHOOSE l \in T : l.id = m.id]
<1>1. \A m \in S : \E l \in T : l.id = m.id
  BY DEF Inherits
<1>2. \A m \in S : f[m] \in T /\ f[m].id = m.id
  BY <1>1
<1>3. f \in [S -> T]
  BY <1>2
<1>4. \A m \in S : m \in ls2
  BY DEF Active
<1>5. IsFiniteSet(T) /\ Load(ls, n) = Cardinality(T) /\ Load(ls2, n) = Cardinality(S)
  BY LoadIsNat DEF Load
<1> HIDE DEF f, S, T
<1>6. ASSUME NEW m \in S, NEW q \in S, f[m] = f[q] PROVE m = q
  <2>1. m.id = q.id
    BY <1>2, <1>6
  <2> QED
    BY <1>4, <2>1
<1>7. f \in Injection(S, T)
  BY <1>3, <1>6, Fun_IsInj
<1> QED
  BY <1>5, <1>7, FS_Injection

LEMMA LoadAfterBind ==
    ASSUME NEW ls, IsFiniteSet(ls), NEW l, l.state = "Active", l \notin ls, NEW n
    PROVE  Load(ls \cup {l}, n) = IF n = l.inst THEN Load(ls, n) + 1 ELSE Load(ls, n)
<1> DEFINE T == {m \in Active(ls) : m.inst = n}
<1>1. {m \in Active(ls \cup {l}) : m.inst = n} = IF n = l.inst THEN T \cup {l} ELSE T
  BY DEF Active
<1>2. IsFiniteSet(T) /\ l \notin T
  BY LoadIsNat DEF Active
<1> HIDE DEF T
<1>3. Cardinality(T \cup {l}) = Cardinality(T) + 1
  BY <1>2, FS_AddElement
<1> QED
  BY <1>1, <1>3 DEF Load, T

\* A step binds a lease on top of leases ls to an instance of p with headroom.
BindsBelowCapacity ==
    \E ls, l :
        /\ leases' = ls \cup {l} /\ l \notin ls /\ l.state = "Active"
        /\ ls \subseteq Lease /\ Inherits(ls, leases) /\ IsFiniteSet(ls)
        /\ \A m, q \in ls : m.id = q.id => m = q
        /\ \A m \in Active(leases') : m.inst = l.inst => m.pool = l.pool
        /\ l.pool \in DOMAIN pools' => Load(ls, l.inst) < Capacity(l.pool)'

LEMMA CapacityIsPositive ==
    ASSUME Ownership', NEW p \in DOMAIN pools'
    PROVE  Capacity(p)' \in Int /\ Capacity(p)' >= 1
<1>1. pools'[p].cap \in Int
  BY SupervisorAssumption DEF Ownership, SupTypeOK, ValidPolicy, Policy, Registered
<1> QED
  BY <1>1 DEF Capacity

LEMMA LoadStep ==
    ASSUME RouterInv, RouterInv', Inherits(leases', leases) \/ BindsBelowCapacity,
           NEW l \in Active(leases'), l.pool \in DOMAIN pools',
           Load(leases', l.inst) > Load(leases, l.inst)
    PROVE  Load(leases', l.inst) <= Capacity(l.pool)'
<1>1. /\ IsFiniteSet(leases) /\ IsFiniteSet(leases')
      /\ \A m, q \in leases' : m.id = q.id => m = q
  BY LeasesAreFinite DEF RouterInv, Agree
<1>2. /\ Load(leases, l.inst) \in Nat /\ Load(leases', l.inst) \in Nat
      /\ Capacity(l.pool)' \in Int
  BY <1>1, LoadIsNat, CapacityIsPositive DEF RouterInv
<1>3. ~Inherits(leases', leases)
  BY <1>1, <1>2, LoadInherited
<1>4. PICK ls, m :
        /\ leases' = ls \cup {m} /\ m \notin ls /\ m.state = "Active"
        /\ ls \subseteq Lease /\ Inherits(ls, leases) /\ IsFiniteSet(ls)
        /\ \A q, r \in ls : q.id = r.id => q = r
        /\ \A q \in Active(leases') : q.inst = m.inst => q.pool = m.pool
        /\ m.pool \in DOMAIN pools' => Load(ls, m.inst) < Capacity(m.pool)'
  BY <1>3 DEF BindsBelowCapacity
<1>5. Load(ls, l.inst) \in Nat
  BY <1>4, LoadIsNat
<1>6. Load(ls, l.inst) <= Load(leases, l.inst)
  BY <1>1, <1>4, LoadInherited
<1>7. Load(leases', l.inst) = IF l.inst = m.inst THEN Load(ls, l.inst) + 1
                              ELSE Load(ls, l.inst)
  BY <1>4, LoadAfterBind
<1>8. l.inst = m.inst
  BY <1>2, <1>5, <1>6, <1>7
<1>9. l.pool = m.pool
  BY <1>4, <1>8
<1> QED
  BY <1>2, <1>4, <1>5, <1>7, <1>8, <1>9

LEMMA PruneInherits ==
    ASSUME RouterInv
    PROVE  Inherits(LeasesAfterPrune, leases)
<1>1. \A l \in leases : Released(l).state = "Released"
  BY ReleasedIsLease DEF RouterInv, Agree
<1> QED
  BY <1>1 DEF Inherits, LeasesAfterPrune, Active

LEMMA ClearedInherits ==
    ASSUME RouterInv, NEW stuck \in SUBSET Active(LeasesAfterPrune)
    PROVE  Inherits(ClearedLeases(stuck), leases)
<1>1. \A l \in stuck : l \in Lease
  BY AgreeAfterPrune DEF RouterInv, Agree, Active
<1>2. \A l \in stuck : Released(l).state = "Released"
  BY <1>1, ReleasedIsLease
<1>3. Active(ClearedLeases(stuck)) \subseteq Active(LeasesAfterPrune)
  BY <1>2 DEF ClearedLeases, Active
<1> QED
  BY <1>3, PruneInherits DEF Inherits

\* Bind, on top of leases that are active already and an instance with headroom.
LEMMA BindGrows ==
    ASSUME RouterInv, NEW ls, NEW st, Agree(ls, st, nextLease), Inherits(ls, leases),
           OnOwnPool(ls, instances', nextSerial'),
           NEW p \in Pool, NEW s \in Session \cup {NoSession}, NEW i \in instances', i.pool = p,
           p \in DOMAIN pools' => Load(ls, i.id) < Capacity(p)',
           Bind(ls, st, p, s, i.id)
    PROVE  BindsBelowCapacity
<1> DEFINE l == NewLease(p, s, nextLease, i.id)
<1>1. leases' = ls \cup {l}
  BY DEF Bind, NewLease
<1>2. l.pool = p /\ l.inst = i.id /\ l.id = nextLease /\ l.state = "Active"
  BY DEF NewLease
<1> HIDE DEF l
<1>3. l \notin ls
  BY <1>2 DEF Agree
<1>4. \A m \in Active(leases') : m.inst = l.inst => m.pool = l.pool
  BY <1>1, <1>2 DEF OnOwnPool, Active
<1>5. /\ IsFiniteSet(ls) /\ ls \subseteq Lease
      /\ \A m, q \in ls : m.id = q.id => m = q
  BY LeasesAreFinite DEF Agree
<1> QED
  BY <1>1, <1>2, <1>3, <1>4, <1>5 DEF BindsBelowCapacity

LEMMA AcquireLoads ==
    ASSUME RouterInv, Ownership', InstancesFollow,
           NEW p \in Pool, NEW s \in Session \cup {NoSession}, Acquire(p, s)
    PROVE  Inherits(leases', leases) \/ BindsBelowCapacity
<1> DEFINE stuck == StuckLease(LeasesAfterPrune, StickyAfterPrune, p, s)
           live == StillLive(stuck, instances', p)
           ls1 == ClearedLeases(stuck)
<1>1. CASE p \notin Registered
  BY <1>1, PruneInherits DEF Acquire, Prune
<1>2. CASE p \in Registered
  <2>1. Answer(p, s, instances') /\ pools' = pools
    BY <1>2 DEF Acquire, ReadPools, Reap, ReapInto
  <2>2. \/ \E l \in live : StickyAnswer(l)
        \/ FreshAnswer(p, s, instances', ls1, ClearedSticky(p, s))
    BY <2>1 DEF Answer, ClearedLeases, ClearedSticky
  <2>3. ASSUME NEW l \in live, StickyAnswer(l)
        PROVE  Inherits(leases', leases)
    <3> DEFINE t == [l EXCEPT !.idle = 0]
    <3>1. l \in Active(LeasesAfterPrune) /\ l \in Lease
      BY AgreeAfterPrune DEF StillLive, StuckLease, Active, Agree, RouterInv
    <3>2. t.id = l.id /\ t.inst = l.inst
      BY <3>1, TouchedIsLease
    <3>3. leases' = (LeasesAfterPrune \ {l}) \cup {t}
      BY <2>3 DEF StickyAnswer
    <3> HIDE DEF t
    <3> QED
      BY <3>1, <3>2, <3>3, PruneInherits DEF Inherits, Active
  <2>4. stuck \in SUBSET Active(LeasesAfterPrune)
    BY DEF StuckLease
  <2>5. /\ Inherits(ls1, leases) /\ Agree(ls1, ClearedSticky(p, s), nextLease)
        /\ OnOwnPool(ls1, instances', nextSerial')
    BY <2>4, ClearedInherits, ClearedAgree, AfterPrune DEF RouterInv
  <2>6. ASSUME NEW i \in LeastLoaded(ls1, instances', p),
               Bind(ls1, ClearedSticky(p, s), p, s, i.id)
        PROVE  BindsBelowCapacity
    <3> HIDE DEF ls1
    <3>1. i \in instances' /\ i.pool = p /\ Load(ls1, i.id) < Capacity(p)'
      BY <2>1 DEF LeastLoaded, WithHeadroom, Healthy, Capacity
    <3> QED
      BY <2>5, <2>6, <3>1, BindGrows
  <2> QED
    BY <2>2, <2>3, <2>5, <2>6 DEF FreshAnswer
<1> QED
  BY <1>1, <1>2

LEMMA ScaleOutEndLoads ==
    ASSUME RouterInv, Ownership', InstancesFollow,
           NEW r \in scaleOut, NEW k \in calls, NEW newId \in 0 .. MaxSerial,
           ScaleOutEnd(r, k, newId), newId # 0
    PROVE  BindsBelowCapacity
<1>1. r.pool \in Pool /\ r.session \in Session \cup {NoSession} /\ k.pool = r.pool
  BY DEF RouterInv, ScaleOutAlone, Request, ScaleOutEnd, RoutersCalls
<1>2. PICK i \in instances' : i.id = newId /\ i.pool = r.pool /\ i.id >= nextSerial
  BY <1>1, ScaleUpListsItsWorker DEF ScaleOutEnd, RouterInv
<1>3. Bind(leases, sticky, r.pool, r.session, i.id)
  BY <1>2 DEF ScaleOutEnd
<1>4. Load(leases, i.id) = 0
  <2>1. nextSerial \in Nat /\ i.id \in Nat /\ \A l \in leases : l.inst \in Nat /\ l.inst < nextSerial
    BY <1>2 DEF RouterInv, Ownership, SupTypeOK, OnOwnPool, Agree, Lease
  <2>2. {l \in Active(leases) : l.inst = i.id} = {}
    BY <1>2, <2>1 DEF Active
  <2> QED
    BY <2>2, FS_EmptySet DEF Load
<1>5. r.pool \in DOMAIN pools' => Load(leases, i.id) < Capacity(r.pool)'
  BY <1>4, CapacityIsPositive
<1>6. /\ Inherits(leases, leases) /\ Agree(leases, sticky, nextLease)
      /\ OnOwnPool(leases, instances', nextSerial')
  BY AfterPrune DEF Inherits, RouterInv
<1> QED
  BY <1>1, <1>2, <1>3, <1>5, <1>6, BindGrows

LEMMA RouterLoads ==
    ASSUME RouterInv, Ownership', InstancesFollow, [RouterNext]_routerVars
    PROVE  Inherits(leases', leases) \/ BindsBelowCapacity
<1>1. CASE \E p \in Pool, s \in Session \cup {NoSession} : Acquire(p, s)
  BY <1>1, AcquireLoads
<1>2. CASE leases' = leases
  BY <1>2 DEF Inherits
<1>3. ASSUME NEW r \in scaleOut, NEW k \in calls, NEW newId \in 0 .. MaxSerial,
             ScaleOutEnd(r, k, newId)
      PROVE  leases' = leases \/ BindsBelowCapacity
  BY <1>3, ScaleOutEndLoads DEF ScaleOutEnd
<1>4. ASSUME NEW l \in leases, ReleaseLease(l)
      PROVE  Inherits(leases', leases)
  <2>1. Released(l).state = "Released"
    BY ReleasedIsLease DEF RouterInv, Agree
  <2> QED
    BY <1>4, <2>1 DEF ReleaseLease, Inherits, Active
<1>5. CASE ActiveLeases \/ SaturationFor
  BY <1>5, PruneInherits DEF ActiveLeases, SaturationFor, Prune
<1>6. CASE LeaseTick
  <2>1. leases' = {Older(l) : l \in leases}
    BY <1>6 DEF LeaseTick, Older
  <2>2. \A l \in leases : /\ Older(l).id = l.id /\ Older(l).inst = l.inst
                          /\ Older(l).state = l.state
    BY OlderIsLease DEF RouterInv, Agree
  <2> QED
    BY <2>1, <2>2 DEF Inherits, Active
<1> QED
  BY <1>1, <1>2, <1>3, <1>4, <1>5, <1>6
     DEF RouterNext, ScaleOutRefused, ScaleOutBegin, SupervisorStep, routerVars, routerOwnVars

\* However pools are scaled, drained, removed or given other policies between
\* the router's look at them and its answer, no answer takes an instance past
\* the cap of its pool.
THEOREM CapHolds == RouterSpec => LoadStaysWithinCap
<1>1. RouterInv /\ RouterInv' /\ [RouterNext]_routerVars
          => [\A l \in Active(leases') :
                 l.pool \in DOMAIN pools' /\ Load(leases', l.inst) > Load(leases, l.inst)
                   => Load(leases', l.inst) <= Capacity(l.pool)']_routerVars
  BY RouterInvStep, RouterLoads, LoadStep DEF RouterInv
<1> QED
  BY <1>1, RouterAlways, PTL DEF RouterSpec, LoadStaysWithinCap

-----------------------------------------------------------------------------
(***************************************************************************)
(* The document.  Every writer of it ends in one of three ways: it leaves  *)
(* the document alone, it changes the client in place, or it replaces the  *)
(* document by one that update() did not refuse.  What is claimed of the   *)
(* document is a consequence of these three.                               *)
(***************************************************************************)


LEMMA DefaultIsDocument == DefaultDocument \in Document /\ Idle \in ThreadRecord
  BY ConfigAssumption DEF DefaultDocument, Document, ClientState, Idle, ThreadRecord

\* An edit of one section of a document is a document.
LEMMA EditedDocument ==
    ASSUME NEW doc \in Document, NEW s \in Section, NEW v \in Value(s)
    PROVE  [doc EXCEPT ![s] = v] \in Document
<1>1. CASE s = "client"
  BY <1>1 DEF Document, Value, ClientState
<1>2. CASE s = "pools"
  BY <1>2 DEF Document, Value
<1>3. CASE s = "settings"
  BY <1>3 DEF Document, Value
<1>4. CASE s = "security"
  BY <1>4 DEF Document, Value
<1> QED
  BY <1>1, <1>2, <1>3, <1>4 DEF Section

\* What a write leaves in memory and on disk.
DocumentTyped ==
    memory' \in Document /\ intended' \in Document /\ disk' \in Document \cup {Torn}
    /\ acked' \in ClientState \cup {"unknown"}

\* A finished request holds no mutex, and the others hold what they held.
LEMMA RequestEnds ==
    ASSUME CfgTypeOK, NEW t \in Thread, DocumentTyped, Done(t),
           up' = up, registered' = registered,
           Unlock(t) \/ (writeMutex' = writeMutex /\ thread[t].pc # "patch")
    PROVE  CfgTypeOK'
<1>1. thread' \in [Thread -> ThreadRecord] /\ thread'[t].pc = "idle"
      /\ \A q \in Thread \ {t} : thread'[q] = thread[q]
  BY DefaultIsDocument DEF Done, CfgTypeOK, Idle
<1>2. writeMutex' # t /\ \A q \in Thread \ {t} : writeMutex' = q <=> writeMutex = q
  BY ConfigAssumption DEF CfgTypeOK, Unlock
<1>3. writeMutex' \in Thread \cup {NoThread}
  BY DEF CfgTypeOK, Unlock
<1>4. \A q \in Thread : writeMutex' = q <=> thread'[q].pc = "patch"
  BY <1>1, <1>2 DEF CfgTypeOK
<1> QED
  BY <1>1, <1>3, <1>4 DEF CfgTypeOK, DocumentTyped

\* A request goes on to its next step, with a copy of the document or a list
\* of pools.
LEMMA RequestGoesOn ==
    ASSUME CfgTypeOK, NEW t \in Thread, NEW r \in ThreadRecord,
           thread' = [thread EXCEPT ![t] = r], r.pc # "idle",
           \/ /\ r.pc # "patch" /\ thread[t].pc # "patch"
              /\ writeMutex' = writeMutex
           \/ r.pc = "patch" /\ writeMutex = NoThread /\ writeMutex' = t,
           registered' \in SUBSET SavedPool,
           UNCHANGED << up, memory, disk, intended, acked >>
    PROVE  CfgTypeOK'
<1>1. thread' \in [Thread -> ThreadRecord] /\ thread'[t] = r
      /\ \A q \in Thread \ {t} : thread'[q] = thread[q]
  BY DEF CfgTypeOK
<1>2. CASE r.pc = "patch"
  <2>1. \A q \in Thread : writeMutex # q
    BY <1>2, ConfigAssumption
  <2>2. writeMutex' = t
    BY <1>2
  <2>3. \A q \in Thread : writeMutex' = q <=> thread'[q].pc = "patch"
    BY <1>1, <1>2, <2>1, <2>2 DEF CfgTypeOK
  <2> QED
    BY <1>1, <2>2, <2>3 DEF CfgTypeOK
<1>3. CASE r.pc # "patch"
  <2>1. writeMutex' = writeMutex /\ thread[t].pc # "patch"
    BY <1>3
  <2>2. \A q \in Thread : writeMutex' = q <=> thread'[q].pc = "patch"
    BY <1>1, <1>3, <2>1 DEF CfgTypeOK
  <2> QED
    BY <1>1, <2>1, <2>2 DEF CfgTypeOK
<1> QED
  BY <1>2, <1>3

\* A change of the client in place leaves a document, with the flag it had.
LEMMA ClientChanges ==
    ASSUME CfgTypeOK, NEW state \in ClientState, NEW ok \in BOOLEAN, ChangeClient(state, ok)
    PROVE  DocumentTyped /\ memory'.security = memory.security
  BY DEF CfgTypeOK, DocumentTyped, ChangeClient, Written, Document, ClientState

LEMMA ClientOpTyped ==
    ASSUME CfgTypeOK, NEW t \in Thread, ClientOp(t), DocumentTyped
    PROVE  CfgTypeOK'
  BY DEF CfgTypeOK, ClientOp, DocumentTyped

\* The routes that replace the document.
LEMMA UpdateTyped ==
    ASSUME CfgTypeOK, NEW doc \in Document, NEW confirm \in BOOLEAN, NEW ok \in BOOLEAN,
           Update(doc, confirm, ok)
    PROVE  /\ memory' \in Document /\ disk' \in Document \cup {Torn}
           /\ memory'.security \/ confirm
  BY DEF CfgTypeOK, Update, Refused, Written, Document

LEMMA EditTyped ==
    ASSUME CfgTypeOK, NEW t \in Thread, NEW s \in Section, NEW v \in Value(s),
           NEW confirm \in BOOLEAN, NEW ok \in BOOLEAN, WriteEdited(t, s, v, confirm, ok),
           UNCHANGED << up, registered >>
    PROVE  CfgTypeOK' /\ (memory'.security \/ confirm)
<1> DEFINE doc == [thread[t].copy EXCEPT ![s] = v]
<1>1. doc \in Document
  BY EditedDocument DEF CfgTypeOK, ThreadRecord
<1>2. /\ Update(doc, confirm, ok) /\ Unlock(t) /\ Done(t)
      /\ intended' = IF thread[t].pc = "post" THEN doc ELSE [intended EXCEPT ![s] = v]
      /\ acked' = IF doc.client = memory.client THEN acked ELSE "unknown"
  BY DEF WriteEdited
<1> HIDE DEF doc
<1>3. intended' \in Document /\ acked' \in ClientState \cup {"unknown"}
  <2>1. [intended EXCEPT ![s] = v] \in Document
    BY EditedDocument DEF CfgTypeOK
  <2> QED
    BY <1>1, <1>2, <2>1 DEF CfgTypeOK
<1>4. DocumentTyped /\ (memory'.security \/ confirm)
  BY <1>1, <1>2, <1>3, UpdateTyped DEF DocumentTyped
<1> QED
  BY <1>2, <1>4, RequestEnds

LEMMA PoolsTyped ==
    ASSUME CfgTypeOK, NEW t \in Thread, NEW ok \in BOOLEAN, SavePools(t, ok)
    PROVE  CfgTypeOK' /\ (memory'.security \/ memory' = memory)
<1> DEFINE doc == [thread[t].copy EXCEPT !.pools = thread[t].listed]
<1>1. doc \in Document /\ doc.pools = thread[t].listed /\ doc.pools \in SUBSET SavedPool
  BY DEF CfgTypeOK, ThreadRecord, Document
<1>2. thread[t].pc = "save" /\ Done(t) /\ UNCHANGED << up, registered, writeMutex >>
  BY DEF SavePools
<1>3. DocumentTyped /\ (memory'.security \/ memory' = memory)
  <2>1. CASE Refused(doc, FALSE)
    BY <2>1 DEF SavePools, CfgTypeOK, DocumentTyped
  <2>2. CASE ~Refused(doc, FALSE)
    <3>1. /\ Update(doc, FALSE, ok)
          /\ intended' = [intended EXCEPT !.pools = doc.pools]
          /\ acked' = IF doc.client = memory.client THEN acked ELSE "unknown"
      BY <2>2 DEF SavePools
    <3> HIDE DEF doc
    <3>2. intended' \in Document /\ acked' \in ClientState \cup {"unknown"}
      BY <1>1, <3>1 DEF CfgTypeOK, Document
    <3>3. /\ memory' \in Document /\ disk' \in Document \cup {Torn}
          /\ memory'.security
      BY <1>1, <3>1, UpdateTyped
    <3> QED
      BY <3>2, <3>3 DEF DocumentTyped
  <2> QED
    BY <2>1, <2>2
<1>4. CfgTypeOK'
  BY <1>2, <1>3, RequestEnds
<1> QED
  BY <1>3, <1>4

LEMMA GiveUpTyped ==
    ASSUME CfgTypeOK, NEW t \in Thread, GiveUp(t)
    PROVE  CfgTypeOK'
<1>1. DocumentTyped /\ Done(t) /\ Unlock(t) /\ UNCHANGED << up, registered >>
  BY DEF GiveUp, DocumentTyped, CfgTypeOK
<1> QED
  BY <1>1, RequestEnds

LEMMA ReadTyped ==
    ASSUME CfgTypeOK, NEW t \in Thread, NEW ps \in SUBSET SavedPool,
           \/ ReadForEdit(t) \/ ReadForPatch(t) \/ ReadForPost(t)
           \/ ChangePools(t, ps) \/ ListPools(t) \/ ReadForPools(t)
    PROVE  CfgTypeOK'
<1>1. thread[t] \in ThreadRecord /\ memory \in Document /\ registered \in SUBSET SavedPool
  BY DEF CfgTypeOK
<1>2. CASE ReadForEdit(t) \/ ReadForPost(t)
  <2>1. PICK pc \in {"edit", "post"} :
           thread' = [thread EXCEPT ![t] = [@ EXCEPT !.pc = pc, !.copy = memory]]
    BY <1>2 DEF ReadForEdit, ReadForPost
  <2> DEFINE r == [thread[t] EXCEPT !.pc = pc, !.copy = memory]
  <2>2. r \in ThreadRecord /\ r.pc # "idle" /\ r.pc # "patch"
    BY <1>1, <2>1 DEF ThreadRecord
  <2>3. thread' = [thread EXCEPT ![t] = r]
    BY <2>1
  <2>4. /\ thread[t].pc # "patch" /\ writeMutex' = writeMutex
        /\ UNCHANGED << up, memory, disk, registered, intended, acked >>
    BY <1>2 DEF ReadForEdit, ReadForPost
  <2> HIDE DEF r
  <2> QED
    BY <1>1, <2>2, <2>3, <2>4, RequestGoesOn
<1>3. CASE ReadForPatch(t)
  <2> DEFINE r == [thread[t] EXCEPT !.pc = "patch", !.copy = memory]
  <2>1. r \in ThreadRecord /\ r.pc = "patch"
    BY <1>1 DEF ThreadRecord
  <2>2. thread' = [thread EXCEPT ![t] = r]
    BY <1>3 DEF ReadForPatch
  <2>3. /\ writeMutex = NoThread /\ writeMutex' = t
        /\ UNCHANGED << up, memory, disk, registered, intended, acked >>
    BY <1>3 DEF ReadForPatch
  <2> HIDE DEF r
  <2> QED
    BY <1>1, <2>1, <2>2, <2>3, RequestGoesOn
<1>4. CASE ChangePools(t, ps) \/ ListPools(t) \/ ReadForPools(t)
  <2>1. PICK pc \in {"list", "read", "save"}, ls \in SUBSET SavedPool, doc \in Document :
           thread' = [thread EXCEPT ![t] = [@ EXCEPT !.pc = pc, !.listed = ls, !.copy = doc]]
    <3>1. CASE ChangePools(t, ps)
      <4>1. thread' = [thread EXCEPT ![t] = [@ EXCEPT !.pc = "list", !.listed = thread[t].listed,
                                                        !.copy = thread[t].copy]]
        BY <1>1, <3>1 DEF ChangePools, CfgTypeOK, ThreadRecord
      <4> QED
        BY <1>1, <4>1 DEF ThreadRecord
    <3>2. CASE ListPools(t)
      <4>1. thread' = [thread EXCEPT ![t] = [@ EXCEPT !.pc = "read", !.listed = registered,
                                                        !.copy = thread[t].copy]]
        BY <1>1, <3>2 DEF ListPools, CfgTypeOK, ThreadRecord
      <4> QED
        BY <1>1, <4>1 DEF ThreadRecord
    <3>3. CASE ReadForPools(t)
      <4>1. thread' = [thread EXCEPT ![t] = [@ EXCEPT !.pc = "save", !.listed = thread[t].listed,
                                                        !.copy = memory]]
        BY <1>1, <3>3 DEF ReadForPools, CfgTypeOK, ThreadRecord
      <4> QED
        BY <1>1, <4>1 DEF ThreadRecord
    <3> QED
      BY <1>4, <3>1, <3>2, <3>3
  <2> DEFINE r == [thread[t] EXCEPT !.pc = pc, !.listed = ls, !.copy = doc]
  <2>2. r \in ThreadRecord /\ r.pc # "idle" /\ r.pc # "patch"
    BY <1>1, <2>1 DEF ThreadRecord
  <2>3. thread' = [thread EXCEPT ![t] = r]
    BY <2>1
  <2>4. /\ thread[t].pc # "patch" /\ writeMutex' = writeMutex
        /\ registered' \in SUBSET SavedPool
        /\ UNCHANGED << up, memory, disk, intended, acked >>
    BY <1>1, <1>4 DEF ChangePools, ListPools, ReadForPools
  <2> HIDE DEF r
  <2> QED
    BY <2>2, <2>3, <2>4, RequestGoesOn
<1> QED
  BY <1>2, <1>3, <1>4

\* The end of the process, at any step of any request, and its next start.
LEMMA ProcessTyped ==
    ASSUME CfgTypeOK, Crash \/ CrashInCopy \/ Restart
    PROVE  CfgTypeOK'
<1>1. CASE Crash \/ CrashInCopy
  <2>1. Stopped /\ disk' \in {disk, Torn}
    BY <1>1 DEF Crash, CrashInCopy
  <2>2. /\ thread' \in [Thread -> ThreadRecord] /\ writeMutex' = NoThread
        /\ \A t \in Thread : thread'[t].pc = "idle"
    BY <2>1, DefaultIsDocument DEF Stopped, Idle
  <2> QED
    BY <2>1, <2>2, ConfigAssumption DEF Stopped, CfgTypeOK
<1>2. CASE Restart
  <2>1. memory' \in Document
    BY <1>2, DefaultIsDocument DEF Restart, CfgTypeOK
  <2>2. memory'.pools \in SUBSET SavedPool
    BY <2>1 DEF Document
  <2> QED
    BY <1>2, <2>1, <2>2 DEF Restart, CfgTypeOK
<1> QED
  BY <1>1, <1>2

\* The steps of CfgNext by what they do to the document: a request that ends
\* with a replacement of it, or another step.
LEMMA CfgSteps ==
    ASSUME CfgTypeOK, [CfgNext]_cfgVars
    PROVE  /\ CfgTypeOK'
           /\ \/ memory'.security = memory.security
              \/ memory'.security
              \/ ~up
              \/ \E t \in Thread, s \in PatchSection : \E v \in Value(s), ok \in BOOLEAN :
                     SavePatch(t, s, v, TRUE, ok) \/ SavePost(t, s, v, TRUE, ok)
<1>1. CASE \E t \in Thread, ok \in BOOLEAN, state \in ClientState :
             UpsertClient(t, state, ok) \/ SetEnabled(t, state, ok) \/ RemoveClient(t, ok)
  <2>1. PICK t \in Thread, ok \in BOOLEAN, state \in ClientState :
             UpsertClient(t, state, ok) \/ SetEnabled(t, state, ok) \/ RemoveClient(t, ok)
    BY <1>1
  <2>2. ClientOp(t)
    BY <2>1 DEF UpsertClient, SetEnabled, RemoveClient
  <2>3. DocumentTyped /\ memory'.security = memory.security
    <3>1. CASE \E c \in ClientState : ChangeClient(c, ok)
      BY <3>1, ClientChanges
    <3>2. CASE acked' = state /\ UNCHANGED << memory, disk, intended >>
      BY <3>2 DEF CfgTypeOK, DocumentTyped
    <3>3. "absent" \in ClientState
      BY DEF ClientState
    <3> QED
      BY <2>1, <3>1, <3>2, <3>3 DEF UpsertClient, SetEnabled, RemoveClient
  <2> QED
    BY <2>2, <2>3, ClientOpTyped
<1>2. CASE \E t \in Thread, ok \in BOOLEAN, v \in Setting : SaveEdit(t, v, ok)
  <2>1. PICK t \in Thread, ok \in BOOLEAN, v \in Setting : SaveEdit(t, v, ok)
    BY <1>2
  <2>2. "settings" \in Section /\ v \in Value("settings")
    BY DEF Section, Value
  <2> QED
    BY <2>1, <2>2, EditTyped DEF SaveEdit, WriteEdited
<1>3. CASE \E t \in Thread, ok \in BOOLEAN, s \in PatchSection, confirm \in BOOLEAN :
             \E v \in Value(s) : SavePatch(t, s, v, confirm, ok) \/ SavePost(t, s, v, confirm, ok)
  <2>1. PICK t \in Thread, ok \in BOOLEAN, s \in PatchSection, confirm \in BOOLEAN :
             \E v \in Value(s) : SavePatch(t, s, v, confirm, ok) \/ SavePost(t, s, v, confirm, ok)
    BY <1>3
  <2>2. PICK v \in Value(s) : SavePatch(t, s, v, confirm, ok) \/ SavePost(t, s, v, confirm, ok)
    BY <2>1
  <2>3. CfgTypeOK' /\ (memory'.security \/ confirm)
    BY <2>2, EditTyped, ConfigAssumption DEF SavePatch, SavePost, WriteEdited
  <2> QED
    BY <2>2, <2>3
<1>4. CASE \E t \in Thread, ok \in BOOLEAN : SavePools(t, ok)
  BY <1>4, PoolsTyped
<1>5. CASE \E t \in Thread : GiveUp(t)
  BY <1>5, GiveUpTyped DEF GiveUp
<1>6. CASE \E t \in Thread, ps \in SUBSET SavedPool :
             \/ ReadForEdit(t) \/ ReadForPatch(t) \/ ReadForPost(t)
             \/ ChangePools(t, ps) \/ ListPools(t) \/ ReadForPools(t)
  <2>1. memory' = memory
    BY <1>6 DEF ReadForEdit, ReadForPatch, ReadForPost, ChangePools, ListPools, ReadForPools
  <2> QED
    BY <1>6, <2>1, ReadTyped
<1>7. CASE Crash \/ CrashInCopy \/ Restart
  <2>1. memory' = memory \/ ~up
    BY <1>7 DEF Crash, CrashInCopy, Stopped, Restart
  <2> QED
    BY <1>7, <2>1, ProcessTyped
<1>8. CASE UNCHANGED cfgVars
  BY <1>8 DEF cfgVars, CfgTypeOK
<1>9. {} \in SUBSET SavedPool
  OBVIOUS
<1>10. "absent" \in ClientState
  BY DEF ClientState
<1> QED
  BY <1>1, <1>2, <1>3, <1>4, <1>5, <1>6, <1>7, <1>8, <1>9, <1>10 DEF CfgNext

LEMMA CfgStart == CfgInit => CfgTypeOK
<1> SUFFICES ASSUME CfgInit PROVE CfgTypeOK
  OBVIOUS
<1>1. \A t \in Thread : thread[t] = Idle /\ Idle.pc # "patch"
  BY DEF CfgInit, Idle
<1> QED
  BY <1>1, DefaultIsDocument, ConfigAssumption DEF CfgInit, CfgTypeOK, ClientState

LEMMA CfgAlways == CfgSpec => []CfgTypeOK
<1>1. CfgTypeOK /\ [CfgNext]_cfgVars => CfgTypeOK'
  BY CfgSteps
<1> QED
  BY <1>1, CfgStart, PTL DEF CfgSpec

-----------------------------------------------------------------------------
(* The composition *)

\* A behaviour of the composition is one of the router and one of the
\* document: each leaves the variables of the other alone.
LEMMA PoolsBehave == PoolsSpec => RouterSpec /\ CfgSpec
<1>1. PoolsInit => RouterInit /\ CfgInit
  BY DEF PoolsInit
<1>2. [PoolsNext]_poolVars => [RouterNext]_routerVars /\ [CfgNext]_cfgVars
  BY DEF PoolsNext, RouterStep, ConfigurationStep, poolVars
<1> QED
  BY <1>1, <1>2, PTL DEF PoolsSpec, RouterSpec, CfgSpec

\* Every variable of the router and of the document keeps its type; leases_
\* and stickySessions_ agree; and configurationWriteMutex_ is held exactly by
\* the PATCH that is between its read and its update, also after a PATCH that
\* was refused and after a crash within one.
THEOREM PoolsTypes == PoolsSpec => []PoolTypes
<1>1. RouterTypeOK /\ StickyMapAgrees /\ CfgTypeOK => PoolTypes
  BY DEF PoolTypes
<1> QED
  BY <1>1, PoolsBehave, RouterTypes, SessionsAgree, CfgAlways, PTL

\* update() lets the security protocols be switched off by a PATCH or a POST
\* that confirms it and by nothing else: a route that writes back an old copy
\* of the document does not switch them off.
THEOREM SecurityStaysOn == PoolsSpec => SecurityOffIsConfirmed
<1>1. CfgTypeOK /\ [CfgNext]_cfgVars =>
        [ up /\ up' /\ memory.security /\ ~memory'.security =>
            \E t \in Thread, s \in PatchSection : \E v \in Value(s), ok \in BOOLEAN :
                SavePatch(t, s, v, TRUE, ok) \/ SavePost(t, s, v, TRUE, ok) ]_cfgVars
  BY CfgSteps DEF CfgTypeOK, Document
<1> QED
  BY <1>1, PoolsBehave, CfgAlways, PTL DEF CfgSpec, SecurityOffIsConfirmed

\* When every spawn succeeds, each answer of acquireLease is on a Ready
\* instance and within the cap of its pool.
THEOREM LeasesStaySound ==
    ASSUME SpawnOutcomes = {"Ready"}
    PROVE  PoolsSpec => LeasesAreSound
  BY PoolsBehave, CapHolds, AnswersAreReady, PTL DEF LeasesAreSound

\* When every spawn succeeds, the composition implements SessionAffinity.
THEOREM AffinityIsKept ==
    ASSUME SpawnOutcomes = {"Ready"}
    PROVE  PoolsSpec => KeepsAffinity
  BY PoolsBehave, SessionsKeepWorkers, PTL
================================================================================
