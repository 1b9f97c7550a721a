--------------------------- MODULE WorkerSupervisor ---------------------------
(***************************************************************************)
(* The WorkerSupervisor of MasterControlRuntime.cpp: managed endpoint      *)
(* pools, their worker instances, the child processes behind them, the     *)
(* auto-respawn pass with its crash circuit breaker, and the terminal      *)
(* shutdown.                                                               *)
(*                                                                         *)
(* Every operation of the class runs under mutex_ and is one action here,  *)
(* except where the code itself takes several critical sections:           *)
(* ensureMinInstances and scaleUpOnce test shuttingDown_ BEFORE they lock  *)
(* mutex_ (BeginCall / EnsureMinInstances, ScaleUpOnce), shutdownAll sets  *)
(* the flag before it locks (BeginShutdown / TerminateAll), and a watchdog *)
(* cycle reaps and prunes under two separate locks.                        *)
(*                                                                         *)
(* An instance id "<poolId>#<serial>" is its serial: serials are global    *)
(* and never reused.  steady_clock is counted in ticks and a timestamp is  *)
(* kept as its age, so no clock has to be bounded.                         *)
(***************************************************************************)
EXTENDS Naturals, Integers, FiniteSets

CONSTANTS
    Pool,           \* pool ids
    Policies,       \* scale policies an operator may submit, valid or not
    Caller,         \* threads that call ensureMinInstances / scaleUpOnce
    SpawnOutcomes,  \* what startInstanceLocked may yield: "Ready", "Failed"
    Threshold,      \* kCrashThreshold
    Window,         \* kCrashWindowSeconds, in ticks
    Cooldown,       \* kQuarantineCooldownSeconds, in ticks
    MaxSerial       \* bound: last instance serial a behaviour may hand out

Policy == [min : Int, max : Int, cap : Int]

\* What upsertPool accepts.
ValidPolicy == {q \in Policies : q.min >= 0 /\ q.max >= 1 /\ q.min <= q.max}

ASSUME SupervisorAssumption ==
    /\ Policies \subseteq Policy
    /\ SpawnOutcomes \subseteq {"Ready", "Failed"}
    /\ SpawnOutcomes # {}
    /\ Threshold \in Nat \ {0}
    /\ Window \in Nat
    /\ Cooldown \in Nat
    /\ MaxSerial \in Nat

VARIABLES
    pools,          \* pools_: registered pool -> scale policy
    instances,      \* the instances of every pool, a set of records
    children,       \* ids that have a ChildProcess record in children_
    alive,          \* ids whose worker process is running (operating system)
    nextSerial,     \* nextInstanceSerial_
    failures,       \* poolFailureTimestamps_: the deaths and their ages
    quarantine,     \* poolQuarantineUntil_: ticks left, 0 when not quarantined
    shuttingDown,   \* shuttingDown_
    stopper,        \* progress of shutdownAll
    calls,          \* calls that saw the flag clear and wait for mutex_
    watchdog        \* where the watchdog thread is in its cycle

supVars == << pools, instances, children, alive, nextSerial, failures,
              quarantine, shuttingDown, stopper, calls, watchdog >>

Ops == {"ensureMin", "scaleUp"}
Instance == [id : Nat, pool : Pool, state : {"Ready", "Draining", "Failed"},
             supervised : BOOLEAN]
Failure == [id : Nat, age : 0..(Window + 1)]

-----------------------------------------------------------------------------
(* Helpers *)

Registered == DOMAIN pools

IdsOf(insts) == {i.id : i \in insts}

\* healthyInstanceCountLocked counts Starting, Ready and Busy; no code path
\* leaves an instance Starting past the lock, and none ever makes it Busy.
Healthy(insts, p) == {i \in insts : i.pool = p /\ i.state = "Ready"}

\* How many workers pool p lacks to reach its floor.
ShortfallOfListed(insts, p) ==
    LET listed == Cardinality({i \in insts : i.pool = p}) IN
    IF p \notin Registered \/ pools[p].min <= listed THEN 0
    ELSE pools[p].min - listed
Shortfall(insts, p) ==
    IF p \notin Registered \/ pools[p].min <= Cardinality(Healthy(insts, p))
    THEN 0
    ELSE pools[p].min - Cardinality(Healthy(insts, p))

\* What startInstanceLocked returns: a worker under Job Object supervision,
\* or a Failed record without a process.
Worker(n, p, outcome) ==
    [id |-> n, pool |-> p, state |-> outcome, supervised |-> outcome = "Ready"]

\* Every way of starting need[p] workers in each pool p with the serials
\* first .. last - 1.
Batch(first, last, need) ==
    {b \in {{Worker(n, o[n][1], o[n][2]) : n \in first..(last - 1)} :
               o \in [first..(last - 1) ->
                        {p \in Pool : need[p] > 0} \X SpawnOutcomes]} :
        \A p \in Pool : Cardinality({i \in b : i.pool = p}) = need[p]}

Supervised(insts) == {i.id : i \in {j \in insts : j.supervised}}

-----------------------------------------------------------------------------
(* reapDeadInstancesLocked *)

\* A child whose process has exited, or a supervised instance that lost its
\* child record.
DeadInstances ==
    {i \in instances :
        \/ i.id \in children \ alive
        \/ i.supervised /\ i.id \notin children /\ i.state # "Failed"}

Survivors == instances \ DeadInstances

DeadOf(p) == {i \in DeadInstances : i.pool = p}

Recent(fs) == {f \in fs : f.age <= Window}

\* The crash window of p after the reap: deaths pushed, then pruned.
FailuresAfterReap(p) ==
    IF DeadOf(p) = {} THEN failures[p]
    ELSE Recent(failures[p] \cup {[id |-> i.id, age |-> 0] : i \in DeadOf(p)})

\* The circuit breaker; a running quarantine is not extended.
QuarantineAfterReap(p) ==
    IF /\ DeadOf(p) # {}
       /\ Cardinality(FailuresAfterReap(p)) >= Threshold
       /\ quarantine[p] = 0
    THEN Cooldown ELSE quarantine[p]

\* The auto-respawn pass: skipped during shutdown and for quarantined pools.
\* The flag is read once for all pools; a shutdownAll that sets it in between
\* waits for mutex_ and then terminates what the pass started.
RespawnDespiteQuarantine ==
    [p \in Pool |-> IF shuttingDown THEN 0 ELSE Shortfall(Survivors, p)]
RespawnNeed ==
    [p \in Pool |->
        IF shuttingDown \/ QuarantineAfterReap(p) > 0
        THEN 0 ELSE Shortfall(Survivors, p)]

\* The state after a reap that started the workers in fresh.
ReapInto(fresh, last) ==
    /\ instances' = Survivors \cup fresh
    /\ children' = (children \ IdsOf(DeadInstances)) \cup Supervised(fresh)
    /\ alive' = (alive \ IdsOf(DeadInstances)) \cup Supervised(fresh)
    /\ nextSerial' = last
    /\ failures' = [p \in Pool |-> FailuresAfterReap(p)]
    /\ quarantine' = [p \in Pool |-> QuarantineAfterReap(p)]
    /\ UNCHANGED << pools, shuttingDown, stopper >>

\* A reap on its own, as listPools and findPool do it.
Reap ==
    \E last \in nextSerial..(MaxSerial + 1) :
        \E fresh \in Batch(nextSerial, last, RespawnNeed) :
            ReapInto(fresh, last)

\* A reap followed, under the same lock, by one more round of spawns in p:
\* want(insts) is how many, given the instances after the respawn pass, and
\* result(more) constrains what the caller is told about them.
ReapThenSpawn(p, want(_), result(_)) ==
    \E mid \in nextSerial..(MaxSerial + 1) :
        \E last \in mid..(MaxSerial + 1) :
            \E fresh \in Batch(nextSerial, mid, RespawnNeed) :
                \E more \in Batch(mid, last,
                               [q \in Pool |-> IF q = p
                                               THEN want(Survivors \cup fresh)
                                               ELSE 0]) :
                    ReapInto(fresh \cup more, last) /\ result(more)

-----------------------------------------------------------------------------
SupInit ==
    /\ pools = [p \in {} |-> {}]
    /\ instances = {}
    /\ children = {}
    /\ alive = {}
    /\ nextSerial = 1
    /\ failures = [p \in Pool |-> {}]
    /\ quarantine = [p \in Pool |-> 0]
    /\ shuttingDown = FALSE
    /\ stopper = "none"
    /\ calls = {}
    /\ watchdog = "sleep"

\* listPools, findPool: the opportunistic reap.
ReadPools ==
    /\ Reap
    /\ UNCHANGED << calls, watchdog >>

\* upsertPool: a valid policy registers the pool or replaces its policy; an
\* update keeps the running instances.
UpsertUnvalidated(p, policy) ==
    /\ policy.max >= 1
    /\ pools' = [q \in Registered \cup {p} |-> IF q = p THEN policy ELSE pools[q]]
    /\ UNCHANGED << instances, children, alive, nextSerial, failures,
                    quarantine, shuttingDown, stopper, calls, watchdog >>
UpsertPool(p, policy) ==
    /\ policy \in ValidPolicy
    /\ pools' = [q \in Registered \cup {p} |-> IF q = p THEN policy ELSE pools[q]]
    /\ UNCHANGED << instances, children, alive, nextSerial, failures,
                    quarantine, shuttingDown, stopper, calls, watchdog >>

\* removePool: terminates every instance; the pool's crash window and its
\* quarantine stay behind.
RemovePoolWithoutTerminating(p) ==
    /\ p \in Registered
    /\ pools' = [q \in Registered \ {p} |-> pools[q]]
    /\ instances' = {i \in instances : i.pool # p}
    /\ UNCHANGED << children, alive, nextSerial, failures, quarantine,
                    shuttingDown, stopper, calls, watchdog >>
RemovePool(p) ==
    LET gone == {i \in instances : i.pool = p} IN
    /\ p \in Registered
    /\ pools' = [q \in Registered \ {p} |-> pools[q]]
    /\ instances' = instances \ gone
    /\ children' = children \ IdsOf(gone)
    /\ alive' = alive \ IdsOf(gone)
    /\ UNCHANGED << nextSerial, failures, quarantine, shuttingDown, stopper,
                    calls, watchdog >>

\* drainPool: every instance of the pool, a Failed one included.
DrainPool(p) ==
    /\ p \in Registered
    /\ instances' = {IF i.pool = p THEN [i EXCEPT !.state = "Draining"] ELSE i :
                        i \in instances}
    /\ UNCHANGED << pools, children, alive, nextSerial, failures, quarantine,
                    shuttingDown, stopper, calls, watchdog >>

\* The unlocked test of shuttingDown_ at the head of ensureMinInstances and
\* scaleUpOnce; with the flag set the call returns at once.
BeginCall(c, op, p) ==
    /\ ~shuttingDown
    /\ \A k \in calls : k.caller # c
    /\ calls' = calls \cup {[caller |-> c, op |-> op, pool |-> p]}
    /\ UNCHANGED << pools, instances, children, alive, nextSerial, failures,
                    quarantine, shuttingDown, stopper, watchdog >>

\* ensureMinInstances, under mutex_: quarantine is not consulted.
EnsureMinInstances(k) ==
    /\ k \in calls
    /\ k.op = "ensureMin"
    /\ ReapThenSpawn(k.pool, LAMBDA insts : Shortfall(insts, k.pool),
                     LAMBDA more : TRUE)
    /\ calls' = calls \ {k}
    /\ UNCHANGED watchdog

\* scaleUpOnce, under mutex_: one more instance unless the healthy count is
\* at maxInstances.  It returns the new id, even when the spawn failed, and 0
\* (the empty string) when it refused.
HeadroomUpToMax(insts, p) ==
    IF p \in Registered /\ Cardinality(Healthy(insts, p)) <= pools[p].max
    THEN 1 ELSE 0
HeadroomBelowMax(insts, p) ==
    IF p \in Registered /\ Cardinality(Healthy(insts, p)) < pools[p].max
    THEN 1 ELSE 0

ScaleUpOnce(k, newId) ==
    /\ k \in calls
    /\ k.op = "scaleUp"
    /\ ReapThenSpawn(k.pool, LAMBDA insts : HeadroomBelowMax(insts, k.pool),
                     LAMBDA more : IdsOf(more) = {newId} \ {0})
    /\ calls' = calls \ {k}
    /\ UNCHANGED watchdog

\* shutdownAll stores the flag first ...
BeginShutdown ==
    /\ stopper # "flagged"
    /\ shuttingDown' = TRUE
    /\ stopper' = "flagged"
    /\ UNCHANGED << pools, instances, children, alive, nextSerial, failures,
                    quarantine, calls, watchdog >>

\* ... and terminates every instance of every pool under mutex_.
TerminateAll ==
    /\ stopper = "flagged"
    /\ stopper' = "done"
    /\ instances' = {}
    /\ children' = children \ IdsOf(instances)
    /\ alive' = alive \ IdsOf(instances)
    /\ UNCHANGED << pools, nextSerial, failures, quarantine, shuttingDown,
                    calls, watchdog >>

\* One watchdog cycle: reap under mutex_, release, then prune under mutex_.
WatchdogReap ==
    /\ watchdog = "sleep"
    /\ Reap
    /\ watchdog' = "prune"
    /\ UNCHANGED calls

\* pruneCrashWindowsLocked; expired quarantines are already 0 here.
WatchdogPrune ==
    /\ watchdog = "prune"
    /\ watchdog' = "sleep"
    /\ failures' = [p \in Pool |-> Recent(failures[p])]
    /\ UNCHANGED << pools, instances, children, alive, nextSerial, quarantine,
                    shuttingDown, stopper, calls >>

\* The write-failure path of sendStdioJsonRpc: child record and instance go,
\* closing the job object takes the process along, and the crash window is
\* not touched.
WriteFailureKeepsInstance(i) ==
    /\ i \in instances
    /\ i.id \in children
    /\ children' = children \ {i.id}
    /\ alive' = alive \ {i.id}
    /\ UNCHANGED << pools, instances, nextSerial, failures, quarantine,
                    shuttingDown, stopper, calls, watchdog >>
WriteFailure(i) ==
    /\ i \in instances
    /\ i.id \in children
    /\ instances' = instances \ {i}
    /\ children' = children \ {i.id}
    /\ alive' = alive \ {i.id}
    /\ UNCHANGED << pools, nextSerial, failures, quarantine, shuttingDown,
                    stopper, calls, watchdog >>

\* Environment: a worker process exits on its own.
WorkerExits(n) ==
    /\ n \in alive
    /\ alive' = alive \ {n}
    /\ UNCHANGED << pools, instances, children, nextSerial, failures,
                    quarantine, shuttingDown, stopper, calls, watchdog >>

\* Environment: steady_clock advances by one tick.
Tick ==
    /\ failures' = [p \in Pool |->
                      {[f EXCEPT !.age = IF f.age > Window THEN f.age
                                         ELSE f.age + 1] : f \in failures[p]}]
    /\ quarantine' = [p \in Pool |-> IF quarantine[p] = 0 THEN 0
                                     ELSE quarantine[p] - 1]
    /\ UNCHANGED << pools, instances, children, alive, nextSerial,
                    shuttingDown, stopper, calls, watchdog >>

SupNext ==
    \/ ReadPools
    \/ \E p \in Pool, policy \in Policies : UpsertPool(p, policy)
    \/ \E p \in Pool : RemovePool(p)
    \/ \E p \in Pool : DrainPool(p)
    \/ \E c \in Caller, op \in Ops, p \in Pool : BeginCall(c, op, p)
    \/ \E k \in calls : EnsureMinInstances(k)
    \/ \E k \in calls, newId \in 0..MaxSerial : ScaleUpOnce(k, newId)
    \/ BeginShutdown
    \/ TerminateAll
    \/ WatchdogReap
    \/ WatchdogPrune
    \/ \E i \in instances : WriteFailure(i)
    \/ \E n \in alive : WorkerExits(n)
    \/ Tick

SupSpec == SupInit /\ [][SupNext]_supVars

\* Fairness: the watchdog thread wakes every kWatchdogIntervalMs and its
\* critical sections are short; steady_clock advances.
SupFairSpec ==
    /\ SupSpec
    /\ WF_supVars(WatchdogReap)
    /\ WF_supVars(WatchdogPrune)
    /\ WF_supVars(Tick)

-----------------------------------------------------------------------------
(* Properties *)

\* Every variable holds values of its C++ type, and a registered policy is one
\* upsertPool accepts.
SupTypeOK ==
    /\ Registered \subseteq Pool
    /\ pools \in [Registered -> ValidPolicy]
    /\ instances \subseteq Instance
    /\ children \subseteq Nat
    /\ alive \subseteq Nat
    /\ nextSerial \in Nat
    /\ failures \in [Pool -> SUBSET Failure]
    /\ quarantine \in [Pool -> Nat]
    /\ shuttingDown \in BOOLEAN
    /\ stopper \in {"none", "flagged", "done"}
    /\ calls \subseteq [caller : Caller, op : Ops, pool : Pool]
    /\ watchdog \in {"sleep", "prune"}

\* No worker process outlives its bookkeeping: each running process has a
\* child record and a listed instance of a registered pool, so removePool,
\* shutdownAll, a reap and the write-failure path all find it.
NoOrphanWorker ==
    \A n \in alive :
        /\ n \in children
        /\ \E i \in instances : i.id = n /\ i.pool \in Registered

\* The two tables agree: an instance id names one instance, an instance the
\* supervisor started has a child record, and a child record belongs to one.
BookkeepingAgrees ==
    /\ \A i, j \in instances : i.id = j.id => i = j
    /\ children = Supervised(instances)
    /\ \A i \in instances : i.id < nextSerial

\* No step of the supervisor grows the healthy part of a pool past
\* scalePolicy.maxInstances, whatever deaths, drains, policy changes and
\* queued scale calls came before.
GrowthStaysBelowMax ==
    [][\A p \in DOMAIN pools' :
          Cardinality(Healthy(instances', p)) > Cardinality(Healthy(instances, p))
            => Cardinality(Healthy(instances', p)) <= pools'[p].max]_supVars

\* While a pool is in quarantine no worker starts in it but on an explicit
\* ensureMinInstances or scaleUpOnce call for that pool.
QuarantineStopsRespawn ==
    [][\A i \in instances' :
          (i.id \notin IdsOf(instances) /\ quarantine'[i.pool] > 0)
            => \E k \in calls \ calls' : k.pool = i.pool]_supVars

\* No worker starts that the policy of its pool or its quarantine forbids.
StartsAreAllowed == GrowthStaysBelowMax /\ QuarantineStopsRespawn

\* A pool below its floor comes back to it, or is removed, or the supervisor
\* stops, or (bound of the model) serials run out.
SerialsRunOut ==
    \E policy \in Policies :
        nextSerial + Cardinality(Pool) * policy.min > MaxSerial + 1

FloorRestored ==
    \A p \in Pool :
        (p \in Registered)
          ~> \/ p \notin Registered
             \/ shuttingDown
             \/ Cardinality(Healthy(instances, p)) >= pools[p].min
             \/ SerialsRunOut

\* MasterControlRuntime.cpp, shutdownAll: "Terminal by contract: after
\* shutdownAll the supervisor never starts another child."
ShutdownIsTerminal == [][stopper = "done" => alive' \subseteq alive]_supVars

\* Worker-Pools.md on scalePolicy.maxInstances: "Upper bound -- the supervisor
\* will not exceed this even under saturation".
LiveWorkersWithinMax ==
    \A p \in Registered :
        Cardinality({i \in instances : i.pool = p /\ i.id \in alive})
            <= pools[p].max

\* MasterControlRuntime.cpp, ensureMinInstances: after a reap "there shouldn't
\* be any Failed/Stopped left in pool.instances".
NoFailedInstanceStays == \A i \in instances : i.state # "Failed"

\* MasterControlRuntime.cpp, poolFailureTimestamps_: it "holds the
\* steady_clock timestamps of recent worker deaths for that pool".
EveryDeathIsCounted ==
    [][\A i \in instances \ instances' :
          ( /\ i.supervised
            /\ i.id \notin alive
            /\ i.id \notin IdsOf(instances')
            /\ i.pool \in DOMAIN pools'
            /\ ~shuttingDown )
            => \E f \in failures'[i.pool] : f.id = i.id]_supVars
=============================================================================
