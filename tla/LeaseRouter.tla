----------------------------- MODULE LeaseRouter -----------------------------
(***************************************************************************)
(* The LeaseRouter of MasterControlRuntime.cpp on top of the               *)
(* WorkerSupervisor: it answers a LeaseRequest with a lease on one         *)
(* instance, keeps stateful sessions on their instance, scales a full pool *)
(* out, and expires idle leases.                                           *)
(*                                                                         *)
(* Every operation runs under the router's own mutex_.  acquireLease reads *)
(* the supervisor through findPool, which reaps and copies the pool under  *)
(* the supervisor's lock; what follows looks at that copy and the router's *)
(* maps alone, so it is one action (Acquire).  Scale-out calls into the    *)
(* supervisor a second time: its unlocked shutdown test and its critical   *)
(* section are steps of their own, between which every thread of the       *)
(* supervisor may run but, the router's mutex being held, no operation of  *)
(* the router.                                                             *)
(*                                                                         *)
(* A lease id "lease-<serial>" is its serial; the time since a lease's     *)
(* entry in leaseActivity_ is its field idle.                              *)
(***************************************************************************)
EXTENDS WorkerSupervisor

CONSTANTS
    Session,        \* session ids of stateful clients
    NoSession,      \* the empty session id of a stateless request
    Router,         \* the thread that holds the router's mutex in scale-out
    IdleTimeout,    \* leaseIdleTimeout_, in ticks
    MaxLease        \* bound: last lease serial a behaviour may hand out

ASSUME RouterAssumption ==
    /\ NoSession \notin Session
    /\ Router \in Caller
    /\ IdleTimeout \in Nat
    /\ MaxLease \in Nat

VARIABLES
    leases,         \* leases_ with leaseActivity_: a set of lease records
    sticky,         \* stickySessions_: lease of each (pool, session), 0 if none
    nextLease,      \* nextLeaseSerial_
    scaleOut        \* the acquireLease, if any, that is in scale-out

routerOwnVars == << leases, sticky, nextLease, scaleOut >>
routerVars == << supVars, routerOwnVars >>

Key == Pool \X Session
Lease == [id : Nat, pool : Pool, inst : Nat, session : Session \cup {NoSession},
          state : {"Active", "Released"}, idle : 0..IdleTimeout]
Request == [pool : Pool, session : Session \cup {NoSession}]

-----------------------------------------------------------------------------
(* Helpers *)

KeyOf(l) == << l.pool, l.session >>

Active(ls) == {l \in ls : l.state = "Active"}

\* An instance takes at least one lease, whatever the policy says.
Capacity(p) == IF pools[p].cap < 1 THEN 1 ELSE pools[p].cap

Load(ls, n) == Cardinality({l \in Active(ls) : l.inst = n})

Released(l) == [l EXCEPT !.state = "Released", !.idle = 0]

\* pruneExpiredLeasesLocked: an idle Active lease is released and loses its
\* sticky entry, an idle Released one is forgotten.
ExpiredStrictly(l) == l.idle > IdleTimeout
Expired(l) == l.idle >= IdleTimeout

LeasesAfterPrune ==
    {l \in leases : ~Expired(l)} \cup
    {Released(l) : l \in {m \in Active(leases) : Expired(m)}}

StickyAfterPrune ==
    [k \in Key |->
        IF \E l \in Active(leases) : Expired(l) /\ KeyOf(l) = k
        THEN 0 ELSE sticky[k]]

Prune ==
    /\ leases' = LeasesAfterPrune
    /\ sticky' = StickyAfterPrune
    /\ UNCHANGED << nextLease, scaleOut >>

\* The active lease a session is stuck to.
StuckLease(ls, st, p, s) ==
    {l \in Active(ls) : s \in Session /\ l.id = st[<<p, s>>]}

\* selectLeastLoadedReadyLocked: instances are listed in the order they were
\* started, and the first of the least loaded ones wins.
HeadroomAtCapacity(ls, insts, p) ==
    {i \in Healthy(insts, p) : Load(ls, i.id) <= Capacity(p)}
WithHeadroom(ls, insts, p) ==
    {i \in Healthy(insts, p) : Load(ls, i.id) < Capacity(p)}

LeastLoaded(ls, insts, p) ==
    {i \in WithHeadroom(ls, insts, p) :
        \A j \in WithHeadroom(ls, insts, p) :
            \/ Load(ls, i.id) < Load(ls, j.id)
            \/ Load(ls, i.id) = Load(ls, j.id) /\ i.id <= j.id}

\* bindLeaseLocked, on top of the leases ls and the sticky map st.
Bind(ls, st, p, s, n) ==
    /\ nextLease <= MaxLease
    /\ leases' = ls \cup {[id |-> nextLease, pool |-> p, inst |-> n,
                           session |-> s, state |-> "Active", idle |-> 0]}
    /\ sticky' = IF s \in Session THEN [st EXCEPT ![<<p, s>>] = nextLease] ELSE st
    /\ nextLease' = nextLease + 1

\* The stuck lease, if its instance is live in the copy insts of the pool.
NeverChecked(stuck, insts, p) == stuck
StillLive(stuck, insts, p) ==
    {l \in stuck : l.inst \in IdsOf(Healthy(insts, p))}

\* acquireLease steps 1 and 2, against the copy insts of the pool; step 3,
\* the scale-out, starts when no Ready instance has headroom.
StickyAnswerRebalanced(l) ==
    /\ \E i \in LeastLoaded(LeasesAfterPrune \ {l}, instances', l.pool) :
          leases' = (LeasesAfterPrune \ {l}) \cup {[l EXCEPT !.inst = i.id, !.idle = 0]}
    /\ sticky' = StickyAfterPrune
    /\ UNCHANGED << nextLease, scaleOut >>
StickyAnswer(l) ==
    /\ leases' = (LeasesAfterPrune \ {l}) \cup {[l EXCEPT !.idle = 0]}
    /\ sticky' = StickyAfterPrune
    /\ UNCHANGED << nextLease, scaleOut >>

FreshAnswer(p, s, insts, ls, st) ==
    \/ /\ \E i \in LeastLoaded(ls, insts, p) : Bind(ls, st, p, s, i.id)
       /\ UNCHANGED scaleOut
    \/ /\ WithHeadroom(ls, insts, p) = {}
       /\ leases' = ls
       /\ sticky' = st
       /\ scaleOut' = {[pool |-> p, session |-> s]}
       /\ UNCHANGED nextLease

Answer(p, s, insts) ==
    LET stuck == StuckLease(LeasesAfterPrune, StickyAfterPrune, p, s)
        live == StillLive(stuck, insts, p)
        cleared == IF s \in Session
                   THEN [StickyAfterPrune EXCEPT ![<<p, s>>] = 0]
                   ELSE StickyAfterPrune
    IN  \/ \E l \in live : StickyAnswer(l)
        \/ /\ live = {}
           /\ FreshAnswer(p, s, insts,
                 (LeasesAfterPrune \ stuck) \cup {Released(l) : l \in stuck},
                 cleared)

-----------------------------------------------------------------------------
RouterInit ==
    /\ SupInit
    /\ leases = {}
    /\ sticky = [k \in Key |-> 0]
    /\ nextLease = 1
    /\ scaleOut = {}

RouterIdle == scaleOut = {}

\* acquireLease up to its answer or up to the scale-out call.
Acquire(p, s) ==
    /\ RouterIdle
    /\ ReadPools
    /\ IF p \in Registered THEN Answer(p, s, instances') ELSE Prune

\* scaleUpOnce tests shuttingDown_: the call is refused, a Failed lease ...
ScaleOutRefused(r) ==
    /\ r \in scaleOut
    /\ shuttingDown
    /\ \A k \in calls : k.caller # Router
    /\ scaleOut' = {}
    /\ UNCHANGED << supVars, leases, sticky, nextLease >>

\* ... or goes on to the supervisor's mutex.
ScaleOutBegin(r) ==
    /\ r \in scaleOut
    /\ BeginCall(Router, "scaleUp", r.pool)
    /\ UNCHANGED routerOwnVars

\* scaleUpOnce returns: the lease is bound to the new instance, whatever its
\* state, or the request fails because the pool would not grow.
ScaleOutEnd(r, k, newId) ==
    /\ r \in scaleOut
    /\ k.caller = Router
    /\ ScaleUpOnce(k, newId)
    /\ scaleOut' = {}
    /\ IF newId = 0
       THEN UNCHANGED << leases, sticky, nextLease >>
       ELSE Bind(leases, sticky, r.pool, r.session, newId)

\* releaseLease.
ReleaseKeepingSticky(l) ==
    /\ RouterIdle
    /\ l \in Active(leases)
    /\ leases' = (leases \ {l}) \cup {Released(l)}
    /\ UNCHANGED << supVars, sticky, nextLease, scaleOut >>
ReleaseLease(l) ==
    /\ RouterIdle
    /\ l \in Active(leases)
    /\ leases' = (leases \ {l}) \cup {Released(l)}
    /\ sticky' = [k \in Key |-> IF k = KeyOf(l) THEN 0 ELSE sticky[k]]
    /\ UNCHANGED << supVars, nextLease, scaleOut >>

\* activeLeases.
ActiveLeases ==
    /\ RouterIdle
    /\ Prune
    /\ UNCHANGED supVars

\* saturationFor, and the verdict it computes.
SaturationFor ==
    /\ RouterIdle
    /\ ReadPools
    /\ Prune

AtSaturation(p) ==
    LET ready == Cardinality(Healthy(instances, p)) IN
    /\ ready > 0
    /\ Cardinality({l \in Active(leases) : l.pool = p}) >= ready * Capacity(p)

\* The supervisor's other threads run on; only the thread in scale-out makes
\* and ends the router's call.
RoutersCalls == {k \in calls : k.caller = Router}

SupervisorStep ==
    /\ SupNext
    /\ RoutersCalls' = RoutersCalls
    /\ UNCHANGED routerOwnVars

\* Environment: time passes for the leases.
LeaseTick ==
    /\ leases' = {[l EXCEPT !.idle = IF Expired(l) THEN l.idle ELSE l.idle + 1] :
                     l \in leases}
    /\ UNCHANGED << supVars, sticky, nextLease, scaleOut >>

RouterNext ==
    \/ \E p \in Pool, s \in Session \cup {NoSession} : Acquire(p, s)
    \/ \E r \in scaleOut :
          \/ ScaleOutRefused(r)
          \/ ScaleOutBegin(r)
          \/ \E k \in calls, newId \in 0..MaxSerial : ScaleOutEnd(r, k, newId)
    \/ \E l \in leases : ReleaseLease(l)
    \/ ActiveLeases
    \/ SaturationFor
    \/ SupervisorStep
    \/ LeaseTick

RouterSpec == RouterInit /\ [][RouterNext]_routerVars

-----------------------------------------------------------------------------
(* Properties *)

\* Every variable of the router holds values of its C++ type.
RouterTypeOK ==
    /\ leases \subseteq Lease
    /\ sticky \in [Key -> Nat]
    /\ nextLease \in Nat \ {0}
    /\ scaleOut \subseteq Request
    /\ Cardinality(scaleOut) <= 1

\* leases_ and stickySessions_ agree however leases are bound, released,
\* expired and rebound: a session's entry names its active lease, no session
\* ever has two active leases, and ids name one lease.
StickyMapAgrees ==
    /\ \A l, m \in leases : l.id = m.id => l = m
    /\ \A l \in leases : l.id < nextLease
    /\ \A l \in Active(leases) : l.session \in Session => sticky[KeyOf(l)] = l.id
    /\ \A k \in Key : sticky[k] # 0 =>
          \E l \in Active(leases) : l.id = sticky[k] /\ KeyOf(l) = k

\* No answer of the router overloads an instance: the number of active
\* leases of an instance grows only up to maxActiveLeasesPerInstance, though
\* the pool was copied before the lease was bound and may have been scaled,
\* drained or given another policy since.
LoadStaysWithinCap ==
    [][\A l \in Active(leases') :
          l.pool \in DOMAIN pools' /\ Load(leases', l.inst) > Load(leases, l.inst)
            => Load(leases', l.inst) <= Capacity(l.pool)']_routerVars

\* Every lease handed out, new or sticky, is on an instance that was Ready
\* when the supervisor last looked (MasterControlContracts.h on ILeaseRouter:
\* a lease is "bound to one Ready instance").
Answered == {l \in Active(leases') : l.idle = 0 /\ l \notin leases}

LeaseBoundToReady ==
    [][\A l \in Answered : l.inst \in IdsOf(Healthy(instances', l.pool))]_routerVars

\* The router keeps the promise of SessionAffinity.
LeaseOf(k) == CHOOSE l \in leases : l.id = sticky[k]

Affinity == INSTANCE SessionAffinity WITH
    bound <- [k \in Key |-> IF sticky[k] = 0 THEN 0 ELSE LeaseOf(k).inst],
    lapsed <- {k \in Key : sticky[k] # 0 /\ Expired(LeaseOf(k))},
    serving <- {i.id : i \in {j \in instances : j.state = "Ready"}},
    hired <- nextSerial - 1

KeepsAffinity == Affinity!AffinitySpec

\* Worker-Pools.md: "a stateful session never gets re-bound to a different
\* instance mid-flight", and of drainPool: "existing sticky leases stay".
DrainKeepsSessions ==
    [][\A k \in Key, i \in instances \cap instances' :
          ( /\ i.state = "Draining"
            /\ sticky[k] # 0
            /\ LeaseOf(k).inst = i.id
            /\ ~Expired(LeaseOf(k)) )
            => sticky'[k] \in {0, sticky[k]}]_routerVars

\* Worker-Pools.md, routing step 4: the router fails a request "At
\* maxInstances with everyone saturated".
FailsOnlyWhenSaturated ==
    [][\A r \in scaleOut, k \in calls :
          ScaleOutEnd(r, k, 0) /\ r.pool \in Registered
            => WithHeadroom(leases', instances', r.pool) = {}]_routerVars

\* MasterControlModels.h, PoolSaturation::atSaturation: "every Ready instance
\* is at max leases".
SaturationMeansEveryReadyFull ==
    [][SaturationFor =>
          \A p \in Registered :
              AtSaturation(p)' => WithHeadroom(leases', instances', p) = {}]_routerVars
=============================================================================
