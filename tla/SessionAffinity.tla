--------------------------- MODULE SessionAffinity ---------------------------
(***************************************************************************)
(* What the lease router promises its sessions, without leases, pools or   *)
(* locks: a session keeps the worker it was bound to for as long as that   *)
(* worker serves and the session has not lapsed (idle timeout); when it is *)
(* bound again it is to a worker in service; and a worker that left        *)
(* service never comes back under the same id.                             *)
(***************************************************************************)
EXTENDS Naturals

CONSTANTS
    Key             \* sessions, one key per (pool, session)

VARIABLES
    bound,          \* the worker each session is bound to, 0 when none
    lapsed,         \* sessions idle for longer than the router waits
    serving,        \* workers in service
    hired           \* the last worker id ever used

affinityVars == << bound, lapsed, serving, hired >>

AffinityInit ==
    /\ bound = [k \in Key |-> 0]
    /\ lapsed = {}
    /\ serving = {}
    /\ hired = 0

\* Workers leave service at any time; those that enter it are new.
Workforce ==
    /\ hired' >= hired
    /\ \A n \in serving' \ serving : n > hired /\ n <= hired'

\* A session may be given a worker when it has none, when its worker is out
\* of service, or when it has lapsed.
MayRebind(k) ==
    \/ bound[k] = 0
    \/ bound[k] \notin serving'
    \/ k \in lapsed

\* Any number of sessions are dropped (released, lapsed) and any number that
\* may be rebound get a worker in service.
Bindings ==
    \A k \in Key :
        \/ bound'[k] = bound[k]
        \/ bound'[k] = 0
        \/ MayRebind(k) /\ bound'[k] \in serving'

AffinityNext ==
    /\ Workforce
    /\ bound' \in [Key -> Nat]
    /\ lapsed' \subseteq Key
    /\ Bindings

AffinitySpec == AffinityInit /\ [][AffinityNext]_affinityVars
=============================================================================
