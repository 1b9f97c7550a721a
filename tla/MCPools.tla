-------------------------------- MODULE MCPools --------------------------------
(***************************************************************************)
(* The pools of the server, for TLC: the leases on their workers, over the *)
(* whole supervisor, and the configuration document that keeps the list of *)
(* pools with everything else.  The document names the pools and knows     *)
(* nothing of their workers: a behaviour runs the router or the document   *)
(* and leaves the other where it starts; part names the one that runs.     *)
(***************************************************************************)
EXTENDS MCLeaseRouter, ConfigurationStore, TLC

\* The threads of the document are interchangeable: no action and no property
\* tells two of them apart.
ThreadSymmetry == Permutations(Thread)

VARIABLE part

poolVars == << part, routerVars, cfgVars >>

\* A step of one of them leaves the other alone.
RouterStep(A) == part = "router" /\ A /\ UNCHANGED << part, cfgVars >>
ConfigurationStep(A) == part = "configuration" /\ A /\ UNCHANGED << part, routerVars >>

PoolsInit == part \in {"router", "configuration"} /\ RouterInit /\ CfgInit

PoolsNext ==
    \/ RouterStep(RouterNext)
    \/ ConfigurationStep(CfgNext)

PoolsSpec == PoolsInit /\ [][PoolsNext]_poolVars

-----------------------------------------------------------------------------
(* Properties *)

\* The router and the document are well typed, and the leases, their activity
\* and the sticky sessions agree.
PoolTypes ==
    /\ part = "router" => RouterTypeOK /\ StickyMapAgrees
    /\ part = "configuration" => CfgTypeOK

\* A lease is bound to an instance that is Ready, and no instance gets more
\* leases than its cap.
LeasesAreSound == LoadStaysWithinCap /\ LeaseBoundToReady
================================================================================
