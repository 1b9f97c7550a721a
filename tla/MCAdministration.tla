--------------------------- MODULE MCAdministration ---------------------------
(***************************************************************************)
(* What surrounds the pools of workers, for TLC: the routes of the admin   *)
(* API with their gates, the catalog of tools that a change of the pools   *)
(* invalidates, and the tools of the baseline workers.  A handler only     *)
(* tells the catalog that it is out of date, and the catalog knows of a    *)
(* worker what it offers, so a behaviour runs one of the three and leaves  *)
(* the others where they start: part names the one that runs.              *)
(***************************************************************************)
EXTENDS AdminRoutes, ToolCatalog, WorkerTools, TLC

\* The mutating routes on worker pools and agents, which handlers may run at
\* the same time.
PoolRoutes ==
    {<< "POST", << "pools" >> >>}
    \cup {"POST"} \X PoolSub({"remove", "restart", "scale"})
    \cup {"POST"} \X {<< "runtime", "subagents" >>, << "runtime", "subagents", "remove" >>}

\* One worker, of each specialization in turn.
MCPools == [Worker -> Specialization]

\* Clients and pools of the catalog are interchangeable: no action and no
\* property tells two of them apart.
CatSymmetry == Permutations(Client) \cup Permutations(CatalogPool)

VARIABLE part

administrationVars == << part, adminVars, catVars, wkVars >>

\* A step of one of them leaves the others alone.
RoutesStep(A) == part = "routes" /\ A /\ UNCHANGED << part, catVars, wkVars >>
CatalogStep(A) == part = "catalog" /\ A /\ UNCHANGED << part, adminVars, wkVars >>
ToolsStep(A) == part = "worker" /\ A /\ UNCHANGED << part, adminVars, catVars >>

AdministrationInit ==
    /\ part \in {"routes", "catalog", "worker"}
    /\ AdminInit /\ CatInit /\ WkInit
    /\ part # "worker" => poolOf = CHOOSE s \in Pools : TRUE

AdministrationNext ==
    \/ RoutesStep(AdminNext)
    \/ CatalogStep(CatNext)
    \/ ToolsStep(WkNext)

AdministrationSpec == AdministrationInit /\ [][AdministrationNext]_administrationVars

-----------------------------------------------------------------------------
(* Properties *)

\* The handlers, the catalog and the workers are well typed.
AdministrationTypes ==
    /\ part = "routes" => AdminTypeOK
    /\ part = "catalog" => CatTypeOK
    /\ part = "worker" => WkTypeOK

\* A handler changes nothing before its gates let it.
RoutesAreGated == part = "routes" => GatesComeFirst

\* The Allow header of a 405 names the verbs that the routes of the path serve.
VerbsAreAllowed == part = "routes" => AllowNamesTheVerbs

\* Once a handler has answered, the gateway was told of the change of the pools
\* that it made, and its change is on the activity trail.
ChangesAreTold == part = "routes" => ToolsFollowPools /\ ChangesAreOnTheTrail

\* A worker serves every tool it lists, the file of a store is what the
\* acknowledged calls make of it, and a client that was told that a file did
\* not change knows its current version.
WorkersAnswerTruly ==
    part = "worker" => ListedToolsAreServed /\ StoresAreSerial /\ WatchersAreUpToDate
===============================================================================
