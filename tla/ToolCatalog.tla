----------------------------- MODULE ToolCatalog -----------------------------
(***************************************************************************)
(* The tool catalog of NativeHttpSysGatewayAdapter (McpGatewayAdapters.cpp *)
(* and McpToolNameResolver.h): a cache with a time to live over what the   *)
(* workers of the pools advertise.  tools/list serves it, tools/call       *)
(* resolves names in it, and the administration routes invalidate it after *)
(* they changed a pool.                                                    *)
(*                                                                         *)
(* currentToolCatalog has three phases: a test under mutex_, one tools/list *)
(* request per pool with no lock held, and the publication under mutex_.   *)
(* Pools change meanwhile, by an administrator or by themselves (a worker  *)
(* exits, is respawned, or registers its tools late).                      *)
(*                                                                         *)
(* Time is discrete and relative: validFor is the time left until          *)
(* toolCatalogCacheValidUntil_, and the history variables on and off count *)
(* the ticks since a tool was last, or last was not, on offer.  The        *)
(* application attaches the supervisor before it starts the gateway, so    *)
(* the branch without one is left out.                                     *)
(***************************************************************************)
EXTENDS Naturals, FiniteSets

CONSTANTS
    Client,         \* threads that execute tools/list and tools/call
    CatalogPool, CatalogTool,
    AnyPool,        \* the pool of an unqualified tool name
    Ttl,            \* kToolCatalogCacheTtlSeconds, in ticks
    RpcTime,        \* the time-out of one tools/list request, in ticks
    Horizon         \* bound: the history variables count no further

ASSUME CatalogAssumption ==
    /\ AnyPool \notin CatalogPool
    /\ IsFiniteSet(CatalogPool)
    /\ Ttl \in Nat /\ RpcTime \in Nat
    /\ Horizon \in Nat /\ Horizon > Ttl + RpcTime * Cardinality(CatalogPool)

VARIABLES
    offers,         \* the tools a Ready worker advertises now
    admin,          \* an administrator is between a change and its invalidation
    cache,          \* toolCatalogCache_
    validFor,       \* toolCatalogCacheValidUntil_
    inFlight,       \* toolCatalogRefreshInFlight_
    client,         \* each thread: its place, collection and last answer
    on, off         \* history: see above

catVars == << offers, admin, cache, validFor, inFlight, client, on, off >>

Entry == CatalogPool \X CatalogTool
Name == (CatalogPool \cup {AnyPool}) \X CatalogTool
NoName == << AnyPool, AnyPool >>
CollectTime == RpcTime * Cardinality(CatalogPool)

ClientRecord ==
    [pc : {"idle", "refresh", "collect", "publish", "done"},
     want : Name \cup {NoName},         \* the tool to resolve, if any
     todo : SUBSET CatalogPool, got : SUBSET Entry, waited : 0..RpcTime,
     from : {"none", "call", "hit", "inFlight", "own"}]

IdleClient == [pc |-> "idle", want |-> NoName, todo |-> {}, got |-> {}, waited |-> 0,
         from |-> "none"]

-----------------------------------------------------------------------------
(* Helpers *)

OnOffer == {e \in Entry : e[2] \in offers[e[1]]}

\* McpToolNameResolver: the pools a name stands for in a catalog.  A qualified
\* name wins; an unqualified one must be unique.
Candidates(cat, n) ==
    IF n \in cat THEN {n[1]} ELSE {e[1] : e \in {f \in cat : f[2] = n[2] /\ n[1] = AnyPool}}

CatalogAnswer(c, from, cat) ==
    client' = [client EXCEPT ![c].pc = "done", ![c].from = from, ![c].got = cat,
                             ![c].todo = {}, ![c].waited = 0]

-----------------------------------------------------------------------------
(* The two requests *)

ListTools(c) ==
    /\ client[c].pc \in {"idle", "done"}
    /\ client' = [client EXCEPT ![c] = [IdleClient EXCEPT !.pc = "refresh"]]
    /\ UNCHANGED << offers, admin, cache, validFor, inFlight, on, off >>

\* tools/call looks the name up in the cache, however old it is, and asks for
\* a fresh catalog only if it is not there.
CallTool(c, n) ==
    /\ client[c].pc \in {"idle", "done"}
    /\ client' = [client EXCEPT ![c] =
           IF Candidates(cache, n) = {}
           THEN [IdleClient EXCEPT !.pc = "refresh", !.want = n]
           ELSE [IdleClient EXCEPT !.pc = "done", !.want = n, !.from = "call", !.got = cache]]
    /\ UNCHANGED << offers, admin, cache, validFor, inFlight, on, off >>

-----------------------------------------------------------------------------
(* currentToolCatalog *)

\* (mutant) What is served while a refresh is in flight counts as fresh.
ServeInFlightAsFresh(c) ==
    /\ client[c].pc = "refresh" /\ validFor = 0 /\ inFlight
    /\ CatalogAnswer(c, "inFlight", cache)
    /\ validFor' = Ttl
    /\ UNCHANGED << offers, admin, cache, inFlight, on, off >>

Hit(c) ==
    /\ client[c].pc = "refresh" /\ validFor > 0
    /\ CatalogAnswer(c, "hit", cache)
    /\ UNCHANGED << offers, admin, cache, validFor, inFlight, on, off >>

\* One refresh at a time: a second caller gets the cache as it is.
ServeInFlight(c) ==
    /\ client[c].pc = "refresh" /\ validFor = 0 /\ inFlight
    /\ CatalogAnswer(c, "inFlight", cache)
    /\ UNCHANGED << offers, admin, cache, validFor, inFlight, on, off >>

\* The pools without a Ready worker in the snapshot of listPools are skipped.
StartRefresh(c) ==
    /\ client[c].pc = "refresh" /\ validFor = 0 /\ ~inFlight
    /\ inFlight' = TRUE
    /\ client' = [client EXCEPT ![c].pc = "collect",
                                ![c].todo = {p \in CatalogPool : offers[p] # {}}]
    /\ UNCHANGED << offers, admin, cache, validFor, on, off >>

Collected(c, p, es) ==
    client' = [client EXCEPT ![c].todo = @ \ {p}, ![c].got = @ \cup es, ![c].waited = 0]

\* tools/list to the worker of one pool.
Ask(c, p) ==
    /\ client[c].pc = "collect" /\ p \in client[c].todo
    /\ Collected(c, p, {p} \X offers[p])
    /\ UNCHANGED << offers, admin, cache, validFor, inFlight, on, off >>

\* It times out, fails or answers garbage: the pool contributes nothing.  To
\* the catalog such a worker has nothing on offer.
AskFails(c, p) ==
    /\ client[c].pc = "collect" /\ p \in client[c].todo
    /\ Collected(c, p, {})
    /\ off' = [e \in Entry |-> IF e[1] = p THEN 0 ELSE off[e]]
    /\ UNCHANGED << offers, admin, cache, validFor, inFlight, on >>

AllAsked(c) ==
    /\ client[c].pc = "collect" /\ client[c].todo = {}
    /\ client' = [client EXCEPT ![c].pc = "publish"]
    /\ UNCHANGED << offers, admin, cache, validFor, inFlight, on, off >>

\* (mutant) An exception leaves the flag set.
CollectThrowsInFlight(c) ==
    /\ client[c].pc = "collect"
    /\ client' = [client EXCEPT ![c] = IdleClient]
    /\ UNCHANGED << offers, admin, cache, validFor, inFlight, on, off >>

\* An exception in the collection: the request fails.
CollectThrows(c) ==
    /\ client[c].pc = "collect"
    /\ inFlight' = FALSE
    /\ client' = [client EXCEPT ![c] = IdleClient]
    /\ UNCHANGED << offers, admin, cache, validFor, on, off >>

\* (mutant) The stamp is one tick too late.
LateStamp == Ttl + 1

Stamp == Ttl

Publish(c) ==
    /\ client[c].pc = "publish"
    /\ inFlight' = FALSE
    /\ cache' = client[c].got
    /\ validFor' = Stamp
    /\ CatalogAnswer(c, "own", client[c].got)
    /\ UNCHANGED << offers, admin, on, off >>

-----------------------------------------------------------------------------
(* Pools and time *)

ChangeOffer(p, ts) ==
    /\ ts # offers[p]
    /\ offers' = [offers EXCEPT ![p] = ts]
    /\ on' = [e \in Entry |-> IF e \in OnOffer \/ e \in {p} \X ts THEN 0 ELSE on[e]]
    /\ off' = [e \in Entry |-> IF e \notin OnOffer \/ e \in {p} \X (CatalogTool \ ts) THEN 0 ELSE off[e]]

\* A worker exits, is respawned, or registers other tools.
WorkerChange(p, ts) ==
    /\ ChangeOffer(p, ts)
    /\ UNCHANGED << admin, cache, validFor, inFlight, client >>

\* POST /api/pools and its remove, scale, drain and restart actions change the
\* pool first and call InvalidateToolCatalog after it.
AdminChange(p, ts) ==
    /\ ~admin /\ admin' = TRUE
    /\ ChangeOffer(p, ts)
    /\ UNCHANGED << cache, validFor, inFlight, client >>

InvalidateToolCatalog ==
    /\ admin /\ admin' = FALSE
    /\ validFor' = 0
    /\ UNCHANGED << offers, cache, inFlight, client, on, off >>

AtMostHorizon(n) == IF n < Horizon THEN n + 1 ELSE Horizon

\* A request to a worker takes at most RpcTime; the steps between two requests
\* take no time.
CatalogTick ==
    /\ \A c \in Client :
        \/ client[c].pc \in {"idle", "done"}
        \/ client[c].pc = "collect" /\ client[c].todo # {} /\ client[c].waited < RpcTime
    /\ validFor' = IF validFor = 0 THEN 0 ELSE validFor - 1
    /\ client' = [c \in Client |->
           IF client[c].pc = "collect" THEN [client[c] EXCEPT !.waited = @ + 1] ELSE client[c]]
    /\ on' = [e \in Entry |-> IF e \in OnOffer THEN 0 ELSE AtMostHorizon(on[e])]
    /\ off' = [e \in Entry |-> IF e \in OnOffer THEN AtMostHorizon(off[e]) ELSE 0]
    /\ UNCHANGED << offers, admin, cache, inFlight >>

-----------------------------------------------------------------------------

CatInit ==
    /\ offers = [p \in CatalogPool |-> {}]
    /\ admin = FALSE
    /\ cache = {} /\ validFor = 0 /\ inFlight = FALSE
    /\ client = [c \in Client |-> IdleClient]
    /\ on = [e \in Entry |-> Horizon] /\ off = [e \in Entry |-> 0]

CatNext ==
    \/ \E c \in Client :
        \/ ListTools(c) \/ \E n \in Name : CallTool(c, n)
        \/ Hit(c) \/ ServeInFlight(c) \/ StartRefresh(c)
        \/ \E p \in CatalogPool : Ask(c, p) \/ AskFails(c, p)
        \/ AllAsked(c) \/ CollectThrows(c) \/ Publish(c)
    \/ \E p \in CatalogPool, ts \in SUBSET CatalogTool : WorkerChange(p, ts) \/ AdminChange(p, ts)
    \/ InvalidateToolCatalog
    \/ CatalogTick

CatSpec == CatInit /\ [][CatNext]_catVars

-----------------------------------------------------------------------------
(* Properties *)

Refreshing(c) == client[c].pc \in {"collect", "publish"}

\* The type invariant; the flag is set exactly while one thread, and one only,
\* refreshes the catalog, also after an exception in the fan-out.
CatTypeOK ==
    /\ offers \in [CatalogPool -> SUBSET CatalogTool]
    /\ admin \in BOOLEAN
    /\ cache \in SUBSET Entry
    /\ validFor \in 0..Ttl
    /\ client \in [Client -> ClientRecord]
    /\ on \in [Entry -> 0..Horizon] /\ off \in [Entry -> 0..Horizon]
    /\ inFlight = \E c \in Client : Refreshing(c)
    /\ \A c, d \in Client : Refreshing(c) /\ Refreshing(d) => c = d

\* c is answered in this step, from where the set says.
ServedFrom(c, from) ==
    client[c].pc \in {"refresh", "publish"} /\ client'[c].pc = "done" /\ client'[c].from \in from

\* What the catalog says of each tool was true at some time in the last n ticks.
TrueWithin(cat, n) ==
    \A e \in Entry : IF e \in cat THEN on[e] <= n ELSE off[e] <= n

\* A catalog served from a valid cache, or collected by the caller, is at most
\* one time to live and one collection old, whatever changed, failed or was
\* invalidated in the meantime: currentToolCatalog.
FreshnessIsBounded ==
    [][\A c \in Client : ServedFrom(c, {"hit", "own"}) =>
            TrueWithin(client'[c].got, Ttl + CollectTime)]_catVars

\* The same of what a caller is served while another one's refresh is in
\* flight, which the code says to be well within the 30s tolerance.
StaleServeWithinTtl ==
    [][\A c \in Client : ServedFrom(c, {"inFlight"}) =>
            TrueWithin(client'[c].got, Ttl + CollectTime)]_catVars

\* tools/call reports a tool as unknown only after it looked at a refreshed
\* catalog: the tool cannot have been on offer for longer than a collection
\* takes.
UnknownOnlyAfterRefresh ==
    [][\A c \in Client :
            /\ ServedFrom(c, {"hit", "own"})
            /\ client[c].want # NoName
            /\ Candidates(client'[c].got, client[c].want) = {}
            => \A e \in Entry : e[2] = client[c].want[2] /\ client[c].want[1] \in {e[1], AnyPool}
                    => off[e] <= CollectTime]_catVars

=============================================================================
