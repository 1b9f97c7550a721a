----------------------------- MODULE AdminRoutes -----------------------------
(***************************************************************************)
(* handleHttpRequest (MasterControlRuntime.cpp): the workers of the HTTP   *)
(* server take requests through identity, capability, governance and the   *)
(* steps of their handler, and leave an event in the activity ring.        *)
(*                                                                         *)
(* Kept of the state that handlers change: whether the pool x is           *)
(* registered with the supervisor, and whether the gateway still offers    *)
(* the tools of an older set of pools.  Of every other service a handler   *)
(* calls only the outcome is seen; those services have modules of their    *)
(* own.                                                                    *)
(***************************************************************************)
EXTENDS AdminRouteTables, FiniteSets

CONSTANTS
    AdminWorker,    \* workers of the HTTP server
    Caller,         \* who sends requests, see AllCallers
    Contended,      \* routes whose requests may be served at the same time
    Governed        \* the outcomes of CLU: "allow", "stage", "block"

\* A loopback operator; clients with all capabilities and with none; a remote
\* request that names no client, one that is not known, one that is disabled.
AllCallers == {"operator", "granted", "lacking", "anonymous", "unknown", "disabled"}

ASSUME AdminAssumption ==
    /\ Caller \subseteq AllCallers
    /\ Contended \subseteq Method \X Paths
    /\ Governed \subseteq {"allow", "stage", "block"}

VARIABLES
    call,           \* what each worker serves
    poolRegistered, \* WorkerSupervisor has the pool x
    owing,          \* the requests that changed pools since the last InvalidateToolCatalog
    staged          \* deferred actions in the approval queue, up to one per worker

adminVars == << call, poolRegistered, owing, staged >>

Codes == {200, 202, 400, 401, 403, 404, 405, 409, 500, 503}
NoRequest == [pc |-> "idle", method |-> "GET", path |-> << >>, caller |-> "operator", steps |-> Read, at |-> 0,
           changed |-> FALSE, code |-> 0, ok |-> FALSE, told |-> 0]

RouteOf(c) == << c.method, c.path >>
IsDispatched(c) == RouteOf(c) \in RoutesIn(AllRoutes)
IsEarly(c) == RouteOf(c) \in RoutesIn(EarlyRoutes)
Program(c) == IF IsDispatched(c) THEN Dispatched[RouteOf(c)] ELSE Read
Running(w, pc) == call[w].pc = pc
AtStep(w, does) ==
    /\ Running(w, "run") /\ call[w].at <= Len(call[w].steps)
    /\ call[w].steps[call[w].at].does = does
Now(w) == call[w].steps[call[w].at]
OthersUnchanged == UNCHANGED << poolRegistered, owing, staged >>

\* Every path that has a route, and one that has none.
Requests == Method \X (Paths \cup {<< "x" >>})

\* emitAdminActivity: the polled routes leave no event.
skipActivity(c) == c.method = "GET" /\ c.path \in {<< "dashboard" >>, << "config" >>, << "health" >>}
Told(c) == IF skipActivity(c) THEN c.told ELSE c.told + 1

\* (mutant) Only a success is recorded.
AnswerTellsSuccess(w, code, ok) ==
    call' = [call EXCEPT ![w].pc = "answered", ![w].code = code, ![w].ok = ok,
                         ![w].told = IF IsEarly(call[w]) \/ ~ok THEN @ ELSE Told(call[w])]

\* The answer of the main handler; the early routes answer without the event.
AnswerRequest(w, code, ok) ==
    call' = [call EXCEPT ![w].pc = "answered", ![w].code = code, ![w].ok = ok,
                         ![w].told = IF IsEarly(call[w]) THEN @ ELSE Told(call[w])]

Advance(w, changed) == call' = [call EXCEPT ![w].at = @ + 1, ![w].changed = @ \/ changed]

-----------------------------------------------------------------------------
(* Before the handler *)

\* Any request, when the others are idle; one that contends, beside those.
Startable(w) ==
    IF \A v \in AdminWorker \ {w} : Running(v, "idle") THEN Requests
    ELSE IF \A v \in AdminWorker \ {w} : Running(v, "idle") \/ RouteOf(call[v]) \in Contended
    THEN Contended
    ELSE {}

Begin(w, method, path, caller) ==
    /\ call' = [call EXCEPT ![w] = [NoRequest EXCEPT !.pc = "authorize", !.method = method,
                                                  !.path = path, !.caller = caller]]
    /\ OthersUnchanged

\* The capabilities a caller has: a setup capability is any identified client's.
Has(caller, capability) ==
    \/ capability = "none" \/ caller \in {"operator", "granted"}
    \/ caller = "lacking" /\ capability = "setup.local_or_admin"

\* authorizeMutatingRequest: the answer of its denial, 0 when there is none.
Denial(c) ==
    CASE ~isMutatingMethod(c.method) -> 0
      [] c.caller \in {"unknown", "disabled"} -> 403
      [] c.caller = "anonymous" -> 401
      [] ~Has(c.caller, requiredCapabilitiesForRoute(c.method, c.path)) -> 403
      [] OTHER -> 0

\* A denial leaves the event whichever route it is.
Authorize(w) ==
    /\ Running(w, "authorize")
    /\ IF Denial(call[w]) # 0
       THEN call' = [call EXCEPT ![w].pc = "answered", ![w].code = Denial(call[w]),
                                 ![w].told = Told(call[w])]
       ELSE call' = [call EXCEPT ![w].pc = "run", ![w].steps = Program(call[w]), ![w].at = 1]
    /\ OthersUnchanged

-----------------------------------------------------------------------------
(* The steps of a handler *)

\* A test of the request, or of what a service says of it, that may end it.
TestRequest(w) ==
    /\ AtStep(w, "may")
    /\ \/ Advance(w, FALSE)
       \/ \E code \in Now(w).codes : AnswerRequest(w, code, FALSE)
    /\ OthersUnchanged

EndRequest(w) ==
    /\ AtStep(w, "ends")
    /\ \E code \in Now(w).codes : AnswerRequest(w, code, FALSE)
    /\ OthersUnchanged

\* requirePrivilege
RequirePrivilege(w) ==
    /\ AtStep(w, "needs")
    /\ IF call[w].caller \in {"operator", "granted"} THEN Advance(w, FALSE) ELSE AnswerRequest(w, 403, FALSE)
    /\ OthersUnchanged

\* enforceGovernance: 403 for Block, 202 with the action in the approval queue.
EnforceGovernance(w) ==
    /\ AtStep(w, "govern")
    /\ \/ "allow" \in Governed /\ Advance(w, FALSE) /\ UNCHANGED staged
       \/ "block" \in Governed /\ AnswerRequest(w, 403, FALSE) /\ UNCHANGED staged
       \/ "stage" \in Governed /\ AnswerRequest(w, 202, TRUE) /\ staged' = staged \cup {w}
    /\ UNCHANGED << poolRegistered, owing >>

\* What an operation does to the pools.  removePool fails on an unknown pool.
Effect(w, op) ==
    CASE op = "register" -> poolRegistered' = TRUE /\ owing' = owing \cup {RouteOf(call[w])}
      [] op = "unregister" -> /\ poolRegistered /\ poolRegistered' = FALSE
                              /\ owing' = owing \cup {RouteOf(call[w])}
      [] OTHER -> UNCHANGED << poolRegistered, owing >>

CallService(w) ==
    /\ AtStep(w, "change")
    /\ \/ Effect(w, Now(w).op) /\ Advance(w, TRUE)
       \/ \E code \in Now(w).codes : AnswerRequest(w, code, FALSE) /\ UNCHANGED << poolRegistered, owing >>
    /\ UNCHANGED staged

\* A call whose result is ignored.
TryService(w) ==
    /\ AtStep(w, "try")
    /\ \/ Effect(w, Now(w).op) /\ Advance(w, TRUE)
       \/ Advance(w, FALSE) /\ UNCHANGED << poolRegistered, owing >>
    /\ UNCHANGED staged

EmitEvent(w) == AtStep(w, "event") /\ Advance(w, FALSE) /\ OthersUnchanged

\* (mutant) Only the pool actions invalidate the catalog.
InvalidateOwn(w) ==
    /\ AtStep(w, "invalidate") /\ Advance(w, FALSE)
    /\ owing' = IF Len(call[w].path) > 1 THEN owing \ {RouteOf(call[w])} ELSE owing
    /\ UNCHANGED << poolRegistered, staged >>

InvalidateCatalog(w) ==
    /\ AtStep(w, "invalidate") /\ Advance(w, FALSE)
    /\ owing' = {}
    /\ UNCHANGED << poolRegistered, staged >>

\* The end of the program; a request without a route gets 405 from the
\* registry, or the file of that name.
Finish(w) ==
    /\ Running(w, "run") /\ call[w].at > Len(call[w].steps)
    /\ IF IsDispatched(call[w]) THEN AnswerRequest(w, 200, TRUE)
       ELSE IF Supported(call[w].path) # {} THEN AnswerRequest(w, 405, FALSE)
       ELSE AnswerRequest(w, 404, FALSE)
    /\ OthersUnchanged

\* The answer is sent; an operator decides what was staged.
Leave(w) ==
    /\ Running(w, "answered")
    /\ call' = [call EXCEPT ![w] = NoRequest]
    /\ staged' = staged \ {w}
    /\ UNCHANGED << poolRegistered, owing >>

-----------------------------------------------------------------------------
(* Specification *)

AdminInit ==
    /\ call = [w \in AdminWorker |-> NoRequest]
    /\ poolRegistered = FALSE /\ owing = {} /\ staged = {}

AdminNext ==
    \E w \in AdminWorker :
        \/ /\ Running(w, "idle")
           /\ \E route \in Startable(w), caller \in Caller : Begin(w, route[1], route[2], caller)
        \/ Authorize(w) \/ TestRequest(w) \/ EndRequest(w) \/ RequirePrivilege(w)
        \/ EnforceGovernance(w) \/ CallService(w) \/ TryService(w) \/ EmitEvent(w)
        \/ InvalidateCatalog(w) \/ Finish(w) \/ Leave(w)

AdminSpec == AdminInit /\ [][AdminNext]_adminVars

-----------------------------------------------------------------------------
(* Properties *)

\* The state is well typed; at most one event is the request's own.
AdminTypeOK ==
    /\ \A w \in AdminWorker :
          /\ call[w].pc \in {"idle", "authorize", "run", "answered"}
          /\ call[w].method \in Method /\ call[w].path \in Paths \cup {<< "x" >>, << >>}
          /\ Len(call[w].steps) <= 10
          /\ call[w].caller \in AllCallers /\ call[w].at \in 0 .. 10
          /\ call[w].code \in Codes \cup {0} /\ call[w].told \in 0 .. 1
    /\ poolRegistered \in BOOLEAN /\ owing \subseteq Requests /\ staged \subseteq AdminWorker

Answered(w, codes) == Running(w, "answered") /\ call[w].code \in codes

\* The routes that run what they installed before they know its result, and
\* the one that confirms a supervisor, whose 403 is the service's answer.
LateRefusals == {<< "POST", << "supervisor", "connect", "confirm" >> >>}

\* A request that is answered 401, 403, 405 or 202 has changed nothing: the
\* capability, the privilege and governance all come before the first change,
\* on every route.
GatesComeFirst ==
    \A w \in AdminWorker :
        Answered(w, {202, 401, 403, 405}) /\ RouteOf(call[w]) \notin LateRefusals
            => ~call[w].changed

\* A route that some request of the method can succeed on.
Serves(method, path) ==
    /\ << method, path >> \in DOMAIN Dispatched
    /\ \A i \in 1 .. Len(Dispatched[<< method, path >>]) :
          Dispatched[<< method, path >>][i].does = "ends" =>
              \E j \in 1 .. i : Dispatched[<< method, path >>][j].does = "govern"

\* An answer 405 names, in Allow, every method that the dispatch serves on that
\* path and none that it would answer 405 in turn (AdminRouteRegistry.h,
\* Maintenance).  The profile of governance is the one exception.
AllowNamesTheVerbs ==
    \A w \in AdminWorker :
        Answered(w, {405}) /\ call[w].path # << "governance", "profile" >>
            => /\ {m \in Method : Serves(m, call[w].path)} \subseteq Supported(call[w].path)
               /\ \A m \in Supported(call[w].path) : << m, call[w].path >> \in DOMAIN Dispatched

\* The routes that register or remove a pool and leave the gateway's catalog.
UntoldRoutes ==
    {<< "POST", << "runtime", "subagents" >> >>, << "POST", << "runtime", "subagents", "remove" >> >>,
     << "POST", << "pools", "x", "restart" >> >>}

\* When every request is answered, the gateway has been told of every change
\* of the pools, whatever the order of the requests, but for UntoldRoutes.
ToolsFollowPools ==
    (\A w \in AdminWorker : call[w].pc \in {"idle", "answered"}) => owing \subseteq UntoldRoutes

\* The early routes that change something.
UntracedRoutes ==
    {<< "POST", << "supervisor", "heartbeat" >> >>, << "POST", << "self-tests", "run" >> >>}

\* Every answer to a mutating request that changed something is on the trail:
\* by the event of the request or by one of the handler's own.
ChangesAreOnTheTrail ==
    \A w \in AdminWorker :
        Running(w, "answered") /\ call[w].changed /\ RouteOf(call[w]) \notin UntracedRoutes
            => \/ call[w].told = 1
               \/ \E i \in 1 .. Len(call[w].steps) :
                     i <= call[w].at /\ call[w].steps[i].does = "event"

-----------------------------------------------------------------------------
(* What comments say and the code does not do; see README *)

\* Registering, changing or removing an agent's pool tells the gateway as well.
EveryPoolChangeIsTold ==
    (\A w \in AdminWorker : call[w].pc \in {"idle", "answered"}) => owing = {}

\* A restart that found the pool leaves it registered.
RestartKeepsThePool ==
    \A w \in AdminWorker :
        Running(w, "answered") /\ RouteOf(call[w]) = << "POST", << "pools", "x", "restart" >> >>
            /\ call[w].changed => poolRegistered

\* Every mutating request that changed something is on the trail.
EveryChangeIsOnTheTrail ==
    \A w \in AdminWorker :
        Running(w, "answered") /\ call[w].changed
            => \/ call[w].told = 1
               \/ \E i \in 1 .. Len(call[w].steps) :
                     i <= call[w].at /\ call[w].steps[i].does = "event"
===============================================================================
