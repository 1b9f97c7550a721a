---------------------------- MODULE ForsettiModules ----------------------------
(***************************************************************************)
(* The Forsetti modules of the server in motion: the entitlements file and *)
(* its watcher (FileBackedEntitlementProvider), the guided actions that    *)
(* install, refresh and disable modules (manageForsettiModule), what a     *)
(* module registers when it starts and takes back when it stops, and the   *)
(* dashboard surface that is composed from it.                             *)
(*                                                                         *)
(* A thread is a request of the admin API, the watcher, or the main thread *)
(* while it starts and stops the server.  It runs a list of steps; a step  *)
(* is one file access, one critical section of the provider, or one call   *)
(* of the vendored ModuleManager, which holds its mutex for the whole      *)
(* call.  Reads that C++ makes without that mutex are taken as atomic.     *)
(***************************************************************************)
EXTENDS ForsettiTables, Sequences, SequencesExt

CONSTANTS
    Modules,          \* the modules of the instance
    ModuleCaller,     \* requests of the admin API that manage modules
    ForsettiFaults,   \* of {"write", "dns", "http"}: what may fail
    MaxChanges,       \* bound on the guided actions and the edits of the file together
    MaxEdits,         \* bound on edits of the entitlements file by an operator
    MaxRuns           \* bound on the runs of the server

ASSUME ForsettiAssumption ==
    /\ Modules \subseteq ModuleIds /\ IsFiniteSet(Modules)
    /\ ModuleCaller \cap {"main", "watcher"} = {}
    /\ {MaxChanges, MaxEdits, MaxRuns} \subseteq Nat
    /\ ForsettiFaults \subseteq {"write", "dns", "http"}

VARIABLES
    entitlements,     \* entitlements.json: the unlocked modules and products
    changed,          \* the file has a write time the watcher has not seen
    unlockedIds,      \* unlockedModuleIDs_ and unlockedProductIDs_
    callbacks,        \* callbacks_: 1 is the reconciliation, 2 also the defaults
    active,           \* loadedModules_
    activationState,  \* activation-state.json
    requested,        \* modules with requests in ModuleControlSurfaceService
    gateways,         \* gatewaysByModuleId_, with the status of each
    servers,          \* governanceByModuleId_
    tools,            \* modules with tools in PlatformGovernanceToolService
    dns,              \* (external) instances that the DNS service advertises
    surface,          \* (external) the state of UISurfaceManager
    todo,             \* the steps a thread has left
    doc,              \* the document a thread has read
    phase,            \* "off", "starting", "booted", "up", "stopping"
    told,             \* the last answer to a caller
    runs, actions, edits

forsettiVars ==
    << entitlements, changed, unlockedIds, callbacks, active, activationState, requested,
       gateways, servers, tools, dns, surface, todo, doc, phase, told, runs, actions, edits >>
fileVars == << entitlements, changed >>
registryVars == << requested, gateways, servers, tools, dns, surface >>
moduleVars == << active, activationState, registryVars >>
countVars == << runs, actions, edits >>

ForsettiThread == ModuleCaller \cup {"main", "watcher"}
Product == {manifest.module : manifest \in {x \in Manifests : x.product}} \cap Modules
Document == [modules : SUBSET Modules, products : SUBSET Product]
Nothing == [modules |-> {}, products |-> {}]
defaultState == [modules |-> Modules \cap unlockedByDefault, products |-> Product]

Do(step, m) == << [do |-> step, module |-> m] >>
Each(step, ms) ==
    LET sorted == SetToSeq(ms) IN [i \in 1..Len(sorted) |-> [do |-> step, module |-> sorted[i]]]
UI(ms) == {manifest.module : manifest \in {x \in Manifests : x.ui}} \cap ms
Refresh == Do("refresh", "") \o Do("apply", "")

Off == "off"
Unanswered == [action |-> "none", module |-> "", ok |-> TRUE]

ForsettiInit ==
    /\ entitlements = defaultState /\ changed = FALSE /\ unlockedIds = Nothing /\ callbacks = 0
    /\ active = {} /\ activationState = {}
    /\ requested = {} /\ gateways = << >> /\ servers = {} /\ tools = {} /\ dns = {}
    /\ surface = NoSurface
    /\ todo = [t \in ForsettiThread |-> << >>] /\ doc = [t \in ForsettiThread |-> Nothing]
    /\ phase = Off /\ told = [c \in ModuleCaller |-> Unanswered]
    /\ runs = 0 /\ actions = 0 /\ edits = 0

-----------------------------------------------------------------------------
(* Starting and stopping one module, under the mutex of ModuleManager.     *)

isUnlocked(m) == m \in unlockedIds.modules \/ m \in unlockedIds.products

RequestsOf(ms) == {r \in Surfaces : r.module \in ms}

\* publishDashboardSurface, at the subscription of the dashboard module or at
\* its start.
publishAtStartOnly(ms, asked) ==
    surface' = IF "dashboard-ui" \notin ms THEN NoSurface
               ELSE IF "dashboard-ui" \in active THEN surface
               ELSE composeDashboardSurface(RequestsOf(asked))
publishDashboardSurface(ms, asked) ==
    surface' = IF "dashboard-ui" \in ms THEN composeDashboardSurface(RequestsOf(asked)) ELSE NoSurface

registerGateway(m) ==
    \E outcome \in {"advertised"} \cup (IF "dns" \in ForsettiFaults THEN {"registration_failed"} ELSE {}) :
        /\ gateways' = [g \in DOMAIN gateways \cup {m} |-> IF g = m THEN outcome ELSE gateways[g]]
        /\ dns' = IF outcome = "advertised" THEN dns \cup {m} ELSE dns \ {m}

removeGateway(m) ==
    /\ gateways' = [g \in DOMAIN gateways \ {m} |-> gateways[g]]
    /\ dns' = dns \ {m}

StartModule(m) ==
    /\ requested' = requested \cup ({m} \cap {r.module : r \in Surfaces})
    /\ IF m \in Gateways THEN registerGateway(m) ELSE UNCHANGED << gateways, dns >>
    /\ servers' = servers \cup ({m} \cap Servers)
    /\ tools' = tools \cup ({m} \cap Servers)
    /\ active' = active \cup {m} /\ activationState' = active'
    /\ publishDashboardSurface(active', requested')

StopModuleKeepsTools(m) ==
    /\ requested' = requested \ {m}
    /\ IF m \in Gateways THEN removeGateway(m) ELSE UNCHANGED << gateways, dns >>
    /\ servers' = servers \ {m} /\ UNCHANGED tools
    /\ active' = active \ {m} /\ activationState' = active'
    /\ publishDashboardSurface(active', requested')
StopModule(m) ==
    /\ requested' = requested \ {m}
    /\ IF m \in Gateways THEN removeGateway(m) ELSE UNCHANGED << gateways, dns >>
    /\ servers' = servers \ {m}
    /\ tools' = tools \ {m}
    /\ active' = active \ {m} /\ activationState' = active'
    /\ publishDashboardSurface(active', requested')

\* ModuleManager.activateModule and deactivateModule throw instead.
MayStart(m) == isUnlocked(m) /\ m \notin active
MayStop(m) == m \in active

-----------------------------------------------------------------------------
(* The steps of a thread.                                                  *)

Busy(t) == todo[t] # << >>
Step(t) == todo[t][1].do
Module(t) == todo[t][1].module
Rest(t) == Tail(todo[t])
Continue(t, steps) == todo' = [todo EXCEPT ![t] = steps \o Rest(t)]

\* setModuleUnlocked: what it has read, with the module in or out.
Unlocked(t, m, yes) ==
    [doc[t] EXCEPT !.modules = IF yes THEN @ \cup {m} ELSE @ \ {m}]

ReadDocument(t) ==
    /\ Step(t) \in {"read", "refresh"}
    /\ doc' = [doc EXCEPT ![t] = entitlements] /\ Continue(t, << >>)
    /\ UNCHANGED << fileVars, unlockedIds, callbacks, moduleVars, phase, told, countVars >>

WriteDocument(t) ==
    /\ Step(t) \in {"unlock", "lock"}
    /\ \/ /\ entitlements' = Unlocked(t, Module(t), Step(t) = "unlock")
          /\ changed' = TRUE
       \/ "write" \in ForsettiFaults /\ UNCHANGED fileVars
    /\ Continue(t, << >>) /\ doc' = [doc EXCEPT ![t] = Nothing]
    /\ UNCHANGED << unlockedIds, callbacks, moduleVars, phase, told, countVars >>

\* refreshEntitlements, its critical section: the callbacks run after it, and only
\* when the sets have changed.
Apply(t) ==
    /\ Step(t) = "apply"
    /\ unlockedIds' = doc[t] /\ doc' = [doc EXCEPT ![t] = Nothing]
    /\ Continue(t, IF doc[t] = unlockedIds \/ callbacks = 0 THEN << >>
                ELSE Do("reconcile", "") \o (IF callbacks = 2 THEN Do("callback", "") ELSE << >>))
    /\ UNCHANGED << fileVars, callbacks, moduleVars, phase, told, countVars >>

\* (external) ForsettiRuntime::reconcileActiveModulesWithEntitlements.
Reconcile(t) ==
    /\ Step(t) = "reconcile"
    /\ Continue(t, Each("tryStop", {m \in active : ~ isUnlocked(m)}))
    /\ UNCHANGED << fileVars, unlockedIds, callbacks, moduleVars, doc, phase, told, countVars >>

\* activateDefaultModules, when the runtime is booted.
Defaults(t) ==
    /\ Step(t) \in {"callback", "defaults"}
    /\ Continue(t, IF Step(t) = "callback" /\ phase \notin {"booted", "up"} THEN << >>
                ELSE Each("tryStart", (defaultModuleIds \cap Modules) \ active))
    /\ UNCHANGED << fileVars, unlockedIds, callbacks, moduleVars, doc, phase, told, countVars >>

\* The caller of a step that may throw catches it and goes on with the next.
TryModule(t) ==
    /\ Step(t) \in {"tryStart", "tryStop"}
    /\ CASE Step(t) = "tryStart" /\ MayStart(Module(t)) -> StartModule(Module(t))
         [] Step(t) = "tryStop" /\ MayStop(Module(t)) -> StopModule(Module(t))
         [] OTHER -> UNCHANGED moduleVars
    /\ Continue(t, << >>)
    /\ UNCHANGED << fileVars, unlockedIds, callbacks, doc, phase, told, countVars >>

\* isModuleActive, and what the guided action does with the answer.
Ask(t) ==
    /\ Step(t) \in {"startUnlessActive", "stopIfActive"}
    /\ LET m == Module(t) IN
       Continue(t, CASE Step(t) = "startUnlessActive" /\ m \notin active -> Do("start", m)
                  [] Step(t) = "stopIfActive" /\ m \in active -> Do("stop", m)
                  [] OTHER -> << >>)
    /\ UNCHANGED << fileVars, unlockedIds, callbacks, moduleVars, doc, phase, told, countVars >>

\* activateModule or deactivateModule in a guided action: an exception ends the
\* action and is its answer.
ModuleStep(t) ==
    /\ Step(t) \in {"start", "stop"}
    /\ LET may == IF Step(t) = "start" THEN MayStart(Module(t)) ELSE MayStop(Module(t)) IN
       IF may
       THEN /\ IF Step(t) = "start" THEN StartModule(Module(t)) ELSE StopModule(Module(t))
            /\ Continue(t, << >>) /\ UNCHANGED told
       ELSE /\ todo' = [todo EXCEPT ![t] = << >>]
            /\ told' = [told EXCEPT ![t].ok = FALSE]
            /\ UNCHANGED moduleVars
    /\ UNCHANGED << fileVars, unlockedIds, callbacks, doc, phase, countVars >>

-----------------------------------------------------------------------------
(* The guided actions.                                                     *)

SetModuleUnlocked(m, yes) ==
    Do("read", m) \o Do(IF yes THEN "unlock" ELSE "lock", m) \o Refresh

manageSteps(m, action) ==
    CASE action = "enable" -> SetModuleUnlocked(m, TRUE) \o Do("startUnlessActive", m)
      [] action = "update" -> SetModuleUnlocked(m, TRUE) \o Do("stopIfActive", m) \o Do("start", m)
      [] action = "disable" -> Do("stopIfActive", m) \o SetModuleUnlocked(m, FALSE)

RefusedRemove(m, action) == action = "remove" /\ m \in protectedForsettiModuleIds
Refused(m, action) == action = "disable" /\ m \in protectedForsettiModuleIds

manageForsettiModule(c) ==
    /\ phase = "up" /\ todo[c] = << >> /\ actions + edits < MaxChanges
    /\ \E m \in Modules, action \in {"enable", "update", "disable"} :
        /\ told' = [told EXCEPT ![c] = [action |-> action, module |-> m, ok |-> ~ Refused(m, action)]]
        /\ todo' = [todo EXCEPT ![c] = IF Refused(m, action) THEN << >> ELSE manageSteps(m, action)]
    /\ actions' = actions + 1
    /\ UNCHANGED << fileVars, unlockedIds, callbacks, moduleVars, doc, phase, runs, edits >>

\* forsettiModuleCatalog: the action the catalog recommends for a module.
recommendedAction(m) ==
    IF m \notin unlockedIds.modules THEN "install" ELSE IF m \in active THEN "update" ELSE "enable"

\* (external) An operator edits the file: a module, or a product, more or less.
EditFile ==
    /\ edits < MaxEdits /\ actions + edits < MaxChanges
    /\ \E m \in Modules, part \in {"modules", "products"} :
        /\ part = "products" => m \in Product
        /\ entitlements' = [entitlements EXCEPT ![part] = IF m \in @ THEN @ \ {m} ELSE @ \cup {m}]
    /\ changed' = TRUE /\ edits' = edits + 1
    /\ UNCHANGED << unlockedIds, callbacks, moduleVars, todo, doc, phase, told, runs, actions >>

\* watchForChanges.
Watch ==
    /\ phase # Off /\ todo["watcher"] = << >> /\ changed
    /\ changed' = FALSE /\ todo' = [todo EXCEPT !["watcher"] = Refresh]
    /\ UNCHANGED << entitlements, unlockedIds, callbacks, moduleVars, doc, phase, told, countVars >>

-----------------------------------------------------------------------------
(* The runs of the server.                                                 *)

\* createForsettiRuntime and ForsettiRuntime::boot, up to the restored modules.
Boot ==
    /\ phase = Off /\ runs < MaxRuns
    /\ phase' = "starting" /\ runs' = runs + 1 /\ changed' = FALSE
    /\ unlockedIds' = entitlements /\ callbacks' = 0
    /\ todo' = [todo EXCEPT !["main"] =
                    Refresh \o Do("subscribe", "") \o Each("tryStart", activationState \ UI(activationState))
                    \o Each("tryStart", UI(activationState)) \o Do("booted", "")
                    \o Do("subscribe", "") \o Do("defaults", "") \o Do("http", "")]
    /\ UNCHANGED << entitlements, moduleVars, doc, told, actions, edits >>

Subscribe ==
    /\ Busy("main") /\ Step("main") \in {"subscribe", "booted"}
    /\ IF Step("main") = "booted" THEN phase' = "booted" /\ UNCHANGED callbacks
       ELSE callbacks' = callbacks + 1 /\ UNCHANGED phase
    /\ Continue("main", << >>)
    /\ UNCHANGED << fileVars, unlockedIds, moduleVars, doc, told, countVars >>

\* ForsettiRuntime::shutdown: not booted any more, then every module that is
\* enabled now.
StopAll == Each("tryStop", active \ UI(active)) \o Each("tryStop", UI(active)) \o Do("end", "")

\* The HTTP server starts, or it does not and the runtime is shut down.
StartHttp ==
    /\ Busy("main") /\ Step("main") = "http"
    /\ \/ phase' = "up" /\ Continue("main", << >>)
       \/ "http" \in ForsettiFaults /\ phase' = "stopping" /\ Continue("main", StopAll)
    /\ UNCHANGED << fileVars, unlockedIds, callbacks, moduleVars, doc, told, countVars >>

\* shutdown: the HTTP server has let its requests end.
Shutdown ==
    /\ phase = "up" /\ \A c \in ModuleCaller : todo[c] = << >>
    /\ phase' = "stopping" /\ todo' = [todo EXCEPT !["main"] = StopAll]
    /\ UNCHANGED << fileVars, unlockedIds, callbacks, moduleVars, doc, told, countVars >>

\* The process ends: after its shutdown, or at any time.
Gone ==
    /\ phase' = Off /\ unlockedIds' = Nothing /\ callbacks' = 0
    /\ active' = {} /\ requested' = {} /\ gateways' = << >> /\ servers' = {} /\ tools' = {}
    /\ dns' = {} /\ surface' = NoSurface
    /\ todo' = [t \in ForsettiThread |-> << >>] /\ doc' = [t \in ForsettiThread |-> Nothing]
    /\ told' = [c \in ModuleCaller |-> Unanswered]
    /\ UNCHANGED << fileVars, activationState, countVars >>

End == Busy("main") /\ Step("main") = "end" /\ Gone
Crash == phase # Off /\ runs < MaxRuns /\ Gone

Work(t) ==
    /\ Busy(t)
    /\ \/ ReadDocument(t) \/ WriteDocument(t) \/ Apply(t) \/ Reconcile(t) \/ Defaults(t)
       \/ TryModule(t) \/ Ask(t) \/ ModuleStep(t)

ForsettiNext ==
    \/ \E t \in ForsettiThread : Work(t)
    \/ \E c \in ModuleCaller : manageForsettiModule(c)
    \/ EditFile \/ Watch \/ Boot \/ Subscribe \/ StartHttp \/ Shutdown \/ End \/ Crash

ForsettiSpec == ForsettiInit /\ [][ForsettiNext]_forsettiVars

-----------------------------------------------------------------------------
(* Properties.                                                             *)

\* The variables stay in their types: in particular a thread only ever has
\* steps left that its kind of action can put there.
ForsettiTypeOK ==
    /\ entitlements \in Document /\ unlockedIds \in Document
    /\ {active, activationState, requested, servers, tools, dns} \subseteq SUBSET Modules
    /\ callbacks \in 0..2 /\ changed \in BOOLEAN
    /\ DOMAIN gateways \subseteq Gateways
    /\ \A t \in ForsettiThread : \A i \in DOMAIN todo[t] : todo[t][i].module \in Modules \cup {""}
    /\ phase \in {Off, "starting", "booted", "up", "stopping"}

\* What is registered is what the active modules register, whatever the order in
\* which requests, the watcher and the two callbacks start and stop them
\* (MasterControlModules.cpp, start and stop of each module): surface requests,
\* gateways and governance servers; the instances advertised on the LAN are those
\* of registered gateways; and every server has exactly the tools it lists.
RegistrationsFollowModules ==
    /\ requested = active \cap {r.module : r \in Surfaces}
    /\ DOMAIN gateways = active \cap Gateways
    /\ dns = {g \in DOMAIN gateways : gateways[g] = "advertised"}
    /\ servers = active \cap Servers
    /\ \A s \in Servers :
        {d[2] : d \in {x \in ToolDescriptors : x[1] = s /\ s \in tools}} =
            IF s \in servers THEN ServerTools[s] ELSE {}

\* While the dashboard module runs, the surface is the one that composes the
\* requests of the active modules and nothing of a module that has been stopped
\* (publishDashboardSurface and its subscription).
SurfaceFollowsModules ==
    surface = IF "dashboard-ui" \in active THEN composeDashboardSurface(RequestsOf(active))
              ELSE NoSurface

\* As long as nobody edits the entitlements file, the protected modules of a server
\* that is up are active, but in the middle of their own refresh: no interleaving of
\* guided actions, of their lost updates of the file, and of the watcher's stale
\* reads can lock one (isProtectedForsettiModule, "Core orchestration modules cannot
\* be disabled from the guided module wizard.").
Refreshing(m) ==
    \E t \in ModuleCaller : \E i \in DOMAIN todo[t] :
        todo[t][i].module = m /\ todo[t][i].do \in {"stop", "start", "startUnlessActive"}
ProtectedModulesRun ==
    phase = "up" /\ edits = 0 =>
        \A m \in protectedForsettiModuleIds \cap Modules : m \in active \/ Refreshing(m)

\* A module that was disabled, so the answer, is not active when the answer comes.
\* It does not hold: a module whose product is unlocked is started again by
\* activateDefaultModules, the callback of the very change that disabled it.
DisabledIsInactive ==
    [][\A c \in ModuleCaller :
        (Busy(c) /\ todo'[c] = << >> /\ told'[c].ok /\ told'[c].action = "disable" /\ phase = "up" /\ phase' = "up")
            => told'[c].module \notin active']_forsettiVars

\* Once the threads are at rest, what is in force is what the file says.  It does not
\* hold: of two refreshes the one that read first may be the one that is applied last,
\* and the watcher has seen the file by then.
FileIsInForce ==
    phase = "up" /\ ~ changed /\ (\A t \in ForsettiThread : ~ Busy(t)) => unlockedIds = entitlements

\* A module that is active is not recommended for installation.  It does not hold for
\* the modules that a product unlocks (forsettiModuleCatalog looks at the module id).
ActiveIsNotInstalled == phase = "up" => \A m \in active : recommendedAction(m) # "install"
=============================================================================
