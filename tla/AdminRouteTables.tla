--------------------------- MODULE AdminRouteTables ---------------------------
(***************************************************************************)
(* The routes of the admin API: what MasterControlRuntime.cpp dispatches,  *)
(* AdminRouteRegistry.h says which methods a path supports, and            *)
(* AdminRouteAuthorization.h says which capability a route needs.          *)
(*                                                                         *)
(* A path is the tuple of its segments without the leading "api"; "x" is a *)
(* segment that names something (a pool, a client, a document).  A table   *)
(* is a set of rows, each a route with its program: the steps of the       *)
(* handler, in order, that may end the request or change something.  A     *)
(* handler that comes to the end of its program answers 200.  Telemetry    *)
(* records and the contents of the answers are left out.                   *)
(***************************************************************************)
EXTENDS Naturals, Sequences, TLC

Method == {"GET", "POST", "PATCH", "DELETE"}

\* The steps of a program.  Codes are those of the answer when the step ends
\* the request; 200 is then an answer that says succeeded: false.
May(codes) == [does |-> "may", op |-> "none", codes |-> codes]
Ends(codes) == [does |-> "ends", op |-> "none", codes |-> codes]
Needs == [does |-> "needs", op |-> "none", codes |-> {403}]
Govern == [does |-> "govern", op |-> "none", codes |-> {403}]
Change(op, codes) == [does |-> "change", op |-> op, codes |-> codes]
Try(op) == [does |-> "try", op |-> op, codes |-> {}]
Event == [does |-> "event", op |-> "none", codes |-> {}]
Invalidate == [does |-> "invalidate", op |-> "none", codes |-> {}]
Save == Try("savePools")
Read == << >>

Route(method, path, program) == {[route |-> << method, path >>, program |-> program]}
Routes(method, paths, program) == {[route |-> << method, p >>, program |-> program] : p \in paths}
Get(path) == Route("GET", path, Read)
GetMay(path, codes) == Route("GET", path, << May(codes) >>)
Post(path, program) == Route("POST", path, program)

-----------------------------------------------------------------------------
(* Routes that answer before the main handler: outside its try block and   *)
(* without the activity event that it ends with.                           *)

EventStream == Get(<< "events" >>)
AgenticManifest == GetMay(<< "governance", "agentic-edition", "manifest" >>, {503})
AgenticDocument == GetMay(<< "governance", "agentic-edition", "document", "x" >>, {400, 404})

SupervisorReads ==
    GetMay(<< "supervisor", "assignment" >>, {503}) \cup GetMay(<< "supervisor", "status" >>, {503})
    \cup GetMay(<< "supervisor", "reachability-check" >>, {503})
SupervisorSelect ==
    Post(<< "supervisor", "assignment", "select" >>,
         << May({503, 400}), Try("assignment"), Event, May({400}) >>)
SupervisorGenerate ==
    Post(<< "supervisor", "config", "generate" >>,
         << May({503, 400}), Try("assignment"), Event, May({400}) >>)
SupervisorRevoke ==
    Post(<< "supervisor", "assignment", "revoke" >>, << May({503}), Try("assignment"), Event >>)
SupervisorHeartbeat ==
    Post(<< "supervisor", "heartbeat" >>, << May({503}), Try("heartbeat") >>)
SupervisorConfirm ==
    Post(<< "supervisor", "connect", "confirm" >>,
         << May({503, 400}), Try("assignment"), Event, May({403}) >>)
SelfTests ==
    Get(<< "self-tests" >>) \cup Post(<< "self-tests", "run" >>, << Change("selfTests", {}) >>)
ActivityReads == Get(<< "activity", "health" >>) \cup Get(<< "activity" >>)

EarlyRoutes ==
    EventStream \cup AgenticManifest \cup AgenticDocument \cup SupervisorReads \cup SupervisorSelect
    \cup SupervisorGenerate \cup SupervisorRevoke \cup SupervisorHeartbeat \cup SupervisorConfirm
    \cup SelfTests \cup ActivityReads

-----------------------------------------------------------------------------
(* Health, diagnostics, plug-ins and the dashboard *)

HealthReads == Get(<< "health" >>) \cup Get(<< "version" >>)
HealthSummary == Get(<< "health", "summary" >>)
DiagnosticsReads ==
    Get(<< "diagnostics", "events" >>) \cup Get(<< "diagnostics", "summary" >>)
    \cup Get(<< "diagnostics", "self-test" >>) \cup Get(<< "diagnostics", "export" >>)
DiagnosticsClear ==
    Post(<< "diagnostics", "clear" >>, << May({503, 400}), Change("diagnostics", {503}) >>)
HostReads == Get(<< "host", "telemetry" >>)
ClaudeStatus == Get(<< "claude-plugin", "status" >>)
\* The junction, then the settings file if the junction went through.
ClaudeToggle ==
    Post(<< "claude-plugin", "toggle" >>, << May({200}), Change("plugin", {200}), Try("plugin") >>)
\* Turning one on first removes the other and the Claude plug-in; a failure to
\* write its own file leaves those removed.
ProviderRoutes ==
    Get(<< "chatgpt-plugin", "status" >>) \cup Get(<< "grok-plugin", "status" >>)
    \cup Post(<< "chatgpt-plugin", "toggle" >>,
            << May({200}), Try("plugin"), Try("plugin"), Change("plugin", {200}) >>)
    \cup Post(<< "grok-plugin", "toggle" >>,
            << May({200}), Try("plugin"), Try("plugin"), Change("plugin", {200}) >>)
DashboardReads ==
    Get(<< "dashboard" >>) \cup Get(<< "diagnostics", "runtime-stats" >>) \cup Get(<< "config" >>)
    \cup Get(<< "exports" >>) \cup Get(<< "workflows" >>)

-----------------------------------------------------------------------------
(* Workflows, documents and governance decisions *)

WorkflowPost == Post(<< "workflows" >>, << May({400}), Change("workflows", {400}) >>)
\* One block for every method: an unknown workflow is 404 before the method is
\* looked at, and a method it does not serve is 400.
WorkflowSub == {<< "workflows", "x", "enable" >>, << "workflows", "x", "disable" >>}
WorkflowRoutes ==
    GetMay(<< "workflows", "x" >>, {404})
    \cup Route("DELETE", << "workflows", "x" >>, << May({404}), Change("workflows", {400}) >>)
    \cup Post(<< "workflows", "x", "enable" >>, << May({404}), Change("workflows", {400}) >>)
    \cup Post(<< "workflows", "x", "disable" >>, << May({404}), Change("workflows", {400}) >>)
    \cup Routes("GET", WorkflowSub, << Ends({404, 400}) >>)
    \cup Routes("POST", {<< "workflows", "x" >>}, << Ends({404, 400}) >>)
    \cup Routes("PATCH", {<< "workflows", "x" >>} \cup WorkflowSub, << Ends({404, 400}) >>)
    \cup Routes("DELETE", WorkflowSub, << Ends({404, 400}) >>)
DocumentReads ==
    Get(<< "clu" >>) \cup Get(<< "clu", "tools" >>) \cup Get(<< "clu", "apple-operations" >>)
    \cup Get(<< "forsetti", "surface" >>) \cup Get(<< "forsetti", "modules" >>)
    \cup Get(<< "install", "history" >>) \cup Get(<< "beacon" >>)
    \cup Get(<< ".well-known", "mcos.json" >>) \cup Get(<< "discovery" >>)
OnboardingReads ==
    Get(<< "onboarding" >>) \cup Get(<< "onboarding", "x" >>)
    \cup Get(<< "client-integrations" >>) \cup GetMay(<< "client-integrations", "x" >>, {404})
    \cup GetMay(<< "client-integrations", "x", "x" >>, {404})
GovernanceReads ==
    Get(<< "governance", "profile" >>) \cup GetMay(<< "governance", "bundles", "x" >>, {404})
    \cup Get(<< "governance", "bundles" >>)
\* The change itself is never applied here: the policy stages it or blocks it.
ProfilePost == Post(<< "governance", "profile" >>, << Needs, May({400}), Govern, Ends({409}) >>)
DecisionsGet == Get(<< "governance", "decisions" >>)
DecisionsPost == Post(<< "governance", "decisions" >>, << May({503, 400}) >>)

-----------------------------------------------------------------------------
(* Pools, leases, telemetry and the gateway *)

PoolSub(names) == {<< "pools", "x", a >> : a \in names}
PoolReads ==
    Get(<< "pools" >>) \cup GetMay(<< "pools", "x" >>, {404})
    \cup Get(<< "pools", "x", "leases" >>) \cup Get(<< "pools", "x", "saturation" >>)
    \cup Routes("GET", PoolSub({"remove", "scale", "drain", "restart", "x"}), << Ends({400}) >>)
PoolPost ==
    Post(<< "pools" >>, << May({400, 503}), Change("register", {400}), Save, Invalidate >>)
PoolActions ==
    Post(<< "pools", "x" >>, << Ends({400}) >>)
    \cup Routes("POST", PoolSub({"saturation", "x"}), << Ends({503, 400}) >>)
    \cup Post(<< "pools", "x", "remove" >>,
            << May({503}), Change("unregister", {200}), Save, Invalidate >>)
    \cup Post(<< "pools", "x", "scale" >>, << May({503}), Change("instances", {200}), Invalidate >>)
    \cup Post(<< "pools", "x", "drain" >>, << May({503}), Change("instances", {200}), Invalidate >>)
\* The snapshot of the pool, its removal and its registration are three calls.
PoolRestart ==
    Post(<< "pools", "x", "restart" >>,
         << May({503, 200}), Change("unregister", {200}), Change("register", {200}), Try("instances"), Save, Invalidate >>)
PoolLease == Post(<< "pools", "x", "leases" >>, << May({503, 400}), Change("lease", {404, 200}) >>)
TelemetryReads ==
    Get(<< "telemetry", "events" >>) \cup Get(<< "telemetry", "clients" >>)
    \cup Get(<< "telemetry", "gateway" >>)
TelemetryHeartbeat ==
    Post(<< "telemetry", "heartbeat" >>, << May({503, 400}), Change("presence", {}) >>)
LeaseRelease ==
    Post(<< "leases", "x", "release" >>, << May({503}), Change("lease", {404, 200}) >>)
    \cup Post(<< "leases", "x" >>, << Ends({400}) >>)
GatewayReads ==
    Get(<< "gateway", "status" >>) \cup Get(<< "gateway", "health" >>) \cup Get(<< "gateway", "tools" >>)
GatewayLifecycle ==
    Post(<< "gateway", "start" >>, << Try("gateway"), Event >>)
    \cup Post(<< "gateway", "stop" >>, << Try("gateway"), Event >>)
    \cup Post(<< "gateway", "restart" >>, << May({200}), Try("gateway"), Try("gateway"), Event >>)

-----------------------------------------------------------------------------
(* Client surfaces, setup and installation of dependencies *)

ClientReads ==
    Get(<< "environment-hints" >>) \cup Get(<< "client", "mcp-servers" >>)
    \cup Get(<< "client", "sub-agents" >>) \cup Get(<< "client", "activity" >>)
ClientRoutes ==
    Get(<< "client", "governance", "profile" >>)
    \cup Post(<< "client", "governance", "decisions" >>, << May({503, 400}) >>)
    \cup Post(<< "client", "heartbeat" >>, << Try("presence") >>)
    \cup Get(<< "readiness" >>) \cup Get(<< "setup", "state" >>)
SetupStart == Post(<< "setup", "start" >>, << May({400}), Change("setup", {400}) >>)
\* One event for each skipped step and each override, after the update.
SetupComplete ==
    Post(<< "setup", "complete" >>, << May({400, 409}), Change("setup", {400}), Event >>)
SetupDismiss ==
    Post(<< "setup", "dismiss" >>, << Change("setup", {400}) >>)
    \cup Post(<< "setup", "reset" >>, << Change("setup", {400}) >>)
DependencyReads == Get(<< "setup", "dependencies" >>)
\* The installer runs before its result is known: a failure may leave changes.
DependencyInstall ==
    Post(<< "setup", "dependencies", "x", "install" >>,
         << May({404}), Try("path"), May({400}), Try("dependency"), Try("path"), May({400}) >>)
DependencyOther ==
    Routes("POST", {<< "setup", "dependencies", "x" >>, << "setup", "dependencies", "x", "x" >>},
           << Ends({400}) >>)
TemplateRoutes ==
    Get(<< "setup", "workflow-templates" >>)
    \cup Post(<< "setup", "workflow-templates", "x", "instantiate" >>,
            << May({404, 200, 400}), Change("workflows", {400}) >>)

-----------------------------------------------------------------------------
(* Platform services, settings and the configuration document *)

\* makePlatformConfigDocument: empty for a platform without gateway or
\* governance server.
PlatformConfig == << May({404}) >>
PlatformReads ==
    Get(<< "platform-services" >>) \cup Get(<< "platform-services", "gateways" >>)
    \cup Get(<< "platform-services", "governance" >>) \cup Get(<< "platform-services", "apple-hosts" >>)
    \cup Route("GET", << "platform-services", "config", "x" >>, PlatformConfig)
    \cup Route("GET", << "mcp", "gateway", "x" >>, PlatformConfig)
    \cup GetMay(<< "mcp", "governance", "x" >>, {404})
AdvancedMode ==
    Post(<< "settings", "advanced-mode" >>, << May({400}), Change("configuration", {400}) >>)
ConfigWrites ==
    Post(<< "config" >>, << May({400}), Change("configuration", {400}) >>)
    \cup Route("PATCH", << "config" >>, << May({400}), Change("configuration", {400}) >>)
AppleHosts ==
    Post(<< "platform-services", "apple-hosts" >>, << May({400}), Change("appleHosts", {400}) >>)
    \cup Post(<< "platform-services", "apple-hosts", "remove" >>,
            << May({400}), Change("appleHosts", {404, 400}) >>)

-----------------------------------------------------------------------------
(* The catalogs of servers, agents and groups *)

\* (mutant) The server is written before governance is asked.
ServerPostUngoverned ==
    Post(<< "runtime", "mcp-servers" >>,
         << May({400}), Needs, Change("servers", {400}), Govern >>)

ServerPost ==
    Post(<< "runtime", "mcp-servers" >>,
         << May({400}), Needs, Govern, May({400}), Change("servers", {400}) >>)

ServerRemove ==
    Post(<< "runtime", "mcp-servers", "remove" >>,
         << Needs, Govern, Change("servers", {404, 400}) >>)
\* An agent with a command becomes a pool; the result of that is ignored.
AgentPost ==
    Post(<< "runtime", "subagents" >>,
         << May({400}), Needs, Govern, May({400}), Change("agents", {400}), Try("register") >>)
AgentRemove ==
    Post(<< "runtime", "subagents", "remove" >>,
         << Needs, Govern, Change("agents", {404, 400}), Try("unregister") >>)
GroupRoutes ==
    Post(<< "runtime", "subagent-groups" >>, << Needs, May({400}), Change("groups", {400}) >>)
    \cup Post(<< "runtime", "subagent-groups", "remove" >>,
            << Needs, Change("groups", {404, 400}) >>)

-----------------------------------------------------------------------------
(* LAN clients, modules, approvals and installations *)

ClientSub(names) == {<< "clients", "x", a >> : a \in names}
ClientRoster ==
    Get(<< "clients" >>) \cup GetMay(<< "clients", "x", "config" >>, {404})
    \cup GetMay(<< "clients", "x" >>, {404})
    \cup Routes("GET", ClientSub({"disable", "enable", "privileges", "autonomous-mode"}),
                 << Ends({404}) >>)
ClientPost ==
    Post(<< "clients" >>, << Needs, Govern, May({400}), Change("clients", {400}) >>)
ClientSwitches ==
    Post(<< "clients", "x", "disable" >>, << Needs, Govern, Change("clients", {400}) >>)
    \cup Post(<< "clients", "x", "enable" >>, << Needs, Govern, Change("clients", {400}) >>)
ClientPrivileges ==
    Post(<< "clients", "x", "privileges" >>,
         << Needs, Govern, May({400}), Change("clients", {404, 400}) >>)
\* The body is parsed first: whether governance applies depends on it.
ClientAutonomous ==
    Post(<< "clients", "x", "autonomous-mode" >>,
         << Needs, May({400}), Govern, Change("clients", {404, 400}) >>)
ClientDelete ==
    Route("DELETE", << "clients", "x" >>, << Needs, Govern, Change("clients", {404, 400}) >>)
    \cup Routes("DELETE", ClientSub({"config", "disable", "enable", "privileges", "autonomous-mode"}),
                 << Needs, Ends({404}) >>)
\* A body that is no JSON object throws to the handler's catch.
ModuleState ==
    Post(<< "forsetti", "modules", "state" >>,
         << Needs, May({400, 500}), Govern, Change("modules", {404, 400}) >>)
ApprovalRoutes ==
    Get(<< "clu", "approvals" >>)
    \cup Post(<< "clu", "approvals", "x", "approve" >>,
            << Needs, May({503}), Change("approvals", {404, 400}) >>)
    \cup Post(<< "clu", "approvals", "x", "reject" >>,
            << Needs, May({503}), Change("approvals", {404, 400}) >>)
    \cup Routes("POST", {<< "clu", "approvals", "x" >>, << "clu", "approvals", "x", "x" >>},
                 << Ends({400}) >>)
CluRoutes ==
    Post(<< "clu", "execute" >>, << May({400}), Change("governanceTool", {400}) >>)
    \cup Post(<< "clu", "apple-operations", "cancel" >>,
            << May({400}), Change("appleOperations", {404, 400}) >>)
InstallRoutes ==
    Post(<< "install", "package" >>, << May({400}), Change("package", {400}) >>)
    \cup Post(<< "install", "repo" >>, << May({400}), Change("package", {400}) >>)
    \cup Post(<< "install", "zip" >>, << May({400}), Change("package", {400}) >>)
GovernancePost ==
    Post(<< "mcp", "governance", "x" >>, << May({500}), Change("governanceTool", {400}) >>)

MainRoutes ==
    HealthReads \cup HealthSummary \cup DiagnosticsReads \cup DiagnosticsClear \cup HostReads
    \cup ClaudeStatus \cup ClaudeToggle \cup ProviderRoutes \cup DashboardReads \cup WorkflowPost
    \cup WorkflowRoutes \cup DocumentReads \cup OnboardingReads \cup GovernanceReads \cup ProfilePost
    \cup DecisionsGet \cup DecisionsPost \cup PoolReads \cup PoolPost \cup PoolActions \cup PoolRestart
    \cup PoolLease \cup TelemetryReads \cup TelemetryHeartbeat \cup LeaseRelease \cup GatewayReads
    \cup GatewayLifecycle \cup ClientReads \cup ClientRoutes \cup SetupStart \cup SetupComplete
    \cup SetupDismiss \cup DependencyReads \cup DependencyInstall \cup DependencyOther
    \cup TemplateRoutes \cup PlatformReads \cup AdvancedMode \cup ConfigWrites \cup AppleHosts
    \cup ServerPost \cup ServerRemove \cup AgentPost \cup AgentRemove \cup GroupRoutes \cup ClientRoster
    \cup ClientPost \cup ClientSwitches \cup ClientPrivileges \cup ClientAutonomous \cup ClientDelete
    \cup ModuleState \cup ApprovalRoutes \cup CluRoutes \cup InstallRoutes \cup GovernancePost

AllRoutes == EarlyRoutes \cup MainRoutes
RoutesIn(rows) == {row.route : row \in rows}
ProgramIn(rows, route) == (CHOOSE row \in rows : row.route = route).program
Dispatched ==
    [route \in RoutesIn(AllRoutes) |->
        ProgramIn(IF route \in RoutesIn(EarlyRoutes) THEN EarlyRoutes ELSE MainRoutes, route)]
Paths == {route[2] : route \in RoutesIn(AllRoutes)}

-----------------------------------------------------------------------------
(* The registry that a 405 answer is made from *)

Only(methods, paths) == [p \in paths |-> methods]

\* kExact, by the methods listed.
RegistryExact ==
    Only({"GET", "POST", "PATCH"}, {<< "config" >>})
    @@ Only({"GET", "POST"}, {<< "governance", "decisions" >>, << "workflows" >>, << "pools" >>,
            << "clients" >>, << "platform-services", "apple-hosts" >>})
    @@ Only({"POST"}, {<< "clu", "apple-operations", "cancel" >>, << "clu", "execute" >>,
            << "forsetti", "modules", "state" >>, << "telemetry", "heartbeat" >>,
            << "gateway", "start" >>, << "gateway", "stop" >>, << "gateway", "restart" >>,
            << "client", "governance", "decisions" >>, << "client", "heartbeat" >>,
            << "setup", "start" >>, << "setup", "complete" >>, << "setup", "dismiss" >>,
            << "setup", "reset" >>, << "install", "package" >>, << "install", "repo" >>,
            << "install", "zip" >>, << "settings", "advanced-mode" >>,
            << "runtime", "mcp-servers" >>, << "runtime", "mcp-servers", "remove" >>,
            << "runtime", "subagents" >>, << "runtime", "subagents", "remove" >>,
            << "runtime", "subagent-groups" >>, << "runtime", "subagent-groups", "remove" >>,
            << "platform-services", "apple-hosts", "remove" >>, << "claude-plugin", "toggle" >>,
            << "chatgpt-plugin", "toggle" >>, << "grok-plugin", "toggle" >>,
            << "diagnostics", "clear" >>, << "self-tests", "run" >>,
            << "supervisor", "assignment", "select" >>, << "supervisor", "assignment", "revoke" >>,
            << "supervisor", "config", "generate" >>, << "supervisor", "connect", "confirm" >>,
            << "supervisor", "heartbeat" >>})
    @@ Only({"GET"}, {<< "health" >>, << "version" >>, << "health", "summary" >>,
            << "host", "telemetry" >>, << "readiness" >>, << "activity", "health" >>,
            << ".well-known", "mcos.json" >>, << "discovery" >>, << "onboarding" >>, << "beacon" >>,
            << "environment-hints" >>, << "governance", "profile" >>, << "governance", "bundles" >>,
            << "dashboard" >>, << "exports" >>, << "clu" >>, << "clu", "tools" >>,
            << "clu", "apple-operations" >>, << "clu", "approvals" >>, << "forsetti", "surface" >>,
            << "forsetti", "modules" >>, << "telemetry", "clients" >>, << "telemetry", "gateway" >>,
            << "gateway", "status" >>, << "gateway", "health" >>, << "gateway", "tools" >>,
            << "client", "mcp-servers" >>, << "client", "sub-agents" >>, << "client", "activity" >>,
            << "client", "governance", "profile" >>, << "setup", "state" >>,
            << "setup", "dependencies" >>, << "setup", "workflow-templates" >>,
            << "install", "history" >>, << "platform-services" >>,
            << "platform-services", "gateways" >>, << "platform-services", "governance" >>,
            << "claude-plugin", "status" >>, << "chatgpt-plugin", "status" >>,
            << "grok-plugin", "status" >>, << "diagnostics", "runtime-stats" >>,
            << "diagnostics", "events" >>, << "diagnostics", "summary" >>,
            << "diagnostics", "self-test" >>, << "diagnostics", "export" >>, << "self-tests" >>,
            << "events" >>, << "governance", "agentic-edition", "manifest" >>,
            << "supervisor", "assignment" >>, << "supervisor", "status" >>,
            << "supervisor", "reachability-check" >>, << "client-integrations" >>})

\* (mutant) The patterns before DELETE of a client was added.
RegistryPatternsDrifted ==
    Only({"POST"}, {<< "setup", "workflow-templates", "x", "instantiate" >>,
                    << "clients", "x", "disable" >>, << "clients", "x", "enable" >>,
                    << "clients", "x", "privileges" >>, << "clients", "x", "autonomous-mode" >>,
                    << "clu", "approvals", "x", "approve" >>, << "clu", "approvals", "x", "reject" >>})
    @@ Only({"GET"}, {<< "clients", "x", "config" >>, << "clients", "x" >>})

\* kPatterns: "x" stands where the pattern has its asterisk.
RegistryPatterns ==
    Only({"POST"}, {<< "setup", "workflow-templates", "x", "instantiate" >>,
                    << "clients", "x", "disable" >>, << "clients", "x", "enable" >>,
                    << "clients", "x", "privileges" >>, << "clients", "x", "autonomous-mode" >>,
                    << "clu", "approvals", "x", "approve" >>, << "clu", "approvals", "x", "reject" >>})
    @@ Only({"GET", "DELETE"}, {<< "clients", "x" >>})
    @@ Only({"GET"}, {<< "clients", "x", "config" >>})

\* kPrefix; the two whose prefix does not end with a slash match the path itself.
RegistryPrefixes ==
    Only({"GET"}, {<< "onboarding" >>, << "client-integrations" >>, << "governance", "bundles" >>,
                   << "platform-services", "config" >>, << "mcp", "gateway" >>,
                   << "governance", "agentic-edition", "document" >>})
    @@ Only({"POST"}, {<< "setup", "dependencies" >>, << "leases" >>})
    @@ Only({"GET", "POST"}, {<< "pools" >>, << "mcp", "governance" >>})
    @@ Only({"GET", "POST", "DELETE"}, {<< "workflows" >>})
RegistryOpenPrefixes == Only({"GET"}, {<< "telemetry", "events" >>, << "activity" >>})

Under(path, prefix) ==
    Len(prefix) < Len(path) /\ SubSeq(path, 1, Len(prefix)) = prefix

\* supportedMethodsForPath: exact, then patterns, then prefixes.
Supported(path) ==
    IF path \in DOMAIN RegistryExact THEN RegistryExact[path]
    ELSE IF path \in DOMAIN RegistryPatterns THEN RegistryPatterns[path]
    ELSE UNION ({RegistryPrefixes[p] : p \in {q \in DOMAIN RegistryPrefixes : Under(path, q)}}
                \cup {RegistryOpenPrefixes[p] : p \in
                          {q \in DOMAIN RegistryOpenPrefixes : path = q \/ Under(path, q)}})

-----------------------------------------------------------------------------
(* The capability that a route needs *)

isMutatingMethod(method) == method # "GET"

GovernanceModifyPaths ==
    {<< "config" >>, << "governance", "decisions" >>, << "client", "governance", "decisions" >>,
     << "clu", "execute" >>, << "clu", "apple-operations", "cancel" >>, << "diagnostics", "clear" >>,
     << "platform-services", "apple-hosts" >>, << "platform-services", "apple-hosts", "remove" >>}
SetupPaths ==
    {<< "setup", "start" >>, << "setup", "complete" >>, << "setup", "dismiss" >>,
     << "setup", "reset" >>, << "settings", "advanced-mode" >>, << "self-tests", "run" >>}
InstallPaths ==
    {<< "install", "package" >>, << "install", "repo" >>, << "install", "zip" >>,
     << "forsetti", "modules", "state" >>, << "claude-plugin", "toggle" >>,
     << "chatgpt-plugin", "toggle" >>, << "grok-plugin", "toggle" >>}
ProcessPaths ==
    {<< "pools" >>, << "workflows" >>}
    \cup ({"runtime"} \X {"mcp-servers", "subagents", "subagent-groups"})
    \cup ({"runtime"} \X {"mcp-servers", "subagents", "subagent-groups"} \X {"remove"})
AssignmentPaths ==
    {<< "supervisor", "assignment", "select" >>, << "supervisor", "assignment", "revoke" >>,
     << "supervisor", "config", "generate" >>, << "supervisor", "connect", "confirm" >>,
     << "supervisor", "heartbeat" >>}

\* requiredCapabilitiesForRoute names at most one.
requiredCapabilitiesForRoute(method, path) ==
    CASE ~isMutatingMethod(method) -> "none"
      [] path \in GovernanceModifyPaths \/ Under(path, << "mcp", "governance" >>) -> "governance.modify"
      [] path \in {"gateway"} \X {"start", "stop", "restart"} -> "network.admin"
      [] path = << "clients" >> \/ Under(path, << "clients" >>) -> "clients.manage"
      [] path \in SetupPaths \/ Under(path, << "setup", "workflow-templates" >>) -> "setup.local_or_admin"
      [] path \in InstallPaths \/ Under(path, << "setup", "dependencies" >>) -> "install.package"
      [] path \in ProcessPaths \/ Under(path, << "pools" >>) \/ Under(path, << "leases" >>)
            \/ Under(path, << "workflows" >>) -> "process.exec"
      [] path \in AssignmentPaths -> "supervisor.assign"
      [] OTHER -> "none"
===============================================================================
