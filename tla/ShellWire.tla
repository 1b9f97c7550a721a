------------------------------- MODULE ShellWire -------------------------------
(***************************************************************************)
(* What the operator's window and the server say to each other.  The       *)
(* server serialises its structures with the macros of MasterControl-      *)
(* Models.h; ShellRuntime.cpp is another program that reads the answers    *)
(* field by field, each with a default of its own, and writes its requests *)
(* by hand.  A field that only one of the two knows is lost without an     *)
(* error.  The records named ...Wire give the fields of each structure of  *)
(* the server; a definition named as a function of the window, what that   *)
(* function reads or sends.                                                *)
(***************************************************************************)
EXTENDS FiniteSets, Sequences, TLC

Admin == INSTANCE AdminRouteTables

-----------------------------------------------------------------------------
(* The structures of the server *)

RuntimeWire ==
   [HostTelemetrySnapshot |->
        {"cpuPercent", "memoryPercent", "diskPercent", "bytesSentPerSecond",
         "bytesReceivedPerSecond", "hostName", "primaryIpAddress", "primaryMacAddress",
         "operatingSystem", "capturedAtUtc"},
    RuntimeEndpoint |->
        {"id", "displayName", "kind", "host", "port", "protocol", "status", "description",
         "lastCheckedUtc", "routePath", "specialization", "requiredCapabilities", "risk",
         "highRisk", "userDefined", "isTemplate", "command", "args", "workingDirectory",
         "environment", "autoscaleMaxInstances", "autoscaleMaxLeasesPerInstance"},
    ManagedNodeProfile |->
        {"environmentName", "preferredBindAddress", "macAddress", "seededEndpoints"},
    SecuritySettings |->
        {"enableTls", "enableAuthentication", "allowTroubleshootingBypass", "allowOpenLanAccess",
         "securityProtocolsEnabled", "securityPosture", "trustedRemoteHosts"},
    ResourceAllocationProfile |->
        {"cpuPercent", "memoryPercent", "bandwidthPercent", "storagePercent"},
    SubAgentGroupDefinition |->
        {"groupId", "displayName", "description", "memberTargetIds", "updatedAtUtc"},
    RemovalRequest |-> {"subAgentId", "mcpServerId", "groupId"}]
SetupWire ==
   [ReadinessIssue |-> {"id", "category", "severity", "title", "detail"},
    ReadinessSnapshot |->
        {"setupStarted", "firstRunCompleted", "securityPosture", "mcpReadyCount",
         "mcpMissingCount", "workflowsReadyCount", "workflowsMissingCount",
         "specialistsReadyCount", "specialistsMissingCount", "blockingIssues",
         "recommendedNextStep", "updatedAtUtc"},
    WorkingAlphaReadinessIssue |-> {"id", "category", "state", "detail"},
    WorkingAlphaReadinessReport |->
        {"ready", "blockingIssues", "signals", "summary", "evaluatedAtUtc"},
    SetupStateSnapshot |->
        {"setupVersion", "mode", "currentStep", "steps", "readiness", "securityPosture",
         "lanModeEnabled", "beaconEnabled", "dismissedAtUtc", "lastUpdatedUtc"},
    DependencyDetection |->
        {"id", "state", "preflight", "detectedVersion", "detail", "detectedAtUtc"},
    DependencyInstallResult |->
        {"id", "succeeded", "finalState", "summary", "stdoutTail", "stderrTail", "exitCode",
         "totalLatencyMs", "postInstallDetection"}]
HistoryWire ==
   [ActivityEvent |->
        {"id", "kind", "timestampUtc", "actor", "method", "target", "statusCode", "latencyMs",
         "message", "detail"},
    SelfTestResult |-> {"name", "category", "ok", "message", "durationMs", "ranAtUtc"},
    SelfTestSnapshot |->
        {"startedAtUtc", "finishedAtUtc", "totalCount", "passedCount", "failedCount", "results"},
    InstallerPackageSpec |->
        {"kind", "source", "localPath", "arguments", "allowUntrustedExecution"},
    BootstrapRepoSpec |->
        {"repositoryUrl", "branch", "manifestFile", "allowUntrustedExecution"},
    ZipBundleSpec |-> {"source", "manifestFile", "allowUntrustedExecution"},
    ExportArtifact |-> {"id", "fileName", "mediaType", "content"},
    GovernanceDocument |-> {"id", "title", "category", "summary", "content"},
    GovernanceRole |-> {"roleId", "name", "authorityLevel", "responsibilities"},
    GovernanceRule |-> {"ruleId", "title", "severity", "failureConsequence", "description"},
    GovernanceFinding |-> {"ruleId", "title", "severity", "status", "message"}]
AppleWire ==
   [AppleToolchainState |->
        {"reachable", "xcodeInstalled", "xcodeVersion", "developerDirectory",
         "macosSdkAvailable", "iosSdkAvailable", "simulatorControlAvailable",
         "deviceControlAvailable", "simulatorRuntimes", "status", "message", "checkedAtUtc"},
    AppleSigningState |->
        {"signingReady", "developmentSigningReady", "distributionSigningReady", "availableTeams",
         "status", "message"},
    AppleRemoteHost |->
        {"hostId", "displayName", "transport", "platforms", "address", "port", "username",
         "serviceBaseUrl", "companionHealthPath", "companionExecutePath",
         "preferredDeveloperDirectory", "defaultSigningIdentity", "defaultNotaryKeychainProfile",
         "defaultNotaryTeamId", "enabled", "toolchain", "signing", "transportSummary",
         "credentialProfileSummary", "readinessIssues"},
    GovernanceToolRequest |-> {"platform", "toolId", "targetPath", "options"},
    GovernanceToolResult |->
        {"platform", "toolId", "displayName", "status", "succeeded", "summary", "completedAtUtc"},
    AppleOperationRecord |->
        {"operationId", "platform", "toolId", "displayName", "hostId", "hostDisplayName",
         "transport", "status", "workingDirectory", "artifactPath", "targetPath", "summary",
         "rawOutput", "errorMessage", "queuedAtUtc", "startedAtUtc", "completedAtUtc",
         "requestOptions", "routeReason", "diagnosticSummary", "selectedDeveloperDirectory",
         "credentialProfileSummary", "readinessIssues", "redactedRequestOptionKeys",
         "rerunReady", "rerunReadinessMessage"}]
GovernanceWire ==
   [GovernanceSnapshot |->
        {"unitName", "posture", "doctrine", "lastEvaluatedUtc", "documents", "roles", "rules",
         "findings", "recommendedActions", "appleRemoteHosts", "platformGateways",
         "governanceServers", "recentExecutions", "appleOperations"},
    PlatformGatewayDescriptor |->
        {"serviceId", "platform", "displayName", "serviceType", "hostName", "ipAddress", "port",
         "status"},
    GovernanceServerDescriptor |->
        {"serviceId", "platform", "displayName", "routePath", "toolIds",
         "requiresRemoteToolchain", "status"},
    ForsettiSurfaceSnapshot |->
        {"themeMask", "toolbarItems", "viewInjectionsBySlot", "overlaySchema"},
    OperationResult |-> {"succeeded", "requiresConfirmation", "message"},
    InstallProvenance |->
        {"kind", "source", "installedAtUtc", "version", "trusted", "executionSummary"}]
DashboardWire ==
   [SubAgentLeaseHolder |-> {"ipAddress", "clientType", "sessionId", "acquiredAtUtc"},
    SubAgentRuntimeStat |->
        {"subAgentId", "displayName", "specialization", "poolId", "readyInstanceCount",
         "totalInstanceCount", "activeLeaseCount", "leaseCapacity", "maxInstancesAllowed",
         "utilizationPercent", "autoscaleEnabled", "activeClients", "reachable",
         "endpointHostPort", "lastProbedAtUtc", "status", "unavailableReason",
         "lastErrorMessage", "installState"},
    McpServerRuntimeStat |->
        {"mcpServerId", "displayName", "specialization", "poolId", "readyInstanceCount",
         "totalInstanceCount", "activeLeaseCount", "leaseCapacity", "maxInstancesAllowed",
         "utilizationPercent", "autoscaleEnabled", "activeClients", "reachable",
         "endpointHostPort", "lastProbedAtUtc", "status", "unavailableReason",
         "lastErrorMessage", "installState"},
    DashboardSnapshot |->
        {"telemetry", "endpoints", "subAgentGroups", "subAgentRuntimeStats",
         "mcpServerRuntimeStats", "resourceAllocation", "security", "installHistory", "exports",
         "governance", "appleRemoteHosts", "platformGateways", "governanceServers", "surface",
         "mcpGatewayStatus"},
    AppConfiguration |->
        {"instanceName", "instanceId", "bindAddress", "browserPort", "beaconPort",
         "beaconEnabled", "aiAutonomyEnabled", "advancedMode", "firstRunCompleted", "security",
         "resourceAllocation", "subAgentGroups", "activeProfile"}]
ClientWire ==
   [ClientExportArtifact |-> {"fileName", "mediaType", "content", "purpose", "containsSecret"},
    ClientIntegrationWarning |-> {"code", "severity", "message"},
    ClientIntegrationValidationResult |-> {"integrationId", "compatible", "warnings"}]
GatewayStatus == {"state", "message", "mcpUrl", "startedAtUtc", "adapterType", "tlsBound"}

\* Answers that a handler puts together by itself.
ForsettiModule ==
    {"moduleId", "displayName", "moduleType", "version", "entryPoint", "supportedPlatforms",
     "capabilitiesRequested", "active", "unlocked", "protectedModule", "recommendedAction",
     "statusSummary"}
claudePluginStatusJson ==
    {"ok", "registered", "activeUserResolved", "userName", "profileDir", "source", "target", "lastError"}
directAIPluginStatusJson ==
    {"ok", "providerId", "registered", "activeUserResolved", "userName", "profileDir", "target",
     "lastError"}
SupervisorStatus ==
    {"activeProviderId", "providerDisplayName", "mode", "state", "assignmentId", "configId",
     "clientId", "issuedAtUtc", "expiresAtUtc", "connectedAtUtc", "lastHeartbeatUtc",
     "lastErrorMessage", "active"}
SupervisorIssueResult == {"ok", "errorMessage", "fileName", "contentType", "config", "assignment"}
ReachabilityCheck ==
    {"ok", "allReachable", "resolvedLanIp", "adminPort", "gatewayPort", "generatedAtUtc",
     "interpretation", "probes"}
probeResultToJson == {"url", "method", "ok", "statusCode", "errorMessage", "interpretation"}
DiagnosticEvent ==
    {"capturedAtUtc", "component", "severity", "event", "message", "data", "sessionId", "sequence"}
DiagnosticsSummary ==
    {"totalEvents", "bySeverity", "byComponent", "latest5", "generatedAtUtc", "storeUnavailable",
     "storeBacked"}
ActivityPage == {"events", "highWaterMarkId"}

-----------------------------------------------------------------------------
(* What the window reads *)

Reads(fields, of) == {[fields |-> fields, of |-> of]}
CaptureTelemetry ==
    Reads({"telemetry"}, DashboardWire.DashboardSnapshot)
    \cup Reads({"hostName", "operatingSystem", "primaryIpAddress", "cpuPercent", "memoryPercent",
                "diskPercent", "bytesSentPerSecond", "bytesReceivedPerSecond", "capturedAtUtc",
                "primaryMacAddress"}, RuntimeWire.HostTelemetrySnapshot)
\* The raw address is in the gateway's own answers only: here the window
\* always falls back to mcpUrl.
CaptureGateway ==
    Reads({"mcpGatewayStatus"}, DashboardWire.DashboardSnapshot)
    \cup Reads({"mcpUrl", "state"}, GatewayStatus)
runtimeEndpointFromJson ==
    Reads({"id", "displayName", "kind", "host", "port", "protocol", "status", "description",
           "routePath", "specialization", "requiredCapabilities", "risk", "highRisk",
           "userDefined"}, RuntimeWire.RuntimeEndpoint)

\* (mutant) The name that endpoints have in the configuration file.
subAgentGroupFromFile ==
    Reads({"groupId", "displayName", "description", "members", "updatedAtUtc"},
          RuntimeWire.SubAgentGroupDefinition)

subAgentGroupFromJson ==
    Reads({"groupId", "displayName", "description", "memberTargetIds", "updatedAtUtc"},
          RuntimeWire.SubAgentGroupDefinition)
securityFromJson ==
    Reads({"enableTls", "enableAuthentication", "allowTroubleshootingBypass", "allowOpenLanAccess",
           "securityProtocolsEnabled", "trustedRemoteHosts"}, RuntimeWire.SecuritySettings)
CaptureEndpoints ==
    Reads({"endpoints", "subAgentGroups", "subAgentRuntimeStats", "mcpServerRuntimeStats"},
          DashboardWire.DashboardSnapshot)
CaptureStats ==
    LET shared == {"displayName", "specialization", "poolId", "readyInstanceCount",
                   "totalInstanceCount", "activeLeaseCount", "leaseCapacity",
                   "maxInstancesAllowed", "utilizationPercent", "autoscaleEnabled", "reachable",
                   "endpointHostPort", "lastProbedAtUtc", "status", "activeClients"}
    IN  Reads(shared \cup {"subAgentId"}, DashboardWire.SubAgentRuntimeStat)
        \cup Reads(shared \cup {"mcpServerId"}, DashboardWire.McpServerRuntimeStat)
        \cup Reads({"ipAddress", "clientType", "sessionId", "acquiredAtUtc"}, DashboardWire.SubAgentLeaseHolder)
CaptureGovernance ==
    Reads({"installHistory", "exports", "governance", "surface"}, DashboardWire.DashboardSnapshot)
    \cup Reads({"posture", "doctrine", "lastEvaluatedUtc", "findings", "roles", "rules",
                "documents", "recommendedActions", "appleRemoteHosts", "appleOperations",
                "platformGateways", "governanceServers", "recentExecutions"}, GovernanceWire.GovernanceSnapshot)
    \cup Reads({"toolbarItems", "viewInjectionsBySlot", "overlaySchema"}, GovernanceWire.ForsettiSurfaceSnapshot)
appleRemoteHostFromJson ==
    Reads({"hostId", "displayName", "transport", "platforms", "address", "port", "username",
           "serviceBaseUrl", "companionHealthPath", "companionExecutePath",
           "preferredDeveloperDirectory", "defaultSigningIdentity",
           "defaultNotaryKeychainProfile", "defaultNotaryTeamId", "enabled", "toolchain",
           "signing", "transportSummary", "credentialProfileSummary", "readinessIssues"},
          AppleWire.AppleRemoteHost)
    \cup Reads({"reachable", "xcodeInstalled", "xcodeVersion", "developerDirectory",
                "macosSdkAvailable", "iosSdkAvailable", "simulatorControlAvailable",
                "deviceControlAvailable", "checkedAtUtc", "status", "message",
                "simulatorRuntimes"}, AppleWire.AppleToolchainState)
    \cup Reads({"signingReady", "developmentSigningReady", "distributionSigningReady",
                "availableTeams", "status", "message"}, AppleWire.AppleSigningState)
appleOperationFromJson ==
    Reads({"operationId", "platform", "toolId", "displayName", "hostId", "hostDisplayName",
           "transport", "status", "workingDirectory", "artifactPath", "targetPath", "summary",
           "rawOutput", "errorMessage", "queuedAtUtc", "startedAtUtc", "completedAtUtc",
           "requestOptions", "routeReason", "diagnosticSummary", "selectedDeveloperDirectory",
           "credentialProfileSummary", "readinessIssues", "redactedRequestOptionKeys",
           "rerunReady", "rerunReadinessMessage"}, AppleWire.AppleOperationRecord)
RowsOfHistory ==
    Reads({"source", "installedAtUtc", "trusted", "executionSummary"}, GovernanceWire.InstallProvenance)
    \cup Reads({"fileName", "mediaType"}, HistoryWire.ExportArtifact)
RowsOfGovernance ==
    Reads({"status", "title", "message"}, HistoryWire.GovernanceFinding)
    \cup Reads({"name", "authorityLevel"}, HistoryWire.GovernanceRole)
    \cup Reads({"ruleId", "title", "severity"}, HistoryWire.GovernanceRule)
    \cup Reads({"title", "category", "summary"}, HistoryWire.GovernanceDocument)
RowsOfPlatforms ==
    Reads({"displayName", "serviceId", "platform", "serviceType", "ipAddress", "hostName", "port",
           "status"}, GovernanceWire.PlatformGatewayDescriptor)
    \cup Reads({"displayName", "serviceId", "platform", "routePath", "toolIds", "status",
                "requiresRemoteToolchain"}, GovernanceWire.GovernanceServerDescriptor)
    \cup Reads({"status", "displayName", "toolId", "platform", "summary", "completedAtUtc"},
               AppleWire.GovernanceToolResult)
CaptureSetup ==
    Reads({"mode", "currentStep", "securityPosture", "readiness"}, SetupWire.SetupStateSnapshot)
    \cup Reads({"firstRunCompleted", "mcpReadyCount", "mcpMissingCount", "workflowsReadyCount",
                "workflowsMissingCount", "specialistsReadyCount", "specialistsMissingCount",
                "blockingIssues"}, SetupWire.ReadinessSnapshot)
    \cup Reads({"severity", "title", "id"}, SetupWire.ReadinessIssue)
CaptureSelfTests ==
    Reads({"startedAtUtc", "finishedAtUtc", "totalCount", "passedCount", "failedCount",
           "results"}, HistoryWire.SelfTestSnapshot)
    \cup Reads({"name", "category", "ok", "message", "durationMs", "ranAtUtc"}, HistoryWire.SelfTestResult)
CaptureAlpha ==
    Reads({"ready", "summary", "evaluatedAtUtc", "blockingIssues"}, SetupWire.WorkingAlphaReadinessReport)
    \cup Reads({"category", "state", "detail", "id"}, SetupWire.WorkingAlphaReadinessIssue)
CaptureSupervisor ==
    Reads({"activeProviderId", "providerDisplayName", "mode", "state", "assignmentId", "configId",
           "clientId", "issuedAtUtc", "expiresAtUtc", "connectedAtUtc", "lastHeartbeatUtc",
           "lastErrorMessage", "active"}, SupervisorStatus)
\* The window looks into the configuration file itself, too.
CaptureConfiguration ==
    Reads({"instanceName", "bindAddress", "browserPort", "beaconPort", "activeProfile", "security",
           "resourceAllocation", "beaconEnabled", "aiAutonomyEnabled", "advancedMode",
           "firstRunCompleted", "subAgentGroups"}, DashboardWire.AppConfiguration)
    \cup Reads({"environmentName", "preferredBindAddress", "macAddress", "seededEndpoints"},
               RuntimeWire.ManagedNodeProfile)
    \cup Reads({"cpuPercent", "memoryPercent", "bandwidthPercent", "storagePercent"},
               RuntimeWire.ResourceAllocationProfile)

SnapshotForms ==
    CaptureTelemetry \cup CaptureGateway \cup runtimeEndpointFromJson \cup subAgentGroupFromJson
    \cup securityFromJson \cup CaptureEndpoints \cup CaptureStats \cup CaptureGovernance
    \cup appleRemoteHostFromJson \cup appleOperationFromJson \cup RowsOfHistory
    \cup RowsOfGovernance \cup RowsOfPlatforms \cup CaptureSetup \cup CaptureSelfTests
    \cup CaptureAlpha \cup CaptureSupervisor \cup CaptureConfiguration

-----------------------------------------------------------------------------
(* What the window asks for *)

\* A call: the route, the fields of its body and those that the handler knows,
\* and what the window reads of the answer.
Call(method, path, sends, knows, reads) ==
    {[route |-> << method, path >>, sends |-> sends, knows |-> knows, reads |-> reads]}
Fetch(path, reads) == Call("GET", path, {}, {}, reads)
operationResultFromResponse == Reads({"succeeded", "requiresConfirmation", "message"}, GovernanceWire.OperationResult)
Save(path, sends, knows) == Call("POST", path, sends, knows, operationResultFromResponse)

runtimeEndpointToJson ==
    {"id", "displayName", "kind", "host", "port", "protocol", "description", "routePath",
     "specialization", "requiredCapabilities", "risk", "highRisk", "userDefined"}
subAgentGroupToJson == {"groupId", "displayName", "description", "memberTargetIds"}
appleRemoteHostToJson ==
    {"hostId", "displayName", "transport", "platforms", "address", "port", "username",
     "serviceBaseUrl", "companionHealthPath", "companionExecutePath",
     "preferredDeveloperDirectory", "defaultSigningIdentity", "defaultNotaryKeychainProfile",
     "defaultNotaryTeamId", "enabled"}

EndpointCalls ==
    Save(<< "runtime", "subagents" >>, runtimeEndpointToJson, RuntimeWire.RuntimeEndpoint)
    \cup Save(<< "runtime", "mcp-servers" >>, runtimeEndpointToJson, RuntimeWire.RuntimeEndpoint)
    \cup Save(<< "runtime", "subagents", "remove" >>, {"subAgentId"}, RuntimeWire.RemovalRequest)
    \cup Save(<< "runtime", "mcp-servers", "remove" >>, {"mcpServerId"}, RuntimeWire.RemovalRequest)
HostCalls ==
    Save(<< "platform-services", "apple-hosts" >>, appleRemoteHostToJson, AppleWire.AppleRemoteHost)
    \cup Save(<< "platform-services", "apple-hosts", "remove" >>, {"hostId"}, {"hostId"})
GroupCalls ==
    Save(<< "runtime", "subagent-groups" >>, subAgentGroupToJson, RuntimeWire.SubAgentGroupDefinition)
    \cup Save(<< "runtime", "subagent-groups", "remove" >>, {"groupId"}, RuntimeWire.RemovalRequest)
SetupCalls ==
    Fetch(<< "setup", "state" >>, CaptureSetup)
    \cup Save(<< "setup", "start" >>, {"mode"}, {"mode", "currentStep"})
    \cup Save(<< "setup", "complete" >>, {"confirm"}, {"confirm"})
    \cup Save(<< "setup", "dismiss" >>, {}, {})
\* Every change of the configuration reads the whole document, changes some
\* fields of it and posts the whole document.
ConfigurationCalls ==
    Fetch(<< "config" >>, Reads({"security", "activeProfile", "resourceAllocation"}, DashboardWire.AppConfiguration))
    \cup Save(<< "config" >>, {"aiAutonomyEnabled", "security", "instanceName", "bindAddress",
                               "browserPort", "beaconPort", "beaconEnabled", "activeProfile",
                               "resourceAllocation"}, DashboardWire.AppConfiguration)
ModuleCalls ==
    Fetch(<< "forsetti", "modules" >>,
          Reads({"moduleId", "displayName", "moduleType", "version", "entryPoint",
                 "supportedPlatforms", "capabilitiesRequested", "active", "unlocked",
                 "protectedModule", "recommendedAction", "statusSummary"}, ForsettiModule))
    \cup Save(<< "forsetti", "modules", "state" >>, {"moduleId", "action"}, {"moduleId", "action"})
GovernanceCalls ==
    Call("POST", << "clu", "execute" >>, {"platform", "toolId", "targetPath", "options"},
         AppleWire.GovernanceToolRequest, Reads({"succeeded", "summary"}, AppleWire.GovernanceToolResult))
InstallCalls ==
    Save(<< "install", "package" >>, {"kind", "source", "localPath", "arguments",
                                      "allowUntrustedExecution"}, HistoryWire.InstallerPackageSpec)
    \cup Save(<< "install", "repo" >>, {"repositoryUrl", "branch", "manifestFile",
                                        "allowUntrustedExecution"}, HistoryWire.BootstrapRepoSpec)
    \cup Save(<< "install", "zip" >>, {"source", "manifestFile", "allowUntrustedExecution"},
              HistoryWire.ZipBundleSpec)
ExportCalls ==
    Fetch(<< "exports" >>, Reads({"id", "fileName", "mediaType", "content"}, HistoryWire.ExportArtifact))
\* The field "detail" that the window reads too is never there: it belongs to
\* the detection, which the answer nests.
DependencyCalls ==
    Call("POST", << "setup", "dependencies", "x", "install" >>, {}, {},
         Reads({"succeeded", "finalState", "summary", "exitCode", "postInstallDetection"},
               SetupWire.DependencyInstallResult)
         \cup Reads({"detectedVersion"}, SetupWire.DependencyDetection))
ClaudeCalls ==
    LET answer == Reads({"registered", "activeUserResolved", "userName", "profileDir", "source",
                         "target", "lastError"}, claudePluginStatusJson)
    IN  Fetch(<< "claude-plugin", "status" >>, answer)
        \cup Call("POST", << "claude-plugin", "toggle" >>, {}, {}, answer)
DirectAICalls ==
    LET answer == Reads({"registered", "activeUserResolved", "userName", "profileDir", "target",
                         "lastError"}, directAIPluginStatusJson)
    IN  UNION {Fetch(<< plugin, "status" >>, answer)
               \cup Call("POST", << plugin, "toggle" >>, {}, {}, answer) :
                  plugin \in {"chatgpt-plugin", "grok-plugin"}}
ReachabilityCalls ==
    Fetch(<< "supervisor", "reachability-check" >>,
          Reads({"allReachable", "resolvedLanIp", "adminPort", "gatewayPort", "generatedAtUtc",
                 "probes", "interpretation"}, ReachabilityCheck)
          \cup Reads({"ok", "url", "method", "statusCode", "errorMessage", "interpretation"},
                     probeResultToJson))
SupervisorCalls ==
    Fetch(<< "supervisor", "status" >>, CaptureSupervisor)
    \cup Call("POST", << "supervisor", "config", "generate" >>, {"providerId", "mode", "exclusive"},
              {"providerId", "mode", "exclusive"},
              Reads({"errorMessage", "ok", "fileName", "config", "assignment"},
                    SupervisorIssueResult))
    \cup Call("POST", << "supervisor", "assignment", "revoke" >>, {"reason"}, {"reason"}, {})
IntegrationCalls ==
    Fetch(<< "client-integrations", "x", "x" >>,
          Reads({"compatible", "integrationId", "warnings"}, ClientWire.ClientIntegrationValidationResult)
          \cup Reads({"severity", "message"}, ClientWire.ClientIntegrationWarning)
          \cup Reads({"fileName", "mediaType", "content"}, ClientWire.ClientExportArtifact))
SelfTestCalls ==
    Fetch(<< "self-tests" >>, CaptureSelfTests)
    \cup Call("POST", << "self-tests", "run" >>, {}, {}, CaptureSelfTests)
ActivityCalls ==
    Fetch(<< "activity" >>,
          Reads({"highWaterMarkId", "events"}, ActivityPage)
          \cup Reads({"id", "kind", "timestampUtc", "actor", "method", "target", "statusCode",
                     "latencyMs", "message", "detail"}, HistoryWire.ActivityEvent))
DiagnosticsCalls ==
    Fetch(<< "diagnostics", "summary" >>,
          Reads({"totalEvents", "storeBacked", "storeUnavailable", "generatedAtUtc"},
                DiagnosticsSummary))
    \cup Fetch(<< "diagnostics", "events" >>,
               Reads({"capturedAtUtc", "component", "severity", "event", "message"},
                     DiagnosticEvent))
    \cup Fetch(<< "diagnostics", "export" >>, {})
    \cup Call("POST", << "diagnostics", "clear" >>, {"reason"}, {"reason", "retainSinceUtc"}, {})
SnapshotCalls ==
    Fetch(<< "health" >>, {}) \cup Fetch(<< "dashboard" >>, SnapshotForms)
    \cup Fetch(<< "health", "summary" >>, CaptureAlpha)

ShellCalls ==
    EndpointCalls \cup HostCalls \cup GroupCalls \cup SetupCalls \cup ConfigurationCalls
    \cup ModuleCalls \cup GovernanceCalls \cup InstallCalls \cup ExportCalls
    \cup DependencyCalls \cup ClaudeCalls \cup DirectAICalls \cup ReachabilityCalls
    \cup SupervisorCalls \cup IntegrationCalls \cup SelfTestCalls \cup ActivityCalls
    \cup DiagnosticsCalls \cup SnapshotCalls

-----------------------------------------------------------------------------
(* Properties *)

\* Whatever the window asks for, the server has a handler for; what it sends,
\* the handler knows; and what it reads of an answer is in the answer, where
\* a field of another name would become the default without an error.
WireAgrees ==
    \A call \in ShellCalls :
        /\ call.route \in DOMAIN Admin!Dispatched
        /\ call.sends \subseteq call.knows
        /\ \A read \in call.reads : read.fields \subseteq read.of

\* The records that the window saves as a whole: what it sends of them, and
\* what the server sets by itself.
Edit(whole, sends, sets) == [whole |-> whole, sends |-> sends, sets |-> sets]
Edits ==
    "group" :> Edit(RuntimeWire.SubAgentGroupDefinition, subAgentGroupToJson, {"updatedAtUtc"})
    @@ "endpoint" :> Edit(RuntimeWire.RuntimeEndpoint, runtimeEndpointToJson, {"status", "lastCheckedUtc"})
    @@ "host" :> Edit(AppleWire.AppleRemoteHost, appleRemoteHostToJson,
                      {"transportSummary", "credentialProfileSummary", "readinessIssues"})

\* An edit in the window changes what the window shows of a record and keeps
\* the rest of it.  An endpoint loses the command it is launched with and its
\* limits, a host what the inspection found: the save replaces the record.
EditsKeepTheRest ==
    \A record \in DOMAIN Edits :
        Edits[record].whole \subseteq Edits[record].sends \cup Edits[record].sets
===============================================================================
