----------------------------- MODULE ForsettiTables -----------------------------
(***************************************************************************)
(* The Forsetti modules of MasterControlModules.cpp: what the manifest of  *)
(* each says, what each asks of the dashboard surface, and the gateways,   *)
(* governance servers and tools that three pairs of them put in the        *)
(* platform catalogs.  A module is named without its "com.mastercontrol."  *)
(* prefix; descriptions, icons and properties are left out.                *)
(***************************************************************************)
EXTENDS Naturals, FiniteSets, TLC

\* What a manifest says: the module, whether a product of the store unlocks it,
\* and whether it is the one of type UI.
Manifest(module, product) == [module |-> module, product |-> product, ui |-> FALSE]
CoreManifests ==
    {Manifest(m, FALSE) :
        m \in {"environment-discovery", "host-telemetry", "runtime-inventory", "configuration"}}
OperationManifests ==
    {Manifest(m, TRUE) : m \in {"installer-import", "export", "command-logic-unit"}}
    \cup {Manifest("lan-client-access", FALSE)}
GatewayManifests ==
    {Manifest(m, TRUE) : m \in {"gateway-windows", "gateway-macos", "gateway-ios"}}
GovernanceManifests ==
    {Manifest(m, TRUE) : m \in {"governance-windows", "governance-macos", "governance-ios"}}
BeaconAndDashboard ==
    {Manifest("beacon-gateway", TRUE), [module |-> "dashboard-ui", product |-> FALSE, ui |-> TRUE]}

Manifests ==
    CoreManifests \cup OperationManifests \cup GatewayManifests \cup GovernanceManifests
    \cup BeaconAndDashboard
ModuleIds == {manifest.module : manifest \in Manifests}

protectedForsettiModuleIds ==
    {"configuration", "runtime-inventory", "command-logic-unit", "dashboard-ui"}
unlockedByDefault ==
    {"environment-discovery", "host-telemetry", "runtime-inventory", "configuration",
     "dashboard-ui"}
defaultModuleIds == ModuleIds

-----------------------------------------------------------------------------
(* Requests for the dashboard surface.  "order" is the place that the      *)
(* sortOrder and, for the two of 35, the display name give a request; a    *)
(* request with no overlay navigates.                                      *)

Surface(module, feature, destination, template, overlay, lane, shortcut, order) ==
    [module |-> module, feature |-> feature, destination |-> destination, template |-> template,
     overlay |-> overlay, lane |-> lane, shortcut |-> shortcut, order |-> order]
Navigate(module, feature, destination, template, order) ==
    Surface(module, feature, destination, template, "", TRUE, TRUE, order)
Status(module, feature, destination, template, order) ==
    Surface(module, feature, destination, template, "", FALSE, FALSE, order)

CoreSurfaces ==
    {Navigate("environment-discovery", "environment-overview", "overview", "OverviewSection", 10),
     Navigate("host-telemetry", "host-telemetry", "telemetry", "TelemetrySection", 20),
     Navigate("runtime-inventory", "runtime-inventory", "runtime", "RuntimeSection", 30),
     Surface("configuration", "security-control-plane", "security", "SecuritySection",
             "security-overlay", FALSE, TRUE, 70),
     Surface("configuration", "settings-control-plane", "settings", "SettingsSection",
             "settings-overlay", TRUE, TRUE, 80)}
OperationSurfaces ==
    {Surface("installer-import", "installer-import", "imports", "ImportsSection",
             "imports-overlay", TRUE, TRUE, 50),
     Surface("export", "export-artifacts", "exports", "ExportsSection",
             "exports-overlay", TRUE, TRUE, 60),
     Navigate("command-logic-unit", "command-logic-unit", "clu", "GovernanceSection", 90),
     Status("beacon-gateway", "beacon-runtime-status", "runtime", "RuntimeSection", 35)}
GatewaySurfaces ==
    {Status("gateway-windows", "windows-gateway-runtime", "runtime", "RuntimeSection", 34),
     Status("gateway-macos", "mac-gateway-runtime", "runtime", "RuntimeSection", 36),
     Status("gateway-ios", "ios-gateway-runtime", "runtime", "RuntimeSection", 37)}
GovernanceSurfaces ==
    {Status("governance-windows", "windows-governance-clu", "clu", "GovernanceSection", 91),
     Status("governance-macos", "mac-governance-clu", "clu", "GovernanceSection", 92),
     Status("governance-ios", "ios-governance-clu", "clu", "GovernanceSection", 93)}

Surfaces == CoreSurfaces \cup OperationSurfaces \cup GatewaySurfaces \cup GovernanceSurfaces

viewIdForSurfaceTemplate ==
    "OverviewSection" :> "OverviewSectionView" @@ "TelemetrySection" :> "TelemetrySectionView"
    @@ "RuntimeSection" :> "RuntimeSectionView" @@ "ImportsSection" :> "ImportsSectionView"
    @@ "ExportsSection" :> "ExportsSectionView" @@ "SecuritySection" :> "SecuritySectionView"
    @@ "SettingsSection" :> "SettingsSectionView"
    @@ "GovernanceSection" :> "CommandLogicUnitSectionView"

\* Of the requests that agree on Key, the first in the order of the sort.
Firsts(requests, Key(_)) ==
    {r \in requests : \A s \in requests : Key(s) = Key(r) => r.order <= s.order}

composeDashboardSurface(requests) ==
    LET View(r) == << r.destination, r.template >>
        Overlay(r) == r.overlay
        Destination(r) == r.destination
    IN  [views    |-> {<< r.destination, viewIdForSurfaceTemplate[r.template] >> : r \in Firsts(requests, View)},
         overlays |-> {r.overlay : r \in Firsts({s \in requests : s.overlay # ""}, Overlay)},
         toolbar  |-> {<< r.feature, IF r.overlay # "" THEN r.overlay ELSE r.destination >> :
                        r \in {s \in requests : s.shortcut}},
         lanes    |-> {<< r.feature, r.destination >> :
                        r \in Firsts({s \in requests : s.lane}, Destination)}]

NoSurface == [views |-> {}, overlays |-> {}, toolbar |-> {}, lanes |-> {}]

-----------------------------------------------------------------------------
(* The platform catalogs: the gateway and the governance server of each    *)
(* platform, and the tools of the server, which the server lists and       *)
(* another table describes.                                                *)

Gateways == {"gateway-windows", "gateway-macos", "gateway-ios"}

Servers == {"governance-windows", "governance-macos", "governance-ios"}
ServerTools ==
    [s \in Servers |->
        CASE s = "governance-windows" ->
                {"manifest.validate", "architecture.validate", "module-boundary.inspect",
                 "package.validate"}
          [] s = "governance-macos" ->
                {"manifest.validate", "project-layout.inspect", "toolchain.route",
                 "remote-build.validate", "build", "test", "archive", "sign", "notarize", "staple"}
          [] s = "governance-ios" ->
                {"manifest.validate", "project-layout.inspect", "signing.route",
                 "remote-build.validate", "simulator.list", "build", "test", "archive", "export",
                 "device.install"}]

Tools(module, tools) == {<< module, t >> : t \in tools}
WindowsTools ==
    Tools("governance-windows", {"manifest.validate", "architecture.validate",
                                 "module-boundary.inspect", "package.validate"})
MacTools ==
    Tools("governance-macos", {"manifest.validate", "project-layout.inspect", "toolchain.route",
                               "remote-build.validate", "build", "test", "archive", "sign",
                               "notarize", "staple"})
IOSTools ==
    Tools("governance-ios", {"manifest.validate", "project-layout.inspect", "signing.route",
                             "remote-build.validate", "simulator.list", "build", "test",
                             "archive", "export", "device.install"})
ToolDescriptors == WindowsTools \cup MacTools \cup IOSTools
=============================================================================
