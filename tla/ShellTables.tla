----------------------------- MODULE ShellTables -----------------------------
(***************************************************************************)
(* The tables of MainWindow.xaml.cpp: the destinations of the operator's   *)
(* window, the views that render them, and what the navigation, the        *)
(* toolbar, the overlays and the guided workflows lead to; built in, and   *)
(* as the server publishes them (ForsettiTables).  A view is named by its  *)
(* id, a label by the destination it labels.                               *)
(***************************************************************************)
EXTENDS Naturals, FiniteSets, FiniteSetsExt, Sequences, SequencesExt, TLC

Server == INSTANCE ForsettiTables

-----------------------------------------------------------------------------
(* Destinations and views *)

Destination ==
    {"overview", "telemetry", "runtime", "clu", "imports", "exports", "diagnostics", "security",
     "settings", "setup-wizard", "setup-readiness"}
bootstrapViewInjectionsBySlot ==
    [d \in Destination |->
        CASE d = "overview" -> "OverviewSectionView" [] d = "telemetry" -> "TelemetrySectionView"
          [] d = "runtime" -> "RuntimeSectionView" [] d = "clu" -> "CommandLogicUnitSectionView"
          [] d = "imports" -> "ImportsSectionView" [] d = "exports" -> "ExportsSectionView"
          [] d = "diagnostics" -> "DiagnosticsSectionView" [] d = "security" -> "SecuritySectionView"
          [] d = "settings" -> "SettingsSectionView" [] d = "setup-wizard" -> "SetupWizardView"
          [] d = "setup-readiness" -> "SetupReadinessView"]
View == Range(bootstrapViewInjectionsBySlot)

metadataForDestination ==
    [d \in Destination |->
        CASE d \in {"setup-wizard", "setup-readiness"} -> "START"
          [] d \in {"telemetry", "runtime", "clu"} -> "OPERATE"
          [] d = "overview" -> "OVERVIEW"
          [] OTHER -> "ADVANCED"]

\* A view without a line of its own leads to the overview.
destinationForViewId ==
    "SetupWizardView" :> "setup-wizard" @@ "SetupReadinessView" :> "setup-readiness"
    @@ "TelemetrySectionView" :> "telemetry" @@ "RuntimeSectionView" :> "runtime"
    @@ "CommandLogicUnitSectionView" :> "clu" @@ "ImportsSectionView" :> "imports"
    @@ "ExportsSectionView" :> "exports" @@ "DiagnosticsSectionView" :> "diagnostics"
    @@ "SecuritySectionView" :> "security" @@ "SettingsSectionView" :> "settings"
    @@ "OverviewSectionView" :> "overview"

\* The views whose snapshot waits for the operator's edits.
isInteractiveFormSection == {"SecuritySectionView", "SettingsSectionView", "ImportsSectionView"}
\* The two views that are built anew on every visit.
SetupViews == {"SetupWizardView", "SetupReadinessView"}

\* (mutant) The section added last has no branch.
AppliedBeforeDiagnostics ==
    {"OverviewSectionView", "TelemetrySectionView", "RuntimeSectionView",
     "CommandLogicUnitSectionView", "ImportsSectionView", "ExportsSectionView",
     "SecuritySectionView", "SettingsSectionView"}

\* The views that a snapshot reaches.
applySnapshotToView ==
    {"OverviewSectionView", "TelemetrySectionView", "RuntimeSectionView",
     "CommandLogicUnitSectionView", "ImportsSectionView", "ExportsSectionView",
     "DiagnosticsSectionView", "SecuritySectionView", "SettingsSectionView"}

\* The views that are handed the runtime, to call the server by themselves.
attachInteractiveRuntime ==
    {"OverviewSectionView", "RuntimeSectionView", "CommandLogicUnitSectionView",
     "ImportsSectionView", "ExportsSectionView", "DiagnosticsSectionView",
     "SecuritySectionView", "SettingsSectionView"}

\* The views that CreateViewForViewId makes, and of them those that it passes
\* to attachInteractiveRuntime.
CreateViewForViewId ==
    LET interactive == {"RuntimeSectionView", "CommandLogicUnitSectionView",
                        "ImportsSectionView", "ExportsSectionView", "DiagnosticsSectionView",
                        "SecuritySectionView", "SettingsSectionView", "OverviewSectionView"}
    IN  [made     |-> interactive \cup {"TelemetrySectionView"} \cup SetupViews,
         attached |-> interactive]

-----------------------------------------------------------------------------
(* Navigation, toolbar, overlays *)

bootstrapNavigationPointers ==
    << "setup-wizard", "setup-readiness", "overview", "telemetry", "runtime", "clu",
       "imports", "exports", "diagnostics", "security", "settings" >>

GoTo(d) == [kind |-> "navigate", target |-> d]
Open(route) == [kind |-> "openOverlay", target |-> route]
bootstrapToolbarItems ==
    {GoTo("setup-wizard"), GoTo("setup-readiness"), GoTo("runtime"), GoTo("telemetry"),
     GoTo("clu"), Open("imports-overlay"), Open("exports-overlay"), Open("settings-overlay")}

\* Every overlay targets the view of a module.
bootstrapOverlayRoutes ==
    "settings-overlay" :> "SettingsSectionView" @@ "imports-overlay" :> "ImportsSectionView"
    @@ "exports-overlay" :> "ExportsSectionView" @@ "security-overlay" :> "SecuritySectionView"

\* What the active modules make the server publish, NoModules before it did.
NoModules == {}
Requests(modules) == {r \in Server!Surfaces : r.module \in modules}
SurfaceOf(modules) == Server!composeDashboardSurface(Requests(modules))

\* The server sends the lanes and the toolbar in the order of the requests.
Lanes(modules) ==
    LET order(d) == Min({r.order : r \in {q \in Requests(modules) : q.lane /\ q.destination = d}})
    IN  SetToSortSeq({lane[2] : lane \in SurfaceOf(modules).lanes},
                     LAMBDA a, b : order(a) < order(b))

toolbarItemFromJson(target) ==
    IF target \in SurfaceOf(Server!ModuleIds).overlays THEN Open(target) ELSE GoTo(target)

\* EnsureBootstrapSurface: what is missing is filled in; the published
\* navigation is given the diagnostics.
NavigationOf(modules) ==
    LET lanes == Lanes(modules)
    IN  IF lanes = << >> THEN bootstrapNavigationPointers
        ELSE IF Contains(lanes, "diagnostics") THEN lanes
        ELSE Append(lanes, "diagnostics")

ToolbarOf(modules) ==
    IF SurfaceOf(modules).toolbar = {} THEN bootstrapToolbarItems
    ELSE {toolbarItemFromJson(item[2]) : item \in SurfaceOf(modules).toolbar}

RoutesOf(modules) ==
    IF SurfaceOf(modules).overlays = {} THEN DOMAIN bootstrapOverlayRoutes
    ELSE SurfaceOf(modules).overlays

SlotsOf(modules) ==
    LET views == SurfaceOf(modules).views
    IN  [d \in {v[1] : v \in views} |-> (CHOOSE v \in views : v[1] = d)[2]]
        @@ bootstrapViewInjectionsBySlot

\* OpenOverlayRouteAsync: an unknown route leads nowhere.
OpenOverlayRoute(routes, route) ==
    IF route \in routes
    THEN {destinationForViewId[bootstrapOverlayRoutes[route]]} ELSE {}

\* SurfaceToolbarButton_Click
ToolbarLeadsTo(routes, item) ==
    IF item.kind = "navigate" THEN {item.target} ELSE OpenOverlayRoute(routes, item.target)

\* StartGuidedWorkflow: a workflow opens the section that replaced its wizard.
Workflow ==
    {"new-mcp", "new-subagent", "new-subagent-group", "new-apple-host", "manage-forsetti-modules",
     "guided-import", "guided-security", "guided-settings", "guided-runtime-maintenance"}
StartGuidedWorkflow ==
    [workflow \in Workflow |->
        CASE workflow = "manage-forsetti-modules" -> "clu" [] workflow = "guided-import" -> "imports"
          [] workflow = "guided-security" -> "security" [] workflow = "guided-settings" -> "settings"
          [] OTHER -> "runtime"]

-----------------------------------------------------------------------------
(* Properties *)

\* However many modules are active: everything the toolbar, the overlays and
\* the workflows lead to has a view, the server and the window agree on the
\* view of a destination, every view is made, given the snapshots (the two
\* built anew apart) and, when it calls the server, its runtime; and the
\* destinations of one section share no view.
ViewTablesAgree(modules) ==
    /\ \A item \in ToolbarOf(modules) :
        \E d \in Destination : ToolbarLeadsTo(RoutesOf(modules), item) = {d}
    /\ Range(StartGuidedWorkflow) \cup Range(NavigationOf(modules)) \subseteq Destination
    /\ \A d \in Destination :
        /\ SlotsOf(modules)[d] = bootstrapViewInjectionsBySlot[d]
        /\ destinationForViewId[SlotsOf(modules)[d]] = d
        /\ SlotsOf(modules)[d] \in CreateViewForViewId.made
        /\ SlotsOf(modules)[d] \in applySnapshotToView \cup SetupViews
    /\ CreateViewForViewId.attached \subseteq attachInteractiveRuntime
    /\ IsInjective(bootstrapViewInjectionsBySlot)
===============================================================================
