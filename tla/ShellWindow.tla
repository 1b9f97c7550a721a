----------------------------- MODULE ShellWindow -----------------------------
(***************************************************************************)
(* The operator's window (MainWindow.xaml.cpp): what it shows of the       *)
(* server, and where the operator is in it.                                *)
(*                                                                         *)
(* Two passes take a snapshot on a background thread and apply it on the   *)
(* UI thread: RefreshAsync, which the operator's actions start, and        *)
(* RefreshLiveAsync, which a timer starts every second.  A snapshot is     *)
(* read from the server in two steps, the dashboard and the setup state,   *)
(* and stands here for its version.  The live pass changes neither the     *)
(* navigation nor the place.                                               *)
(***************************************************************************)
EXTENDS ShellTables

CONSTANTS
    ActiveSets,       \* the sets of active modules that the server may have
    ShellFaults,    \* the faults of a run, see AllShellFaults
    MaxVersions,    \* bound on the changes of the server
    MaxClicks       \* bound on the operator's actions

\* The server stops, a snapshot that throws, a refresh that cannot be applied.
AllShellFaults == {"offline", "capture", "apply"}

ASSUME ShellAssumption ==
    /\ ActiveSets \subseteq SUBSET Server!ModuleIds /\ ActiveSets # {}
    /\ ShellFaults \subseteq AllShellFaults
    /\ MaxVersions \in Nat /\ MaxClicks \in Nat

VARIABLES
    server,         \* what the server answers
    shown,          \* currentSnapshot_
    destination,    \* currentDestination_
    header,         \* the destination that the section's title names
    content,        \* SectionContentHost: the view it holds, NoView at first
    cached,         \* cachedViews_: the snapshot each was given last
    built,          \* the modules that navigation and toolbar were built for
    selected,       \* the selected item of the navigation
    dismissed,      \* firstRunWizardDismissed_
    refresh, live,  \* the passes, see Pass
    loaded,         \* windowInitialized_
    clicks

winVars == << server, shown, destination, header, content, cached, built, selected, dismissed,
              refresh, live, loaded, clicks >>

NotMade == -1
NoView == [view |-> "none", version |-> NotMade]

\* A snapshot: the version of the data (0 when there is none), the modules
\* whose surface it holds and whether the setup was completed.
Snapshot == [version : 0 .. MaxVersions + 1, modules : ActiveSets \cup {NoModules}, completed : BOOLEAN]
EmptySnapshot == [version |-> 0, modules |-> NoModules, completed |-> FALSE]
\* at: where the pass is.  A refresh that is "stuck" never clears its flag.
Pass == [at : {"idle", "dashboard", "setup", "apply", "stuck"}, snapshot : Snapshot, captured : BOOLEAN]
IdlePass == [at |-> "idle", snapshot |-> EmptySnapshot, captured |-> FALSE]

\* What f is for each set of active modules.
Tabulate(f(_)) == [modules \in ActiveSets \cup {NoModules} |-> f(modules)]
Menus == Tabulate(NavigationOf)
Toolbars == Tabulate(ToolbarOf)
Routes == Tabulate(RoutesOf)
Slots == Tabulate(SlotsOf)

\* No module publishes a lane for the setup wizard: a navigation that lacks a
\* destination is a published one, and does not begin with the wizard.
ASSUME NavigationAssumption ==
    \A modules \in ActiveSets \cup {NoModules} :
        LET menu == Menus[modules]
        IN  /\ menu \in Seq(Destination) /\ menu # << >>
            /\ Head(menu) = "setup-wizard" => \A d \in Destination : Contains(menu, d)

Start(pass) == [pass EXCEPT !.at = "dashboard"]

\* The version that a view in place shows.
ContentVersion ==
    IF content.view \in DOMAIN cached THEN cached[content.view] ELSE content.version

-----------------------------------------------------------------------------
(* Taking a snapshot *)

\* The configuration file, which a stopped server leaves, then /api/dashboard.
ReadDashboard ==
    [version   |-> IF server.up THEN server.version ELSE 0,
     modules   |-> IF server.up THEN server.modules ELSE NoModules,
     completed |-> server.completed]

\* /api/setup/state, which counts when it answers.
ReadSetup(snapshot) ==
    IF server.up THEN [snapshot EXCEPT !.completed = server.completed] ELSE snapshot

\* One step of CaptureSnapshot on the background thread.
Captured(pass) ==
    IF pass.at = "dashboard"
    THEN {[at |-> "setup", snapshot |-> ReadDashboard, captured |-> TRUE]}
    ELSE {[pass EXCEPT !.at = "apply", !.snapshot = ReadSetup(@)]}
         \cup IF "capture" \in ShellFaults
              THEN {[at |-> "apply", snapshot |-> EmptySnapshot, captured |-> FALSE]} ELSE {}

-----------------------------------------------------------------------------
(* The place in the window *)

\* The view of a destination: one that is cached, or a new one, given the
\* snapshot in place.  The setup views are not cached.
ViewFor(d, snapshot) ==
    LET v == Slots[snapshot.modules][d]
    IN  [view |-> v, version |-> IF v \in SetupViews THEN snapshot.version ELSE NotMade]

CachedWith(view, snapshot) ==
    IF view \in SetupViews THEN cached
    ELSE IF cached[view] = NotMade \/ view \in isInteractiveFormSection
         THEN [cached EXCEPT ![view] = snapshot.version] ELSE cached

\* The content is replaced when the destination is a new one, the title
\* always.
SetCurrentDestination(d) ==
    /\ destination' = d /\ header' = d
    /\ IF d # destination
       THEN /\ content' = ViewFor(d, shown)
            /\ cached' = CachedWith(Slots[shown.modules][d], shown)
       ELSE UNCHANGED << content, cached >>

\* ApplySurfaceNavigation: a destination that the navigation does not have
\* becomes its first one.
ApplySurfaceNavigation(snapshot) ==
    LET menu == Menus[snapshot.modules]
    IN  IF Contains(menu, destination) THEN destination ELSE Head(menu)

\* ApplyCachedSectionSnapshots
ApplyCachedSectionSnapshots(snapshot) ==
    [v \in View \ SetupViews |->
        IF cached[v] = NotMade \/ v \in isInteractiveFormSection
        THEN cached[v] ELSE snapshot.version]

\* (mutant) The server alone knows that the setup was set aside.
RoutedByServer(d, snapshot) ==
    IF ~snapshot.completed /\ d = "overview" THEN "setup-wizard" ELSE d

\* First-run routing, to a destination that is not selected in the navigation.
RoutedTo(d, snapshot) ==
    IF ~snapshot.completed /\ d = "overview" /\ ~dismissed THEN "setup-wizard" ELSE d

\* ApplySnapshot.  The destination is assigned before SetCurrentDestination is
\* called with it, which then finds nothing to replace.
ApplySnapshot(snapshot) ==
    LET there == ApplySurfaceNavigation(snapshot)
    IN  /\ shown' = snapshot
        /\ built' = snapshot.modules
        /\ selected' = there
        /\ cached' = ApplyCachedSectionSnapshots(snapshot)
        /\ destination' = RoutedTo(there, snapshot)
        /\ header' = destination'
        /\ UNCHANGED content

\* (mutant) A live pass leaves the forms alone.
ApplyCurrentUnlessForm(snapshot) ==
    LET v == Slots[snapshot.modules][destination]
    IN  IF v \in SetupViews \cup isInteractiveFormSection \/ cached[v] = NotMade THEN cached
        ELSE [cached EXCEPT ![v] = snapshot.version]

\* ApplyCurrentSectionSnapshot: the view of the current destination, when it
\* was made.  (The telemetry view is looked up under the name of its
\* destination, and not found.)
ApplyCurrentSectionSnapshot(snapshot) ==
    LET v == Slots[snapshot.modules][destination]
    IN  IF v \in SetupViews \/ cached[v] = NotMade THEN cached
        ELSE [cached EXCEPT ![v] = snapshot.version]

-----------------------------------------------------------------------------
(* The passes *)

\* refreshInFlight_: a request that finds it set is dropped.
RefreshAsync == refresh' = IF refresh.at = "idle" THEN Start(refresh) ELSE refresh

RefreshCapture ==
    /\ refresh.at \in {"dashboard", "setup"}
    /\ refresh' \in Captured(refresh)
    /\ UNCHANGED << server, shown, destination, header, content, cached, built, selected, dismissed,
                    live, loaded, clicks >>

\* What was captured is applied, also when it is the empty snapshot of a
\* capture that threw.
RefreshApply ==
    /\ refresh.at = "apply"
    /\ ApplySnapshot(refresh.snapshot)
    /\ refresh' = IdlePass
    /\ UNCHANGED << server, dismissed, live, loaded, clicks >>

\* The window's controls throw: the flag stays set.
RefreshFails ==
    /\ "apply" \in ShellFaults /\ refresh.at = "apply"
    /\ shown' = refresh.snapshot
    /\ refresh' = [refresh EXCEPT !.at = "stuck"]
    /\ UNCHANGED << server, destination, header, content, cached, built, selected, dismissed, live,
                    loaded, clicks >>

\* RefreshLiveAsync: a tick of the timer.
LiveTick ==
    /\ loaded /\ refresh.at = "idle" /\ live.at = "idle"
    /\ live' = Start(live)
    /\ UNCHANGED << server, shown, destination, header, content, cached, built, selected, dismissed,
                    refresh, loaded, clicks >>

LiveCapture ==
    /\ live.at \in {"dashboard", "setup"}
    /\ live' \in Captured(live)
    /\ UNCHANGED << server, shown, destination, header, content, cached, built, selected, dismissed,
                    refresh, loaded, clicks >>

\* (mutant) A capture that threw leaves the flag set.
LiveFlagUnguarded(pass) == IF pass.captured THEN IdlePass ELSE [pass EXCEPT !.at = "stuck"]

\* LiveFlagGuard: the flag is cleared on every way out.
LiveFlagGuard(pass) == IdlePass

LiveApply ==
    /\ live.at = "apply"
    /\ IF live.captured
       THEN /\ shown' = live.snapshot
            /\ cached' = ApplyCurrentSectionSnapshot(live.snapshot)
       ELSE UNCHANGED << shown, cached >>
    /\ live' = LiveFlagGuard(live)
    /\ UNCHANGED << server, destination, header, content, built, selected, dismissed, refresh,
                    loaded, clicks >>

-----------------------------------------------------------------------------
(* The window and its operator *)

\* RootGrid_Loaded: the empty snapshot is applied and a refresh started.
Loaded ==
    /\ ~loaded /\ loaded' = TRUE
    /\ ApplySnapshot(EmptySnapshot)
    /\ RefreshAsync
    /\ UNCHANGED << server, dismissed, live, clicks >>

Click ==
    /\ loaded /\ clicks < MaxClicks
    /\ clicks' = clicks + 1

\* ShellNavigation_SelectionChanged: an item that is selected already tells
\* nothing.
SelectItem(d) ==
    /\ Click
    /\ d # selected /\ Contains(Menus[built], d)
    /\ selected' = d
    /\ SetCurrentDestination(d)
    /\ UNCHANGED << server, shown, built, dismissed, refresh, live, loaded >>

\* SurfaceToolbarButton_Click: the item of the button is looked up in the last
\* snapshot, and may be gone.
ClickToolbar(item) ==
    /\ Click
    /\ item \in Toolbars[shown.modules]
    /\ \E d \in ToolbarLeadsTo(Routes[shown.modules], item) : SetCurrentDestination(d)
    /\ UNCHANGED << server, shown, built, selected, dismissed, refresh, live, loaded >>

\* The buttons of the guided workflows: the destination, and its item when the
\* navigation has one.
GuidedWorkflow(workflow) ==
    LET d == StartGuidedWorkflow[workflow]
    IN  /\ SetCurrentDestination(d)
        /\ selected' = IF Contains(Menus[built], d) THEN d ELSE selected

ClickWorkflow(workflow) ==
    /\ Click
    /\ GuidedWorkflow(workflow)
    /\ UNCHANGED << server, shown, built, dismissed, refresh, live, loaded >>

\* RefreshButton, and the end of RunServiceActionAsync.
ClickRefresh ==
    /\ Click /\ RefreshAsync
    /\ UNCHANGED << server, shown, destination, header, content, cached, built, selected, dismissed,
                    live, loaded >>

\* What the server says to a call that only stores a mode or a date: the calls
\* of the setup views return before anything else runs.
Accepted == IF server.up THEN BOOLEAN ELSE {FALSE}

\* The cards of SetupWizardView: guided and import, or manual, which sets the
\* setup aside and goes on to the overview.
ClickSetupCard ==
    /\ Click /\ content.view = "SetupWizardView"
    /\ \E started \in Accepted :
       \/ /\ \E workflow \in {"new-mcp", "guided-import"} : GuidedWorkflow(workflow)
          /\ IF started THEN RefreshAsync ELSE UNCHANGED refresh
          /\ UNCHANGED dismissed
       \/ /\ \E aside \in Accepted :
              /\ dismissed' = (dismissed \/ aside)
              /\ IF started \/ aside THEN RefreshAsync ELSE UNCHANGED refresh
          /\ SetCurrentDestination("overview")
          /\ UNCHANGED selected
    /\ UNCHANGED << server, shown, built, live, loaded >>

SetAside == \E aside \in Accepted :
    /\ dismissed' = (dismissed \/ aside)
    /\ IF aside THEN RefreshAsync ELSE UNCHANGED refresh

\* "Continue Setup Later" of SetupReadinessView, which it shows until the setup
\* is completed.
ClickSetupLater ==
    /\ Click /\ content.view = "SetupReadinessView" /\ ~shown.completed
    /\ SetAside
    /\ UNCHANGED << server, shown, destination, header, content, cached, built, selected, live, loaded >>

\* "Mark Setup Complete": the server may accept it.
ClickSetupComplete ==
    /\ Click /\ content.view = "SetupReadinessView" /\ ~shown.completed
    /\ \/ server.up /\ server' = [server EXCEPT !.completed = TRUE]
       \/ UNCHANGED server
    /\ RefreshAsync
    /\ UNCHANGED << shown, destination, header, content, cached, built, selected, dismissed, live, loaded >>

\* "Fix now" of a tile of SetupReadinessView.
ClickFixNow(d) ==
    /\ Click /\ content.view = "SetupReadinessView"
    /\ SetCurrentDestination(d)
    /\ UNCHANGED << server, shown, built, selected, dismissed, refresh, live, loaded >>

-----------------------------------------------------------------------------
(* The server *)

\* Something that the dashboard shows changes, modules among it.
ServerChanges ==
    /\ server.version <= MaxVersions
    /\ \E modules \in ActiveSets :
        server' = [server EXCEPT !.version = @ + 1, !.modules = modules]
    /\ UNCHANGED << shown, destination, header, content, cached, built, selected, dismissed, refresh,
                    live, loaded, clicks >>

\* The service stops or starts; its changes are bounded with the others.
ServerStopsOrStarts ==
    /\ "offline" \in ShellFaults /\ server.version <= MaxVersions
    /\ server' = [server EXCEPT !.version = @ + 1, !.up = ~@]
    /\ UNCHANGED << shown, destination, header, content, cached, built, selected, dismissed, refresh,
                    live, loaded, clicks >>

-----------------------------------------------------------------------------
(* The specification *)

WindowInit ==
    /\ \E modules \in ActiveSets, completed \in BOOLEAN :
        server = [version |-> 1, up |-> TRUE, modules |-> modules, completed |-> completed]
    /\ shown = EmptySnapshot /\ destination = "overview" /\ header = "none"
    /\ content = NoView /\ cached = [v \in View \ SetupViews |-> NotMade]
    /\ built = NoModules /\ selected = "none" /\ dismissed = FALSE
    /\ refresh = IdlePass /\ live = IdlePass /\ loaded = FALSE /\ clicks = 0

Operator ==
    \/ \E d \in Destination : SelectItem(d)
    \/ \E item \in Toolbars[built] : ClickToolbar(item)
    \/ \E workflow \in Workflow : ClickWorkflow(workflow)
    \/ ClickRefresh \/ ClickSetupCard \/ ClickSetupLater \/ ClickSetupComplete
    \/ \E d \in {"runtime", "setup-wizard"} : ClickFixNow(d)

WindowNext ==
    \/ Loaded \/ Operator
    \/ RefreshCapture \/ RefreshApply \/ RefreshFails
    \/ LiveTick \/ LiveCapture \/ LiveApply
    \/ ServerChanges \/ ServerStopsOrStarts

\* A live capture that does not throw.
LiveCaptured == LiveCapture /\ live.at = "setup" /\ live'.captured

\* The window loads, the timer ticks, a call of the server returns or times
\* out, and not every capture throws.
WindowFairness ==
    /\ WF_winVars(Loaded) /\ WF_winVars(LiveTick)
    /\ WF_winVars(RefreshCapture) /\ WF_winVars(RefreshApply)
    /\ WF_winVars(LiveCapture) /\ WF_winVars(LiveApply) /\ SF_winVars(LiveCaptured)

WindowSpec == WindowInit /\ [][WindowNext]_winVars /\ WindowFairness
-----------------------------------------------------------------------------
(* Properties *)

\* The state of the window is well typed.
WindowTypeOK ==
    /\ server \in [version : 1 .. MaxVersions + 1, up : BOOLEAN, modules : ActiveSets, completed : BOOLEAN]
    /\ shown \in Snapshot /\ built \in ActiveSets \cup {NoModules}
    /\ destination \in Destination /\ {header, selected} \subseteq Destination \cup {"none"}
    /\ content.view \in View \cup {"none"} /\ ContentVersion \in NotMade .. MaxVersions + 1
    /\ cached \in [View \ SetupViews -> NotMade .. MaxVersions + 1]
    /\ refresh \in Pass /\ live \in Pass
    /\ loaded => header = destination
    /\ {dismissed, loaded} \subseteq BOOLEAN /\ clicks \in 0 .. MaxClicks

\* An operator who set the setup aside is not taken back to it by what the
\* server tells or by a call that fails (firstRunWizardDismissed_).
SetAsideStaysAside ==
    [][dismissed /\ destination' = "setup-wizard" /\ destination # "setup-wizard"
        => clicks' # clicks]_winVars

\* What the server has for the window in the end.
Current == IF server.up THEN server.version ELSE 0

\* While the window stands at a section, and once the server no longer changes,
\* the section comes to show what the server has, whichever passes overlapped,
\* were dropped or failed on the way: unless a refresh threw while it was
\* applied, after which no pass starts.
ContentCatchesUp ==
    <>[](content.view = Slots[shown.modules][destination] /\ content.view \notin SetupViews
            /\ refresh.at # "stuck"
         => ContentVersion = Current)

\* However the passes overlapped, the window comes to hold the server's data.
SnapshotCatchesUp == <>[](refresh.at # "stuck" => shown.version = Current)

\* What the comment in ApplySnapshot says: while the setup is not completed,
\* the window is routed to the setup wizard.
FirstRunShowsTheWizard ==
    loaded /\ destination = "setup-wizard" => content.view = "SetupWizardView"

\* A click on a command of the toolbar shows the view it leads to.
ClicksGoThere ==
    [][\A item \in Toolbars[built] : ClickToolbar(item)
        => content'.view = Slots[shown.modules][destination']]_winVars

\* What the comment in RefreshLiveAsync says: the passes do not overlap.
PassesNeverOverlap == refresh.at = "idle" \/ live.at = "idle"

\* The window never goes back to older data.
ShownNeverRunsBack == [][shown'.version >= shown.version]_winVars

\* The tables agree, whatever the server publishes.
TablesAgree == loaded \/ \A modules \in ActiveSets \cup {NoModules} : ViewTablesAgree(modules)
===============================================================================
