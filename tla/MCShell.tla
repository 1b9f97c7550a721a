------------------------------- MODULE MCShell -------------------------------
(***************************************************************************)
(* What the operator of the server sees, for TLC: the window, the modules  *)
(* whose surface it renders, and the bootstrapper that installs both.  The *)
(* window asks the server by HTTP, and sees of the modules which are       *)
(* active: ShellWindow keeps that set among what the server answers, and   *)
(* ForsettiModules how it changes.  A behaviour runs one of the three and  *)
(* leaves the others where they start: part names the one that runs.       *)
(***************************************************************************)
EXTENDS ShellWindow, ShellWire, ForsettiModules, Deployment

\* Every module, and all of them but one.
MCActive == {ModuleIds, ModuleIds \ {"installer-import"}}

VARIABLE part

mcVars == << part, winVars, forsettiVars, depVars >>

WindowStep(A) == part = "window" /\ A /\ UNCHANGED << part, forsettiVars, depVars >>
ModulesStep(A) == part = "modules" /\ A /\ UNCHANGED << part, winVars, depVars >>
BootstrapperStep(A) == part = "deployment" /\ A /\ UNCHANGED << part, winVars, forsettiVars >>

ShellInit ==
    /\ part \in {"window", "modules", "deployment"}
    /\ WindowInit /\ ForsettiInit /\ DepInit
    /\ part # "window" => server.modules = ModuleIds /\ ~server.completed

ShellNext ==
    \/ WindowStep(WindowNext)
    \/ ModulesStep(ForsettiNext)
    \/ BootstrapperStep(DepNext)

ShellFairness ==
    /\ WF_mcVars(WindowStep(Loaded)) /\ WF_mcVars(WindowStep(LiveTick))
    /\ WF_mcVars(WindowStep(RefreshCapture)) /\ WF_mcVars(WindowStep(RefreshApply))
    /\ WF_mcVars(WindowStep(LiveCapture)) /\ WF_mcVars(WindowStep(LiveApply))
    /\ SF_mcVars(WindowStep(LiveCaptured))

ShellSpec == ShellInit /\ [][ShellNext]_mcVars /\ ShellFairness

-----------------------------------------------------------------------------
(* Properties *)

\* The state is well typed; and before the window has loaded, when the tables
\* alone are looked at, the views, the commands and the calls of the window
\* agree with what the server publishes and answers.
ShellTypes ==
    /\ part = "window" => WindowTypeOK /\ (~loaded => TablesAgree /\ WireAgrees)
    /\ part = "modules" => ForsettiTypeOK
    /\ part = "deployment" => DepTypeOK

\* However the passes of the window overlap, what it holds and what the section
\* shows catch up with the server.
WindowCatchesUp == part = "window" => ContentCatchesUp /\ SnapshotCatchesUp

\* Once no change is under way, the tools, the gateways and the dashboard are
\* those of the active modules, and a protected module stays active.
ModulesAreInForce ==
    part = "modules" => RegistrationsFollowModules /\ SurfaceFollowsModules /\ ProtectedModulesRun

\* A failed upgrade leaves an installation that works, the previous one or the
\* new one, and a rollback that says restored has restored.
InstallsRecover == []PreviousInstallRecoverable /\ RestoredMeansRestored
==============================================================================
