------------------------------ MODULE ShellProofs ------------------------------
(***************************************************************************)
(* What the operator of the server sees, for every value of the constants: *)
(* the bootstrapper, the modules and the window.                           *)
(***************************************************************************)
EXTENDS MCShell, FiniteSetTheorems, FunctionTheorems, SequenceTheorems, TLAPS

-----------------------------------------------------------------------------
(* The bootstrapper *)

\* The steps of installLike and of its rollback.
Working == {"capture", "stop", "stage", "configure", "firewall", "shortcuts", "entry",
            "service", "start", "validate", "commit", "undoService", "undoFiles",
            "undoIntegrations"}

\* While a repair or an upgrade works, its snapshot is the installation it began
\* with, which may be none; before the snapshot is taken, the directory is; and
\* once the directory is restored, it is the snapshot.
SnapshotKept ==
    /\ At("capture") => job.mode \in {"repair", "upgrade"} /\ installDir = before
    /\ job.pc \in {"removeService", "removeRest", "purge", "purgeLogs"} => job.mode = "uninstall"
    /\ job.mode \in {"repair", "upgrade"} /\ job.pc \in Working \ {"capture"} =>
        snapshot = before
    /\ job.pc \in {"undoFiles", "undoIntegrations"} => job.undo
    /\ At("undoIntegrations") => installDir = snapshot
    /\ ~At("idle") => job.outcome = "none"

DepInv == DepTypeOK /\ PreviousInstallRecoverable /\ SnapshotKept


\* What a step leaves of a run that goes on, or ends.
Moves(pcs) == job'.pc \in pcs /\ job'.outcome = job.outcome /\ job'.undo = job.undo
Ends(outcomes) == job'.pc = "idle" /\ job'.outcome \in outcomes /\ job'.undo = job.undo
OfRun == job' \in Job /\ job'.mode = job.mode /\ job'.managed = job.managed

\* A run goes on with another step, or it ends.
LEMMA RunGoesOn ==
    ASSUME job \in Job, NEW pc \in Steps, job' = [job EXCEPT !.pc = pc], NEW pcs, pc \in pcs
    PROVE  OfRun /\ Moves(pcs)
  BY DEF OfRun, Moves, Job

LEMMA RunEnds ==
    ASSUME job \in Job, NEW outcome \in Outcomes, EndJob(outcome), NEW outcomes, outcome \in outcomes
    PROVE  OfRun /\ Ends(outcomes) /\ logs' \in BOOLEAN
<1>1. job' = [job EXCEPT !.pc = "idle", !.outcome = outcome] /\ "idle" \in Steps
  BY DEF EndJob, Steps
<1>2. logs' \in BOOLEAN
  BY DEF EndJob
<1> QED BY <1>1, <1>2 DEF OfRun, Ends, Job

\* What a step makes of the install directory.
LEMMA Directories ==
    /\ NoState \in [present : BOOLEAN, managed : SUBSET Integrations]
    /\ Empty \in Directory
    /\ [files |-> Mixed, state |-> NoState] \in Directory
    /\ \A d \in Directory, n \in 0 .. Mixed, ms \in SUBSET Integrations :
        /\ d.state.present \in BOOLEAN
        /\ [d EXCEPT !.files = n] \in Directory
        /\ [d EXCEPT !.state = NoState] \in Directory
        /\ [d EXCEPT !.state = State(ms)] \in Directory
<1>1. Mixed \in Nat /\ 0 \in 0 .. Mixed /\ Mixed \in 0 .. Mixed
  BY DeploymentAssumption DEF Mixed
<1>2. NoState \in [present : BOOLEAN, managed : SUBSET Integrations]
  BY DEF NoState
<1>3. Empty \in Directory /\ [files |-> Mixed, state |-> NoState] \in Directory
  BY <1>1, <1>2 DEF Empty, Directory
<1>4. ASSUME NEW ms \in SUBSET Integrations
      PROVE  State(ms) \in [present : BOOLEAN, managed : SUBSET Integrations]
  BY DEF State
<1>5. ASSUME NEW d \in Directory, NEW n \in 0 .. Mixed, NEW ms \in SUBSET Integrations
      PROVE  /\ d.state.present \in BOOLEAN
             /\ [d EXCEPT !.files = n] \in Directory
             /\ [d EXCEPT !.state = NoState] \in Directory
             /\ [d EXCEPT !.state = State(ms)] \in Directory
  BY <1>2, <1>4 DEF Directory
<1> QED
  BY <1>2, <1>3, <1>5

LEMMA DepInvInitially == DepInit => DepInv
<1> SUFFICES ASSUME DepInit PROVE DepInv
  OBVIOUS
<1>1. NoJob \in Job /\ NoJob.mode = "install" /\ NoJob.pc = "idle" /\ ~NoJob.undo
  BY DEF NoJob, Job, Steps, Outcomes
<1>2. DepTypeOK
  <2>1. 0 \in 0 .. MaxJobs
    BY DeploymentAssumption
  <2> QED
    BY <1>1, <2>1, Directories DEF DepInit, DepTypeOK
<1>3. PreviousInstallRecoverable /\ SnapshotKept
  BY <1>1 DEF DepInit, PreviousInstallRecoverable, SnapshotKept, At, Working
<1> QED
  BY <1>2, <1>3 DEF DepInv

\* The start of a run.
LEMMA DepLaunches ==
    ASSUME DepInv, NEW mode \in {"install", "repair", "upgrade", "uninstall"},
           NEW managed \in SUBSET Integrations, NEW self \in BOOLEAN,
           Launch(mode, managed, self), setup' \in {setup, "waiting"}
    PROVE  DepInv'
<1>1. /\ job' \in Job /\ job'.mode = mode /\ ~job'.undo /\ job'.outcome = "none"
      /\ job'.pc = IF mode = "uninstall" THEN "removeService"
                   ELSE IF Snapshots(mode, installDir) THEN "capture" ELSE "stop"
  BY DEF Launch, NoJob, Job, Steps, Outcomes
<1>2. jobs' \in 0 .. MaxJobs
  BY DeploymentAssumption DEF Launch, DepInv, DepTypeOK
<1>3. snapshot' = Empty /\ before' = installDir /\ installDir' = installDir
  BY DEF Launch
<1>4. DepTypeOK'
  BY <1>1, <1>2, <1>3, Directories DEF Launch, DepInv, DepTypeOK
<1>5. PreviousInstallRecoverable'
  BY <1>1, <1>3 DEF PreviousInstallRecoverable
<1>6. SnapshotKept'
  BY <1>1, <1>3 DEF Snapshots, SnapshotKept, At, Working
<1> QED
  BY <1>4, <1>5, <1>6 DEF DepInv

LEMMA DepInvKept == DepInv /\ [DepNext]_depVars => DepInv'
<1> SUFFICES ASSUME DepInv, [DepNext]_depVars PROVE DepInv'
  OBVIOUS
<1> USE DEF At, Goto
<1>1. ASSUME NEW mode \in Modes, NEW managed \in Selections, NEW self \in BOOLEAN,
             BeginRun(mode, managed, self)
      PROVE  DepInv'
  BY <1>1, DepLaunches, DeploymentAssumption DEF BeginRun
<1>2. ASSUME NEW managed \in Selections, SetupStarts(managed)
      PROVE  DepInv'
  BY <1>2, DepLaunches, DeploymentAssumption DEF SetupStarts
<1>3. CASE Capture
  <2>1. /\ OfRun
        /\ Ends({"failed", "threw"}) \/ (job'.pc = "stop" /\ job'.outcome = job.outcome /\ snapshot' = installDir)
    BY <1>3 DEF Capture, EndJob, OfRun, Moves, Ends, Job, Steps, Outcomes, DepInv, DepTypeOK
  <2>2. DepTypeOK'
    <3>1. installDir' \in Directory /\ snapshot' \in Directory
      BY <1>3, Directories, DeploymentAssumption DEF Capture, EndJob, DepInv, DepTypeOK, Directory, Job, Mixed
    <3> QED
      BY <1>3, <2>1, <3>1 DEF Capture, EndJob, OfRun, Ends, DepInv, DepTypeOK, SnapshotKept
  <2>3. SnapshotKept'
    BY <1>3, <2>1 DEF Capture, EndJob, OfRun, Moves, Ends, Working, DepInv, SnapshotKept
  <2>4. PreviousInstallRecoverable'
    BY <1>3, <2>1 DEF Capture, EndJob, OfRun, Moves, Ends, Working, DepInv, SnapshotKept, PreviousInstallRecoverable
  <2> QED
    BY <2>2, <2>3, <2>4 DEF DepInv
<1>4. CASE StopService
  <2>1. OfRun /\ Moves({"stage"})
    BY <1>4 DEF StopService, Manages, OfRun, Moves, Ends, Job, Steps, Outcomes, DepInv, DepTypeOK
  <2>2. DepTypeOK'
    BY <1>4, <2>1, Directories DEF StopService, Manages, OfRun, Moves, Ends, Integrations, DepInv, DepTypeOK
  <2>3. SnapshotKept'
    BY <1>4, <2>1 DEF StopService, Manages, OfRun, Moves, Ends, Working, DepInv, SnapshotKept
  <2>4. PreviousInstallRecoverable'
    BY <1>4, <2>1 DEF StopService, Manages, OfRun, Moves, Ends, Working, DepInv, SnapshotKept, PreviousInstallRecoverable
  <2> QED
    BY <2>2, <2>3, <2>4 DEF DepInv
<1>5. CASE StagePayload
  <2>1. /\ OfRun
        /\ Moves({"configure"}) \/ Ends({"threw"})
    BY <1>5 DEF StagePayload, EndJob, OfRun, Moves, Ends, Job, Steps, Outcomes, DepInv, DepTypeOK
  <2>2. DepTypeOK'
    <3>1. installDir' \in Directory /\ snapshot' \in Directory
      BY <1>5, Directories, DeploymentAssumption DEF StagePayload, EndJob, DepInv, DepTypeOK, Directory, Job, Mixed
    <3> QED
      BY <1>5, <2>1, <3>1 DEF StagePayload, EndJob, OfRun, Moves, Ends, Integrations, DepInv, DepTypeOK
  <2>3. SnapshotKept'
    BY <1>5, <2>1 DEF StagePayload, EndJob, OfRun, Moves, Ends, Working, DepInv, SnapshotKept
  <2>4. PreviousInstallRecoverable'
    BY <1>5, <2>1 DEF StagePayload, EndJob, OfRun, Moves, Ends, Working, DepInv, SnapshotKept, PreviousInstallRecoverable
  <2> QED
    BY <2>2, <2>3, <2>4 DEF DepInv
<1>6. CASE Configure
  <2>1. OfRun /\ logs' \in BOOLEAN
    <3>1. CASE config = "torn"
      <4>1. EndJob("threw") /\ job \in Job /\ "threw" \in Outcomes
        BY <1>6, <3>1 DEF Configure, Outcomes, DepInv, DepTypeOK
      <4> QED BY <4>1, RunEnds
    <3>2. CASE config # "torn"
      BY <1>6, <3>2 DEF Configure, OfRun, Job, Steps, DepInv, DepTypeOK
    <3> QED
      BY <3>1, <3>2
  <2>2. Moves({"firewall", "undoService"}) \/ Ends({"threw"})
    BY <1>6 DEF Configure, EndJob, Moves, Ends, Job, DepInv, DepTypeOK
  <2>3. installDir' \in Directory
    <3>1. installDir \in Directory /\ job.managed \in SUBSET Integrations /\ Mixed \in 0 .. Mixed
      BY DeploymentAssumption DEF DepInv, DepTypeOK, Job, Mixed
    <3>2. installDir' \in {installDir, [installDir EXCEPT !.state = State(job.managed)],
                          [installDir EXCEPT !.state = NoState]}
      BY <1>6 DEF Configure, NewState
    <3>3. /\ [installDir EXCEPT !.state = State(job.managed)] \in Directory
          /\ [installDir EXCEPT !.state = NoState] \in Directory
      BY <3>1, Directories
    <3> QED
      BY <3>1, <3>2, <3>3
  <2>4. DepTypeOK'
    <3>1. config' \in {"none", "whole", "torn"}
      BY <1>6 DEF Configure, DepInv, DepTypeOK
    <3>2. UNCHANGED << snapshot, before, present, running, setup, jobs >> /\ job'.undo = job.undo
      BY <1>6, <2>2 DEF Configure, Moves, Ends
    <3> QED
      BY <2>1, <2>3, <3>1, <3>2 DEF OfRun, DepInv, DepTypeOK
  <2>5. SnapshotKept'
    BY <1>6, <2>1, <2>2 DEF Configure, OfRun, Moves, Ends, Working, DepInv, SnapshotKept
  <2>6. PreviousInstallRecoverable'
    BY <1>6, <2>1, <2>2 DEF Configure, OfRun, Moves, Ends, Working, DepInv, SnapshotKept, PreviousInstallRecoverable
  <2> QED
    BY <2>4, <2>5, <2>6 DEF DepInv
<1>7. CASE ConfigureFirewall
  <2>1. OfRun /\ Moves({"shortcuts", "undoService"})
    BY <1>7 DEF ConfigureFirewall, Integrate, Manages, OfRun, Moves, Ends, Job, Steps, Outcomes, DepInv, DepTypeOK
  <2>2. DepTypeOK'
    BY <1>7, <2>1, Directories DEF ConfigureFirewall, Integrate, Manages, OfRun, Moves, Ends, Integrations, DepInv, DepTypeOK
  <2>3. SnapshotKept'
    BY <1>7, <2>1 DEF ConfigureFirewall, Integrate, Manages, OfRun, Moves, Ends, Working, DepInv, SnapshotKept
  <2>4. PreviousInstallRecoverable'
    BY <1>7, <2>1 DEF ConfigureFirewall, Integrate, Manages, OfRun, Moves, Ends, Working, DepInv, SnapshotKept, PreviousInstallRecoverable
  <2> QED
    BY <2>2, <2>3, <2>4 DEF DepInv
<1>8. CASE ConfigureShortcuts
  <2>1. /\ OfRun
        /\ Moves({"entry", "undoService"}) \/ Ends({"threw"})
    <3>1. job \in Job /\ "entry" \in Steps /\ "undoService" \in Steps /\ "threw" \in Outcomes
      BY DEF Steps, Outcomes, DepInv, DepTypeOK
    <3>2. \/ job' = [job EXCEPT !.pc = "entry"] \/ job' = [job EXCEPT !.pc = "undoService"]
          \/ EndJob("threw")
      BY <1>8 DEF ConfigureShortcuts, Integrate, Goto
    <3> QED BY <3>1, <3>2, RunGoesOn, RunEnds
  <2>2. DepTypeOK'
    BY <1>8, <2>1, Directories DEF ConfigureShortcuts, Integrate, machine, EndJob, Manages, OfRun, Moves, Ends, Integrations, DepInv, DepTypeOK
  <2>3. SnapshotKept'
    BY <1>8, <2>1 DEF ConfigureShortcuts, Integrate, machine, EndJob, Manages, OfRun, Moves, Ends, Working, DepInv, SnapshotKept
  <2>4. PreviousInstallRecoverable'
    BY <1>8, <2>1 DEF ConfigureShortcuts, Integrate, machine, EndJob, Manages, OfRun, Moves, Ends, Working, DepInv, SnapshotKept, PreviousInstallRecoverable
  <2> QED
    BY <2>2, <2>3, <2>4 DEF DepInv
<1>9. CASE RegisterEntry
  <2>1. OfRun /\ Moves({"service", "undoService"})
    BY <1>9 DEF RegisterEntry, Manages, OfRun, Moves, Ends, Job, Steps, Outcomes, DepInv, DepTypeOK
  <2>2. DepTypeOK'
    BY <1>9, <2>1, Directories DEF RegisterEntry, Manages, OfRun, Moves, Ends, Integrations, DepInv, DepTypeOK
  <2>3. SnapshotKept'
    BY <1>9, <2>1 DEF RegisterEntry, Manages, OfRun, Moves, Ends, Working, DepInv, SnapshotKept
  <2>4. PreviousInstallRecoverable'
    BY <1>9, <2>1 DEF RegisterEntry, Manages, OfRun, Moves, Ends, Working, DepInv, SnapshotKept, PreviousInstallRecoverable
  <2> QED
    BY <2>2, <2>3, <2>4 DEF DepInv
<1>10. CASE InstallService
  <2>1. OfRun /\ Moves({"start", "validate", "undoService"})
    BY <1>10 DEF InstallService, Manages, OfRun, Moves, Ends, Job, Steps, Outcomes, DepInv, DepTypeOK
  <2>2. DepTypeOK'
    BY <1>10, <2>1, Directories DEF InstallService, Manages, OfRun, Moves, Ends, Integrations, DepInv, DepTypeOK
  <2>3. SnapshotKept'
    BY <1>10, <2>1 DEF InstallService, Manages, OfRun, Moves, Ends, Working, DepInv, SnapshotKept
  <2>4. PreviousInstallRecoverable'
    BY <1>10, <2>1 DEF InstallService, Manages, OfRun, Moves, Ends, Working, DepInv, SnapshotKept, PreviousInstallRecoverable
  <2> QED
    BY <2>2, <2>3, <2>4 DEF DepInv
<1>11. CASE StartService
  <2>1. OfRun /\ Moves({"validate", "undoService"})
    BY <1>11 DEF StartService, Manages, OfRun, Moves, Ends, Job, Steps, Outcomes, DepInv, DepTypeOK
  <2>2. DepTypeOK'
    BY <1>11, <2>1, Directories DEF StartService, Manages, OfRun, Moves, Ends, Integrations, DepInv, DepTypeOK
  <2>3. SnapshotKept'
    BY <1>11, <2>1 DEF StartService, Manages, OfRun, Moves, Ends, Working, DepInv, SnapshotKept
  <2>4. PreviousInstallRecoverable'
    BY <1>11, <2>1 DEF StartService, Manages, OfRun, Moves, Ends, Working, DepInv, SnapshotKept, PreviousInstallRecoverable
  <2> QED
    BY <2>2, <2>3, <2>4 DEF DepInv
<1>12. CASE Validate
  <2>1. OfRun /\ Moves({"commit", "undoService"})
    BY <1>12 DEF Validate, machine, OfRun, Moves, Ends, Job, Steps, Outcomes, DepInv, DepTypeOK
  <2>2. DepTypeOK'
    BY <1>12, <2>1, Directories DEF Validate, machine, OfRun, Moves, Ends, Integrations, DepInv, DepTypeOK
  <2>3. SnapshotKept'
    BY <1>12, <2>1 DEF Validate, machine, OfRun, Moves, Ends, Working, DepInv, SnapshotKept
  <2>4. PreviousInstallRecoverable'
    BY <1>12, <2>1 DEF Validate, machine, OfRun, Moves, Ends, Working, DepInv, SnapshotKept, PreviousInstallRecoverable
  <2> QED
    BY <2>2, <2>3, <2>4 DEF DepInv
<1>13. CASE Commit
  <2>1. OfRun /\ Ends({"ok"})
    BY <1>13 DEF Commit, EndJob, OfRun, Moves, Ends, Job, Steps, Outcomes, DepInv, DepTypeOK
  <2>2. DepTypeOK'
    BY <1>13, <2>1, Directories DEF Commit, EndJob, OfRun, Moves, Ends, Integrations, DepInv, DepTypeOK
  <2>3. SnapshotKept'
    BY <1>13, <2>1 DEF Commit, EndJob, OfRun, Moves, Ends, Working, DepInv, SnapshotKept
  <2>4. PreviousInstallRecoverable'
    BY <1>13, <2>1 DEF Commit, EndJob, OfRun, Moves, Ends, Working, DepInv, SnapshotKept, PreviousInstallRecoverable
  <2> QED
    BY <2>2, <2>3, <2>4 DEF DepInv
<1>14. CASE Cleanup
  <2>1. OfRun /\ Ends({"failed"})
    BY <1>14 DEF Cleanup, EndJob, Manages, OfRun, Moves, Ends, Job, Steps, Outcomes, DepInv, DepTypeOK
  <2>2. DepTypeOK'
    BY <1>14, <2>1, Directories DEF Cleanup, EndJob, Manages, OfRun, Moves, Ends, Integrations, DepInv, DepTypeOK
  <2>3. SnapshotKept'
    BY <1>14, <2>1 DEF Cleanup, EndJob, Manages, OfRun, Moves, Ends, Working, DepInv, SnapshotKept
  <2>4. PreviousInstallRecoverable'
    BY <1>14, <2>1 DEF Cleanup, EndJob, Manages, OfRun, Moves, Ends, Working, DepInv, SnapshotKept, PreviousInstallRecoverable
  <2> QED
    BY <2>2, <2>3, <2>4 DEF DepInv
<1>15. CASE UndoService
  <2>1. OfRun /\ Moves({"undoFiles"})
    <3>1. job \in Job /\ "undoFiles" \in Steps
      BY DEF Steps, DepInv, DepTypeOK
    <3>2. \/ job' = [job EXCEPT !.pc = "undoFiles"]
          \/ job' = [job EXCEPT !.pc = "undoFiles", !.clean = FALSE]
      BY <1>15 DEF UndoService, Goto
    <3>3. CASE job' = [job EXCEPT !.pc = "undoFiles", !.clean = FALSE]
      BY <3>1, <3>3 DEF OfRun, Moves, Job
    <3> QED BY <3>1, <3>2, <3>3, RunGoesOn
  <2>2. DepTypeOK'
    BY <1>15, <2>1, Directories DEF UndoService, Manages, OfRun, Moves, Ends, Integrations, DepInv, DepTypeOK
  <2>3. SnapshotKept'
    BY <1>15, <2>1 DEF UndoService, Manages, OfRun, Moves, Ends, Working, DepInv, SnapshotKept
  <2>4. PreviousInstallRecoverable'
    BY <1>15, <2>1 DEF UndoService, Manages, OfRun, Moves, Ends, Working, DepInv, SnapshotKept, PreviousInstallRecoverable
  <2> QED
    BY <2>2, <2>3, <2>4 DEF DepInv
<1>16. CASE UndoFiles
  <2>1. CASE installDir' = snapshot /\ snapshot.state.present /\ Goto("undoIntegrations") /\ UNCHANGED logs
    <3>1. OfRun /\ Moves({"undoIntegrations"})
      BY <2>1 DEF OfRun, Moves, Job, Steps, Outcomes, DepInv, DepTypeOK
    <3>2. SnapshotKept'
      BY <1>16, <2>1, <3>1 DEF UndoFiles, OfRun, Moves, Working, DepInv, SnapshotKept
    <3>3. PreviousInstallRecoverable'
      BY <1>16, <2>1, <3>1 DEF UndoFiles, OfRun, Moves, Working, DepInv, SnapshotKept, PreviousInstallRecoverable
    <3>4. DepTypeOK'
      BY <1>16, <2>1, <3>1 DEF UndoFiles, OfRun, Moves, DepInv, DepTypeOK
    <3> QED
      BY <3>2, <3>3, <3>4 DEF DepInv
  <2>2. CASE installDir' = snapshot /\ EndJob("failed")
    <3>1. OfRun /\ Ends({"failed"})
      BY <2>2 DEF EndJob, OfRun, Ends, Job, Steps, Outcomes, DepInv, DepTypeOK
    <3>2. SnapshotKept'
      BY <1>16, <2>2, <3>1 DEF UndoFiles, OfRun, Ends, Working, DepInv, SnapshotKept
    <3>3. PreviousInstallRecoverable'
      BY <1>16, <2>2, <3>1 DEF UndoFiles, OfRun, Ends, Working, DepInv, SnapshotKept, PreviousInstallRecoverable
    <3>4. DepTypeOK'
      BY <1>16, <2>2, <3>1 DEF UndoFiles, EndJob, OfRun, Ends, DepInv, DepTypeOK
    <3> QED
      BY <3>2, <3>3, <3>4 DEF DepInv
  <2>3. CASE installDir' = [files |-> Mixed, state |-> NoState] /\ EndJob("threw")
    <3>1. OfRun /\ Ends({"threw"})
      BY <2>3 DEF EndJob, OfRun, Ends, Job, Steps, Outcomes, DepInv, DepTypeOK
    <3>2. SnapshotKept'
      BY <1>16, <2>3, <3>1 DEF UndoFiles, OfRun, Ends, Working, DepInv, SnapshotKept
    <3>3. PreviousInstallRecoverable'
      BY <1>16, <2>3, <3>1 DEF UndoFiles, OfRun, Ends, Working, DepInv, SnapshotKept, PreviousInstallRecoverable
    <3>4. DepTypeOK'
      BY <1>16, <2>3, <3>1, Directories DEF UndoFiles, EndJob, OfRun, Ends, DepInv, DepTypeOK
    <3> QED
      BY <3>2, <3>3, <3>4 DEF DepInv
  <2> QED
    BY <1>16, <2>1, <2>2, <2>3 DEF UndoFiles
<1>17. CASE UndoIntegrations
  <2>1. OfRun /\ Ends({"restored", "failed"})
    BY <1>17 DEF UndoIntegrations, Restored, EndJob, OfRun, Moves, Ends, Job, Steps, Outcomes, DepInv, DepTypeOK
  <2>2. DepTypeOK'
    <3>1. job.managed \subseteq Integrations /\ installDir.state.managed \subseteq Integrations
      BY DEF DepInv, DepTypeOK, Job, Directory
    <3>2. present' \subseteq Integrations
      BY <1>17, <3>1 DEF UndoIntegrations, Integrations, DepInv, DepTypeOK
    <3>3. running' \in BOOLEAN /\ logs' \in BOOLEAN
      <4>1. running \in BOOLEAN
        BY DEF DepInv, DepTypeOK
      <4>2. logs' \in BOOLEAN
        BY <1>17 DEF UndoIntegrations, EndJob
      <4>3. CASE "service" \in installDir.state.managed
        <5>1. ("service" \in installDir.state.managed) = TRUE
          BY <4>3
        <5> QED
          BY <1>17, <4>1, <4>2, <5>1 DEF UndoIntegrations
      <4>4. CASE "service" \notin installDir.state.managed
        <5>1. ("service" \in installDir.state.managed) = FALSE
          BY <4>4
        <5> QED
          BY <1>17, <4>1, <4>2, <5>1 DEF UndoIntegrations
      <4> QED
        BY <4>3, <4>4
    <3>4. snapshot' \in Directory
      BY <1>17, Directories DEF UndoIntegrations, DepInv, DepTypeOK
    <3>5. UNCHANGED << installDir, config, before, setup, jobs >> /\ job'.undo = job.undo
      BY <1>17, <2>1 DEF UndoIntegrations, Ends
    <3> QED
      BY <2>1, <3>2, <3>3, <3>4, <3>5 DEF OfRun, DepInv, DepTypeOK
  <2>3. SnapshotKept'
    BY <1>17, <2>1 DEF UndoIntegrations, Restored, EndJob, OfRun, Moves, Ends, Working, DepInv, SnapshotKept
  <2>4. PreviousInstallRecoverable'
    BY <1>17, <2>1 DEF UndoIntegrations, Restored, EndJob, OfRun, Moves, Ends, Working, DepInv, SnapshotKept, PreviousInstallRecoverable
  <2> QED
    BY <2>2, <2>3, <2>4 DEF DepInv
<1>18. CASE RemoveService
  <2>1. /\ OfRun
        /\ Moves({"removeRest"}) \/ Ends({"threw"})
    <3>1. job \in Job /\ "removeRest" \in Steps /\ "threw" \in Outcomes
      BY DEF Steps, Outcomes, DepInv, DepTypeOK
    <3>2. EndJob("threw") \/ job' = [job EXCEPT !.pc = "removeRest"]
      BY <1>18 DEF RemoveService, Goto
    <3> QED BY <3>1, <3>2, RunGoesOn, RunEnds
  <2>2. DepTypeOK'
    BY <1>18, <2>1, Directories DEF RemoveService, Manages, EndJob, OfRun, Moves, Ends, Integrations, DepInv, DepTypeOK
  <2>3. SnapshotKept'
    BY <1>18, <2>1 DEF RemoveService, Manages, EndJob, OfRun, Moves, Ends, Working, DepInv, SnapshotKept
  <2>4. PreviousInstallRecoverable'
    BY <1>18, <2>1 DEF RemoveService, Manages, EndJob, OfRun, Moves, Ends, Working, DepInv, SnapshotKept, PreviousInstallRecoverable
  <2> QED
    BY <2>2, <2>3, <2>4 DEF DepInv
<1>19. CASE RemoveRest
  <2>1. OfRun /\ Moves({"purge"})
    BY <1>19 DEF RemoveRest, OfRun, Moves, Ends, Job, Steps, Outcomes, DepInv, DepTypeOK
  <2>2. DepTypeOK'
    <3>1. installDir' \in Directory /\ snapshot' \in Directory
      BY <1>19, Directories, DeploymentAssumption DEF RemoveRest, DepInv, DepTypeOK, Directory, Job, Mixed
    <3> QED
      BY <1>19, <2>1, <3>1 DEF RemoveRest, OfRun, Moves, Ends, Integrations, DepInv, DepTypeOK
  <2>3. SnapshotKept'
    BY <1>19, <2>1 DEF RemoveRest, OfRun, Moves, Ends, Working, DepInv, SnapshotKept
  <2>4. PreviousInstallRecoverable'
    BY <1>19, <2>1 DEF RemoveRest, OfRun, Moves, Ends, Working, DepInv, SnapshotKept, PreviousInstallRecoverable
  <2> QED
    BY <2>2, <2>3, <2>4 DEF DepInv
<1>20. CASE PurgeDirectory
  <2>1. /\ OfRun
        /\ Moves({"purgeLogs"}) \/ Ends({"failed"})
    BY <1>20 DEF PurgeDirectory, EndJob, OfRun, Moves, Ends, Job, Steps, Outcomes, DepInv, DepTypeOK
  <2>2. DepTypeOK'
    BY <1>20, <2>1, Directories DEF PurgeDirectory, EndJob, OfRun, Moves, Ends, Integrations, DepInv, DepTypeOK
  <2>3. SnapshotKept'
    BY <1>20, <2>1 DEF PurgeDirectory, EndJob, OfRun, Moves, Ends, Working, DepInv, SnapshotKept
  <2>4. PreviousInstallRecoverable'
    BY <1>20, <2>1 DEF PurgeDirectory, EndJob, OfRun, Moves, Ends, Working, DepInv, SnapshotKept, PreviousInstallRecoverable
  <2> QED
    BY <2>2, <2>3, <2>4 DEF DepInv
<1>21. CASE PurgeLogs
  <2>1. OfRun /\ Ends({"ok"})
    BY <1>21 DEF PurgeLogs, machine, OfRun, Moves, Ends, Job, Steps, Outcomes, DepInv, DepTypeOK
  <2>2. DepTypeOK'
    BY <1>21, <2>1, Directories DEF PurgeLogs, machine, OfRun, Moves, Ends, Integrations, DepInv, DepTypeOK
  <2>3. SnapshotKept'
    BY <1>21, <2>1 DEF PurgeLogs, machine, OfRun, Moves, Ends, Working, DepInv, SnapshotKept
  <2>4. PreviousInstallRecoverable'
    BY <1>21, <2>1 DEF PurgeLogs, machine, OfRun, Moves, Ends, Working, DepInv, SnapshotKept, PreviousInstallRecoverable
  <2> QED
    BY <2>2, <2>3, <2>4 DEF DepInv
<1>22. CASE SetupEnds
  BY <1>22 DEF SetupEnds, Verdict, machine, DepInv, DepTypeOK, SnapshotKept, PreviousInstallRecoverable
<1>23. CASE Kill
  <2>1. OfRun /\ Ends({"killed"})
    BY <1>23 DEF Kill, OfRun, Moves, Ends, Job, Steps, Outcomes, DepInv, DepTypeOK
  <2>2. DepTypeOK'
    <3>1. installDir' \in Directory /\ snapshot' \in Directory
      BY <1>23, Directories, DeploymentAssumption DEF Kill, DepInv, DepTypeOK, Directory, Job, Mixed
    <3> QED
      BY <1>23, <2>1, <3>1 DEF Kill, OfRun, Moves, Ends, Integrations, DepInv, DepTypeOK
  <2>3. SnapshotKept'
    BY <1>23, <2>1 DEF Kill, OfRun, Moves, Ends, Working, DepInv, SnapshotKept
  <2>4. PreviousInstallRecoverable'
    BY <1>23, <2>1 DEF Kill, OfRun, Moves, Ends, Working, DepInv, SnapshotKept, PreviousInstallRecoverable
  <2> QED
    BY <2>2, <2>3, <2>4 DEF DepInv
<1>24. CASE TearConfig
  BY <1>24 DEF TearConfig, DepInv, DepTypeOK, SnapshotKept, PreviousInstallRecoverable
<1>25. CASE UNCHANGED depVars
  BY <1>25 DEF depVars, DepInv, DepTypeOK, SnapshotKept, PreviousInstallRecoverable
<1> QED
  BY <1>1, <1>2, <1>3, <1>4, <1>5, <1>6, <1>7, <1>8, <1>9, <1>10, <1>11, <1>12, <1>13, <1>14, <1>15, <1>16, <1>17, <1>18, <1>19, <1>20, <1>21, <1>22, <1>23, <1>24, <1>25
     DEF DepNext, Forward, Undo, Uninstall

\* Only the last step of a rollback says restored, and then every step of the
\* rollback has succeeded.
LEMMA RestoredSteps ==
    DepInv /\ [DepNext]_depVars =>
        [ job.outcome = "none" /\ job'.outcome = "restored" =>
            /\ installDir' = before
            /\ before.state.managed \subseteq present'
            /\ "service" \in before.state.managed => running' ]_depVars
<1> SUFFICES ASSUME DepInv, DepNext, job.outcome = "none", job'.outcome = "restored"
             PROVE  /\ installDir' = before
                    /\ before.state.managed \subseteq present'
                    /\ "service" \in before.state.managed => running'
  OBVIOUS
<1>1. job \in Job
  BY DEF DepInv, DepTypeOK
<1>2. UndoIntegrations
  <2>1. ~\E mode \in Modes, managed \in Selections, self \in BOOLEAN : BeginRun(mode, managed, self)
    BY DEF BeginRun, Launch, NoJob
  <2>2. ~\E managed \in Selections : SetupStarts(managed)
    BY DEF SetupStarts, Launch, NoJob
  <2>3. ~Forward
    BY <1>1 DEF Forward, Capture, StopService, StagePayload, Configure, ConfigureFirewall,
       ConfigureShortcuts, RegisterEntry, InstallService, StartService, Validate, Commit,
       Integrate, EndJob, Goto, Job
  <2>4. ~Cleanup /\ ~UndoService /\ ~UndoFiles
    BY <1>1 DEF Cleanup, UndoService, UndoFiles, EndJob, Goto, Job
  <2>5. ~Uninstall
    BY <1>1 DEF Uninstall, RemoveService, RemoveRest, PurgeDirectory, PurgeLogs, EndJob, Goto, Job
  <2>6. ~SetupEnds /\ ~Kill /\ ~TearConfig
    BY <1>1 DEF SetupEnds, Kill, TearConfig, Job
  <2> QED
    BY <2>1, <2>2, <2>3, <2>4, <2>5, <2>6 DEF DepNext, Undo
<1>3. job.mode \in {"repair", "upgrade"} /\ installDir = before
  BY <1>2 DEF UndoIntegrations, DepInv, DepTypeOK, SnapshotKept, At, Working
<1> DEFINE want == installDir.state.managed
           touched == job.managed \cup want
<1>4. PICK failed \in SUBSET (touched \cap (want \cup {"service", "entry"})),
           gone \in SUBSET {"service", "entry"} :
        /\ present' = (present \ touched) \cup (want \ failed) \cup gone
        /\ running' \in IF "service" \notin touched THEN {running}
                        ELSE IF "service" \in failed THEN {running, FALSE}
                        ELSE {"service" \in want}
        /\ EndJob(IF Restored(failed) THEN "restored" ELSE "failed")
  BY <1>2 DEF UndoIntegrations
<1>5. failed = {}
  <2>1. job'.outcome = IF Restored(failed) THEN "restored" ELSE "failed"
    BY <1>1, <1>4 DEF EndJob, Job
  <2>2. "failed" # "restored"
    OBVIOUS
  <2> QED BY <2>1, <2>2 DEF Restored
<1>6. want \subseteq present' /\ ("service" \in want => running')
  BY <1>4, <1>5
<1>7. installDir' = installDir
  BY <1>2 DEF UndoIntegrations
<1> QED
  BY <1>3, <1>6, <1>7

-----------------------------------------------------------------------------
(* The modules *)

\* What is registered and shown is a matter of the active modules alone.
ForsettiRegistered ==
    RegistrationsFollowModules /\ SurfaceFollowsModules /\ tools = active \cap Servers

StepNames == {"read", "unlock", "lock", "refresh", "apply", "reconcile", "callback", "defaults",
              "tryStart", "tryStop", "startUnlessActive", "stopIfActive", "start", "stop",
              "subscribe", "booted", "http", "end"}
StepRecord ==
    {step \in [do : StepNames, module : Modules \cup {""}] :
        step.do \in {"unlock", "lock"} => step.module \in Modules}

\* The steps that only a guided action has; and those that a change of the unlocked modules, the
\* start or the stop of the runtime puts in front of what a thread has left.
Guided == {"read", "unlock", "lock", "startUnlessActive", "stopIfActive", "start", "stop"}
Followup == {"reconcile", "callback", "tryStart", "tryStop"}

ForsettiTyped ==
    /\ entitlements \in Document /\ unlockedIds \in Document
    /\ active \subseteq Modules /\ activationState \subseteq Modules
    /\ todo \in [ForsettiThread -> Seq(StepRecord)]
    /\ doc \in [ForsettiThread -> Document]
    /\ callbacks \in 0 .. 2 /\ changed \in BOOLEAN /\ edits \in Nat
    /\ phase \in {Off, "starting", "booted", "up", "stopping"}

\* The main thread subscribes at most twice in a run.
SubscribesTwice ==
    \A i, j, k \in DOMAIN todo["main"] :
        /\ todo["main"][i].do = "subscribe" => callbacks # 2
        /\ todo["main"][i].do = "subscribe" /\ todo["main"][j].do = "subscribe" /\ callbacks = 1 => i = j
        /\ todo["main"][i].do = "subscribe" /\ todo["main"][j].do = "subscribe"
              /\ todo["main"][k].do = "subscribe" => i = j \/ j = k \/ i = k

\* Who has steps left, and when: no thread while the server is off, no caller
\* unless it is up, and the main thread only while it starts or stops it.  Only
\* a caller has the steps of a guided action.
ForsettiTurns ==
    /\ phase = Off => \A t \in ForsettiThread : todo[t] = << >>
    /\ phase # "up" => \A c \in ModuleCaller : todo[c] = << >>
    /\ phase = "up" => todo["main"] = << >>
    /\ \A t \in ForsettiThread : \A i \in DOMAIN todo[t] : todo[t][i].do \in Guided => t \in ModuleCaller
    /\ \A i \in DOMAIN todo["main"] : todo["main"][i].do \in {"http", "end"} => i = Len(todo["main"])
    /\ phase = "stopping" => \A i \in DOMAIN todo["main"] : todo["main"][i].do \notin {"http", "booted"}

\* The protected modules of the instance, and a document that unlocks them.
Protected == protectedForsettiModuleIds \cap Modules
Unlocks(d) == \A m \in Protected : m \in d.modules \/ m \in d.products

\* What a thread has left harms no protected module: the document that it
\* writes or applies is one it has read, d; it locks no protected module, and
\* stops one only to start it next, or when the server stops.
Harmless(s, d, ph) ==
    \A i \in DOMAIN s :
        /\ s[i].do \in {"unlock", "lock", "apply"} =>
             IF i = 1 THEN Unlocks(d) ELSE s[i - 1].do \in {"read", "refresh"}
        /\ s[i].do = "lock" => s[i].module \notin Protected
        /\ s[i].do \in {"stop", "stopIfActive"} /\ s[i].module \in Protected =>
             i + 1 \in DOMAIN s /\ s[i + 1] = [do |-> "start", module |-> s[i].module]
        /\ s[i].do = "tryStop" /\ s[i].module \in Protected => ph = "stopping"

\* The protected modules that main is still going to start before its step i.
StartedBefore(s, i) ==
    {s[j].module : j \in {k \in DOMAIN s : k < i /\ s[k].do = "tryStart"}}
DefaultsRun(s, on) ==
    \A i \in DOMAIN s : s[i].do = "http" =>
        \/ \E j \in DOMAIN s : j < i /\ s[j].do = "defaults"
        \/ Protected \subseteq on \cup StartedBefore(s, i)

\* Of the protected modules of a server that is up, each is active or about to be.
StartsNext(c, m) == todo[c] # << >> /\ todo[c][1] = [do |-> "start", module |-> m]
ProtectedOrNext ==
    phase = "up" => \A m \in Protected : m \in active \/ \E c \in ModuleCaller : StartsNext(c, m)

Protection ==
    edits = 0 =>
        /\ Unlocks(entitlements)
        /\ phase # Off => Unlocks(unlockedIds)
        /\ \A t \in ForsettiThread : Harmless(todo[t], doc[t], phase)
        /\ DefaultsRun(todo["main"], active)
        /\ ProtectedOrNext

ForsettiInv ==
    ForsettiRegistered /\ ForsettiTyped /\ SubscribesTwice /\ ForsettiTurns /\ Protection



\* Every server lists the tools that the other table describes for it.
LEMMA DescribedTools ==
    \A m, ts : /\ \A x \in Tools(m, ts) : x = << x[1], x[2] >>
               /\ \A s, u : << s, u >> \in Tools(m, ts) <=> s = m /\ u \in ts
<1> SUFFICES ASSUME NEW m, NEW ts
             PROVE  /\ \A x \in Tools(m, ts) : x = << x[1], x[2] >>
                    /\ \A s, u : << s, u >> \in Tools(m, ts) <=> s = m /\ u \in ts
  OBVIOUS
<1>1. \A x : x \in Tools(m, ts) <=> \E u \in ts : x = << m, u >>
  BY DEF Tools
<1>2. \A a, b, c, d : << a, b >> = << c, d >> => a = c /\ b = d
  OBVIOUS
<1>3. \A s, u : << s, u >> \in Tools(m, ts) <=> s = m /\ u \in ts
  BY <1>1
<1>4. \A x \in Tools(m, ts) : x = << x[1], x[2] >>
  BY <1>1
<1> QED BY <1>3, <1>4

LEMMA ToolTablesMatch ==
    \A s \in Servers : {d[2] : d \in {x \in ToolDescriptors : x[1] = s}} = ServerTools[s]
<1> DEFINE W == {"manifest.validate", "architecture.validate", "module-boundary.inspect",
                 "package.validate"}
           M == {"manifest.validate", "project-layout.inspect", "toolchain.route",
                 "remote-build.validate", "build", "test", "archive", "sign", "notarize", "staple"}
           I == {"manifest.validate", "project-layout.inspect", "signing.route",
                 "remote-build.validate", "simulator.list", "build", "test", "archive", "export",
                 "device.install"}
<1>1. \A s \in Servers : ServerTools[s] = CASE s = "governance-windows" -> W
                                           [] s = "governance-macos" -> M
                                           [] s = "governance-ios" -> I
  BY DEF ServerTools
<1>2. ToolDescriptors = Tools("governance-windows", W) \cup Tools("governance-macos", M)
                        \cup Tools("governance-ios", I)
  BY DEF ToolDescriptors, WindowsTools, MacTools, IOSTools
<1> HIDE DEF W, M, I
<1>3. /\ ServerTools["governance-windows"] = W
      /\ ServerTools["governance-macos"] = M
      /\ ServerTools["governance-ios"] = I
  BY <1>1 DEF Servers
<1>4. \A x \in ToolDescriptors : x = << x[1], x[2] >>
  BY <1>2, DescribedTools
<1>5. \A s, u : << s, u >> \in ToolDescriptors <=>
          \/ s = "governance-windows" /\ u \in W
          \/ s = "governance-macos" /\ u \in M
          \/ s = "governance-ios" /\ u \in I
  BY <1>2, DescribedTools
<1>6. ASSUME NEW s, NEW u
      PROVE  u \in {d[2] : d \in {x \in ToolDescriptors : x[1] = s}} <=> << s, u >> \in ToolDescriptors
  <2>1. << s, u >>[1] = s /\ << s, u >>[2] = u
    OBVIOUS
  <2> QED BY <1>4, <2>1
<1>7. ASSUME NEW s \in Servers
      PROVE  {d[2] : d \in {x \in ToolDescriptors : x[1] = s}} = ServerTools[s]
  <2>1. \A u : << s, u >> \in ToolDescriptors <=> u \in ServerTools[s]
    BY <1>3, <1>5 DEF Servers
  <2> QED BY <1>6, <2>1
<1> QED BY <1>7

LEMMA StartRegisters ==
    ASSUME ForsettiRegistered, NEW m, StartModule(m)
    PROVE  ForsettiRegistered'
<1>1. active' = active \cup {m}
  BY DEF StartModule
<1>2. requested' = active' \cap {r.module : r \in Surfaces}
  BY <1>1 DEF StartModule, ForsettiRegistered, RegistrationsFollowModules
<1>3. servers' = active' \cap Servers /\ tools' = active' \cap Servers
  BY <1>1 DEF StartModule, ForsettiRegistered, RegistrationsFollowModules
<1>4. DOMAIN gateways' = active' \cap Gateways
      /\ dns' = {g \in DOMAIN gateways' : gateways'[g] = "advertised"}
  <2>1. CASE m \in Gateways
    <3>1. PICK outcome \in {"advertised", "registration_failed"} :
            /\ gateways' = [g \in DOMAIN gateways \cup {m} |-> IF g = m THEN outcome ELSE gateways[g]]
            /\ dns' = IF outcome = "advertised" THEN dns \cup {m} ELSE dns \ {m}
      BY <2>1 DEF StartModule, registerGateway
    <3> QED
      BY <1>1, <2>1, <3>1 DEF ForsettiRegistered, RegistrationsFollowModules
  <2>2. CASE m \notin Gateways
    BY <1>1, <2>2 DEF StartModule, ForsettiRegistered, RegistrationsFollowModules
  <2> QED
    BY <2>1, <2>2
<1>5. surface' = IF "dashboard-ui" \in active' THEN composeDashboardSurface(RequestsOf(active'))
                 ELSE NoSurface
  <2>1. RequestsOf(requested') = RequestsOf(active')
    BY <1>2 DEF RequestsOf
  <2> QED
    BY <2>1 DEF StartModule, publishDashboardSurface
<1> QED
  BY <1>2, <1>3, <1>4, <1>5, ToolTablesMatch
     DEF ForsettiRegistered, RegistrationsFollowModules, SurfaceFollowsModules

LEMMA StopRegisters ==
    ASSUME ForsettiRegistered, NEW m, StopModule(m)
    PROVE  ForsettiRegistered'
<1>1. active' = active \ {m}
  BY DEF StopModule
<1>2. requested' = active' \cap {r.module : r \in Surfaces}
  BY <1>1 DEF StopModule, ForsettiRegistered, RegistrationsFollowModules
<1>3. servers' = active' \cap Servers /\ tools' = active' \cap Servers
  BY <1>1 DEF StopModule, ForsettiRegistered, RegistrationsFollowModules
<1>4. DOMAIN gateways' = active' \cap Gateways
      /\ dns' = {g \in DOMAIN gateways' : gateways'[g] = "advertised"}
  BY <1>1 DEF StopModule, removeGateway, ForsettiRegistered, RegistrationsFollowModules
<1>5. surface' = IF "dashboard-ui" \in active' THEN composeDashboardSurface(RequestsOf(active'))
                 ELSE NoSurface
  <2>1. RequestsOf(requested') = RequestsOf(active')
    BY <1>2 DEF RequestsOf
  <2> QED
    BY <2>1 DEF StopModule, publishDashboardSurface
<1> QED
  BY <1>2, <1>3, <1>4, <1>5, ToolTablesMatch
     DEF ForsettiRegistered, RegistrationsFollowModules, SurfaceFollowsModules

\* No module is active when a process begins.
LEMMA NothingRegistered ==
    /\ active = {} /\ requested = {} /\ gateways = << >> /\ servers = {} /\ tools = {} /\ dns = {}
    /\ surface = NoSurface
    => ForsettiRegistered
  BY DEF ForsettiRegistered, RegistrationsFollowModules, SurfaceFollowsModules

LEMMA GoneRegisters == Gone => ForsettiRegistered'
<1>1. Gone => (/\ active = {} /\ requested = {} /\ gateways = << >> /\ servers = {} /\ tools = {} /\ dns = {}
               /\ surface = NoSurface)'
  BY DEF Gone
<1> QED BY <1>1, NothingRegistered, PTL

\* A step leaves the modules alone, starts or stops one, or ends the process.
LEMMA ForsettiModuleSteps ==
    ASSUME [ForsettiNext]_forsettiVars
    PROVE  \/ UNCHANGED moduleVars
           \/ \E m : MayStart(m) /\ StartModule(m)
           \/ \E m : MayStop(m) /\ StopModule(m)
           \/ Gone
<1>1. ASSUME NEW t \in ForsettiThread, Work(t)
      PROVE  \/ UNCHANGED moduleVars
             \/ \E m : MayStart(m) /\ StartModule(m)
             \/ \E m : MayStop(m) /\ StopModule(m)
  <2>1. CASE TryModule(t)
    BY <2>1 DEF TryModule
  <2>2. CASE ModuleStep(t)
    BY <2>2 DEF ModuleStep
  <2> QED
    BY <1>1, <2>1, <2>2 DEF Work, ReadDocument, WriteDocument, Apply, Reconcile, Defaults, Ask
<1> QED
  BY <1>1 DEF ForsettiNext, manageForsettiModule, EditFile, Watch, Boot, Subscribe, StartHttp,
     Shutdown, End, Crash, forsettiVars, moduleVars, registryVars

LEMMA RegisteredKept == ForsettiRegistered /\ [ForsettiNext]_forsettiVars => ForsettiRegistered'
<1> SUFFICES ASSUME ForsettiRegistered, [ForsettiNext]_forsettiVars PROVE ForsettiRegistered'
  OBVIOUS
<1>1. CASE UNCHANGED moduleVars
  BY <1>1 DEF moduleVars, registryVars, ForsettiRegistered, RegistrationsFollowModules,
     SurfaceFollowsModules
<1>2. CASE Gone
  BY <1>2, GoneRegisters
<1> QED
  BY <1>1, <1>2, ForsettiModuleSteps, StartRegisters, StopRegisters
-----------------------------------------------------------------------------
(* The steps of a thread *)

\* What is left of s when its first step is replaced by the steps ns.
LEMMA Continued ==
    ASSUME NEW S, NEW s \in Seq(S), s # << >>, NEW ns \in Seq(S), NEW r, r = ns \o Tail(s)
    PROVE  /\ r \in Seq(S) /\ Len(s) \in Nat /\ Len(ns) \in Nat /\ Len(s) >= 1
           /\ DOMAIN r = 1 .. Len(r) /\ DOMAIN s = 1 .. Len(s) /\ DOMAIN ns = 1 .. Len(ns)
           /\ Len(r) = Len(ns) + Len(s) - 1
           /\ \A i \in DOMAIN ns : i \in DOMAIN r /\ r[i] = ns[i]
           /\ \A i \in DOMAIN r \ DOMAIN ns :
                 i > Len(ns) /\ i - Len(ns) + 1 \in 2 .. Len(s) /\ r[i] = s[i - Len(ns) + 1]
           /\ \A j \in 2 .. Len(s) :
                 Len(ns) + j - 1 \in DOMAIN r \ DOMAIN ns /\ r[Len(ns) + j - 1] = s[j]
<1>1. Tail(s) \in Seq(S) /\ Len(Tail(s)) = Len(s) - 1 /\ Len(s) \in Nat /\ Len(s) >= 1
      /\ \A i \in 1 .. Len(s) - 1 : Tail(s)[i] = s[i + 1]
  OBVIOUS
<1>2. r \in Seq(S) /\ Len(r) = Len(ns) + Len(Tail(s)) /\ Len(ns) \in Nat
      /\ \A i \in 1 .. Len(ns) + Len(Tail(s)) :
            r[i] = IF i <= Len(ns) THEN ns[i] ELSE Tail(s)[i - Len(ns)]
  BY <1>1
<1>3. DOMAIN r = 1 .. Len(r) /\ DOMAIN s = 1 .. Len(s) /\ DOMAIN ns = 1 .. Len(ns)
  BY <1>2
<1> DEFINE n == Len(ns)
           l == Len(s)
<1>4. n \in Nat /\ l \in Nat /\ l >= 1 /\ Len(r) = n + l - 1
  BY <1>1, <1>2
<1>5. ASSUME NEW i \in DOMAIN ns PROVE i \in DOMAIN r /\ r[i] = ns[i]
  BY <1>1, <1>2, <1>3, <1>4
<1>6. ASSUME NEW i \in DOMAIN r \ DOMAIN ns
      PROVE  i > n /\ i - n + 1 \in 2 .. l /\ r[i] = s[i - n + 1]
  <2>1. i \in Nat /\ i > n /\ i <= n + l - 1
    BY <1>3, <1>4
  <2>2. i - n \in 1 .. l - 1 /\ (i - n) + 1 = i - n + 1
    BY <1>4, <2>1
  <2>3. r[i] = Tail(s)[i - n]
    BY <1>1, <1>2, <1>4, <2>1
  <2> QED BY <1>1, <2>1, <2>2, <2>3
<1>7. ASSUME NEW j \in 2 .. l
      PROVE  n + j - 1 \in DOMAIN r \ DOMAIN ns /\ r[n + j - 1] = s[j]
  <2>1. n + j - 1 \in 1 .. n + l - 1 /\ n + j - 1 > n
    BY <1>4
  <2>2. n + j - 1 \in DOMAIN r \ DOMAIN ns
    BY <1>3, <1>4, <2>1
  <2>3. (n + j - 1) - n + 1 = j
    BY <1>4
  <2> QED BY <1>6, <2>2, <2>3
<1> QED BY <1>1, <1>2, <1>3, <1>4, <1>5, <1>6, <1>7

\* Each makes one step of every module of a finite set.
LEMMA EachSteps ==
    ASSUME NEW ms, IsFiniteSet(ms), NEW step
    PROVE  /\ Each(step, ms) \in Seq([do : {step}, module : ms])
           /\ \A m \in ms : \E i \in DOMAIN Each(step, ms) : Each(step, ms)[i].module = m
<1> DEFINE n == Cardinality(ms)
           f == SetToSeq(ms)
           g == [i \in 1 .. Len(f) |-> [do |-> step, module |-> f[i]]]
<1>1. n \in Nat /\ ExistsBijection(1 .. n, ms)
  BY FS_CardinalityType
<1>2. PICK b : b \in Bijection(1 .. n, ms)
  BY <1>1 DEF ExistsBijection
<1>3. b \in [1 .. n -> ms] /\ IsInjective(b)
  BY <1>2 DEF Bijection, Injection, IsInjective
<1>4. f \in [1 .. n -> ms] /\ IsInjective(f)
  BY <1>3 DEF SetToSeq
<1> HIDE DEF f
<1>5. Len(f) = n
  BY <1>1, <1>4
<1>6. Each(step, ms) = g
  BY DEF Each, f
<1>7. g \in Seq([do : {step}, module : ms])
  <2>1. g \in [1 .. n -> [do : {step}, module : ms]]
    BY <1>4, <1>5
  <2> DEFINE T == [do : {step}, module : ms]
  <2>2. n \in Nat /\ g \in [1 .. n -> T]
    BY <1>1, <2>1
  <2> HIDE DEF g, T, n
  <2>3. g \in Seq(T)
    BY <2>2, SeqDef
  <2> QED BY <2>3 DEF T
<1>8. \A m \in ms : \E i \in 1 .. n : f[i] = m
  <2> DEFINE im == {f[i] : i \in 1 .. n}
  <2>1. im \subseteq ms
    BY <1>4
  <2>2. f \in Bijection(1 .. n, im)
    BY <1>4 DEF Bijection, Injection, Surjection, IsInjective
  <2>3. IsFiniteSet(im) /\ Cardinality(im) = n
    <3>1. IsFiniteSet(1 .. n) /\ Cardinality(1 .. n) = n
      BY <1>1, FS_Interval
    <3>2. ExistsBijection(1 .. n, im)
      BY <2>2 DEF ExistsBijection
    <3> QED BY <1>1, <3>2, FS_NatBijection, FS_CountingElements
  <2>4. im = ms
    BY <2>1, <2>3, FS_Subset
  <2> QED BY <2>4
<1> QED BY <1>5, <1>6, <1>7, <1>8

\* Facts about the parts of the types.
LEMMA ThreadsApart ==
    /\ "main" \in ForsettiThread /\ "watcher" \in ForsettiThread /\ "main" # "watcher"
    /\ \A c \in ModuleCaller : c \in ForsettiThread /\ c # "main" /\ c # "watcher"
  BY ForsettiAssumption DEF ForsettiThread

LEMMA FiniteParts ==
    \A ms : ms \subseteq Modules => IsFiniteSet(ms)
  BY ForsettiAssumption, FS_Subset

\* What a step of a thread puts in front of what it has left.
Brings(t, ns) ==
    /\ ns \in Seq(StepRecord)
    /\ \/ \A i \in DOMAIN ns : ns[i].do \in Followup
       \/ Step(t) = "startUnlessActive" /\ ns = << [do |-> "start", module |-> Module(t)] >>
       \/ Step(t) = "stopIfActive" /\ ns = << [do |-> "stop", module |-> Module(t)] >>
    /\ Step(t) \in {"read", "refresh"} => ns = << >>
    /\ \A i \in DOMAIN ns : ns[i].do = "tryStop" => ~isUnlocked(ns[i].module)
    /\ Step(t) = "defaults" =>
          \A m \in Modules \ active : \E i \in DOMAIN ns : ns[i].do = "tryStart" /\ ns[i].module = m

\* One thread goes on.
LEMMA ThreadMoves ==
    ASSUME ForsettiTyped, NEW t \in ForsettiThread, NEW s \in Seq(StepRecord),
           todo' = [todo EXCEPT ![t] = s]
    PROVE  /\ todo' \in [ForsettiThread -> Seq(StepRecord)]
           /\ todo'[t] = s /\ \A u \in ForsettiThread : u # t => todo'[u] = todo[u]
  BY DEF ForsettiTyped

LEMMA Goes ==
    ASSUME ForsettiTyped, NEW t \in ForsettiThread, Busy(t), NEW ns, Brings(t, ns), Continue(t, ns)
    PROVE  /\ todo[t] \in Seq(StepRecord) /\ todo[t] # << >>
           /\ todo' \in [ForsettiThread -> Seq(StepRecord)]
           /\ todo'[t] = ns \o Tail(todo[t])
           /\ \A u \in ForsettiThread : u # t => todo'[u] = todo[u]
           /\ ns \in Seq(StepRecord)
<1>1. todo[t] \in Seq(StepRecord) /\ todo[t] # << >> /\ ns \in Seq(StepRecord)
  BY DEF ForsettiTyped, Busy, Brings
<1>2. ns \o Tail(todo[t]) \in Seq(StepRecord)
  BY <1>1
<1> QED BY <1>1, <1>2, ThreadMoves DEF Continue, Rest

\* The main thread has no fewer steps between it and its end.
LEMMA GoesOnTurns ==
    ASSUME ForsettiTyped, ForsettiTurns, NEW t \in ForsettiThread, Busy(t), NEW ns, Brings(t, ns),
           Continue(t, ns), phase' = phase \/ {phase, phase'} \subseteq {"starting", "booted"}
    PROVE  ForsettiTurns'
<1> DEFINE s == todo[t]
           r == todo'[t]
<1>1. /\ s \in Seq(StepRecord) /\ s # << >> /\ r = ns \o Tail(s) /\ ns \in Seq(StepRecord)
      /\ \A u \in ForsettiThread : u # t => todo'[u] = todo[u]
  BY Goes
<1>2. /\ DOMAIN r = 1 .. Len(r) /\ DOMAIN s = 1 .. Len(s) /\ DOMAIN ns = 1 .. Len(ns)
      /\ Len(s) \in Nat /\ Len(ns) \in Nat /\ Len(s) >= 1 /\ Len(r) = Len(ns) + Len(s) - 1
      /\ \A i \in DOMAIN ns : i \in DOMAIN r /\ r[i] = ns[i]
      /\ \A i \in DOMAIN r \ DOMAIN ns :
            i > Len(ns) /\ i - Len(ns) + 1 \in 2 .. Len(s) /\ r[i] = s[i - Len(ns) + 1]
  BY <1>1, Continued
<1>3. Step(t) \in Guided => t \in ModuleCaller
  BY <1>2 DEF Step, ForsettiTurns
<1>4. \A i \in DOMAIN ns : ns[i].do \in Followup \/ (ns[i].do \in {"start", "stop"} /\ Step(t) \in Guided)
  <2>1. CASE \A i \in DOMAIN ns : ns[i].do \in Followup
    BY <2>1
  <2>2. CASE Step(t) = "startUnlessActive" /\ ns = << [do |-> "start", module |-> Module(t)] >>
    BY <2>2 DEF Guided
  <2>3. CASE Step(t) = "stopIfActive" /\ ns = << [do |-> "stop", module |-> Module(t)] >>
    BY <2>3 DEF Guided
  <2> QED BY <2>1, <2>2, <2>3 DEF Brings
<1> HIDE DEF s, r
<1>5. phase # Off
  BY <1>1 DEF ForsettiTurns, s
<1>6. phase # "up" => t \notin ModuleCaller
  BY <1>1 DEF ForsettiTurns, s
<1>7. phase = "up" => t # "main"
  BY <1>1 DEF ForsettiTurns, s
<1>8. \A i \in DOMAIN r : r[i].do \in Guided => t \in ModuleCaller
  <2> SUFFICES ASSUME NEW i \in DOMAIN r, r[i].do \in Guided PROVE t \in ModuleCaller
    OBVIOUS
  <2>1. CASE i \in DOMAIN ns
    BY <1>2, <1>3, <1>4, <2>1 DEF Followup, Guided
  <2>2. CASE i \notin DOMAIN ns
    BY <1>2, <2>2 DEF ForsettiTurns, s
  <2> QED BY <2>1, <2>2
<1>9. ASSUME t = "main"
      PROVE  /\ \A i \in DOMAIN r : r[i].do \in {"http", "end"} => i = Len(r)
             /\ phase = "stopping" => \A i \in DOMAIN r : r[i].do \notin {"http", "booted"}
  <2>1. ASSUME NEW i \in DOMAIN r, r[i].do \in {"http", "end", "booted"}
        PROVE  i \notin DOMAIN ns
    BY <1>2, <1>4, <2>1 DEF Followup
  <2>2. ASSUME NEW i \in DOMAIN r, r[i].do \in {"http", "end"} PROVE i = Len(r)
    <3>1. i - Len(ns) + 1 \in DOMAIN s /\ r[i] = s[i - Len(ns) + 1]
      BY <1>2, <2>1, <2>2
    <3>2. i - Len(ns) + 1 = Len(s)
      BY <1>9, <2>2, <3>1 DEF ForsettiTurns, s
    <3> QED BY <1>2, <3>2
  <2>3. ASSUME phase = "stopping", NEW i \in DOMAIN r PROVE r[i].do \notin {"http", "booted"}
    <3> SUFFICES ASSUME r[i].do \in {"http", "booted"} PROVE FALSE
      OBVIOUS
    <3>1. i - Len(ns) + 1 \in DOMAIN s /\ r[i] = s[i - Len(ns) + 1]
      BY <1>2, <2>1
    <3> QED BY <1>9, <2>3, <3>1 DEF ForsettiTurns, s
  <2> QED BY <2>2, <2>3
<1> QED
  <2>1. /\ phase' = Off => phase = Off
        /\ phase' = "up" <=> phase = "up"
        /\ phase' = "stopping" => phase = "stopping"
        /\ \A u \in ForsettiThread : u # t => todo'[u] = todo[u]
    BY <1>1 DEF Off
  <2>2. \A u \in ForsettiThread : \A i \in DOMAIN todo'[u] :
            todo'[u][i].do \in Guided => u \in ModuleCaller
    BY <1>8, <2>1 DEF r, ForsettiTurns
  <2>3. (\A i \in DOMAIN todo'["main"] : todo'["main"][i].do \in {"http", "end"} => i = Len(todo'["main"]))
        /\ (phase' = "stopping" => \A i \in DOMAIN todo'["main"] : todo'["main"][i].do \notin {"http", "booted"})
    <3>1. CASE t = "main"
      BY <1>9, <2>1, <3>1 DEF r
    <3>2. CASE t # "main"
      BY <2>1, <3>2, ThreadsApart DEF ForsettiTurns
    <3> QED BY <3>1, <3>2
  <2>4. phase # "up" => \A c \in ModuleCaller : todo'[c] = << >>
    BY <1>6, <2>1, ThreadsApart DEF ForsettiTurns
  <2>5. phase = "up" => todo'["main"] = << >>
    BY <1>7, <2>1, ThreadsApart DEF ForsettiTurns
  <2> QED BY <1>5, <2>1, <2>2, <2>3, <2>4, <2>5 DEF ForsettiTurns

LEMMA GoesOnSubscribed ==
    ASSUME ForsettiTyped, SubscribesTwice, NEW t \in ForsettiThread, Busy(t), NEW ns, Brings(t, ns),
           Continue(t, ns),
           \/ callbacks' = callbacks
           \/ t = "main" /\ Step("main") = "subscribe" /\ callbacks' = callbacks + 1
    PROVE  SubscribesTwice' /\ callbacks' \in 0 .. 2
<1> DEFINE s == todo[t]
           r == todo'[t]
<1>1. /\ s \in Seq(StepRecord) /\ s # << >> /\ r = ns \o Tail(s) /\ ns \in Seq(StepRecord)
      /\ \A u \in ForsettiThread : u # t => todo'[u] = todo[u]
  BY Goes
<1>2. /\ DOMAIN r = 1 .. Len(r) /\ DOMAIN s = 1 .. Len(s) /\ DOMAIN ns = 1 .. Len(ns)
      /\ Len(s) \in Nat /\ Len(ns) \in Nat /\ Len(s) >= 1
      /\ \A i \in DOMAIN ns : i \in DOMAIN r /\ r[i] = ns[i]
      /\ \A i \in DOMAIN r \ DOMAIN ns :
            i > Len(ns) /\ i - Len(ns) + 1 \in 2 .. Len(s) /\ r[i] = s[i - Len(ns) + 1]
  BY <1>1, Continued
<1>3. \A i \in DOMAIN ns : ns[i].do # "subscribe"
  <2>1. CASE \A i \in DOMAIN ns : ns[i].do \in Followup
    BY <2>1 DEF Followup
  <2>2. CASE Step(t) = "startUnlessActive" /\ ns = << [do |-> "start", module |-> Module(t)] >>
    BY <2>2
  <2>3. CASE Step(t) = "stopIfActive" /\ ns = << [do |-> "stop", module |-> Module(t)] >>
    BY <2>3
  <2> QED BY <2>1, <2>2, <2>3 DEF Brings
<1>4. callbacks \in 0 .. 2
  BY DEF ForsettiTyped
<1> HIDE DEF s, r
<1>5. CASE t # "main"
  BY <1>1, <1>4, <1>5, ThreadsApart DEF SubscribesTwice
<1>6. CASE t = "main"
  <2> DEFINE old(i) == i - Len(ns) + 1
  <2>1. ASSUME NEW i \in DOMAIN r, r[i].do = "subscribe"
        PROVE  i \in Int /\ old(i) \in 2 .. Len(s) /\ old(i) \in DOMAIN s /\ s[old(i)].do = "subscribe"
    BY <1>2, <1>3, <2>1
  <2>2. ASSUME NEW i \in Int, NEW j \in Int, old(i) = old(j) PROVE i = j
    BY <1>2, <2>2
  <2>3. /\ \A i \in DOMAIN s : s[i].do = "subscribe" => callbacks # 2
        /\ \A i, j \in DOMAIN s : s[i].do = "subscribe" /\ s[j].do = "subscribe" /\ callbacks = 1 => i = j
        /\ \A i, j, k \in DOMAIN s :
              s[i].do = "subscribe" /\ s[j].do = "subscribe" /\ s[k].do = "subscribe" => i = j \/ j = k \/ i = k
    BY <1>6 DEF SubscribesTwice, s
  <2> HIDE DEF old
  <2>4. ASSUME NEW i \in DOMAIN r, NEW j \in DOMAIN r, NEW k \in DOMAIN r,
               r[i].do = "subscribe", r[j].do = "subscribe", r[k].do = "subscribe"
        PROVE  i = j \/ j = k \/ i = k
    BY <2>1, <2>2, <2>3, <2>4
  <2>5. ASSUME callbacks' = callbacks
        PROVE  SubscribesTwice'
    <3>1. \A i \in DOMAIN r : r[i].do = "subscribe" => callbacks # 2
      BY <2>1, <2>3
    <3>2. \A i, j \in DOMAIN r : r[i].do = "subscribe" /\ r[j].do = "subscribe" /\ callbacks = 1 => i = j
      BY <2>1, <2>2, <2>3
    <3> QED BY <1>6, <2>4, <2>5, <3>1, <3>2 DEF SubscribesTwice, r
  <2>6. ASSUME Step("main") = "subscribe", callbacks' = callbacks + 1
        PROVE  SubscribesTwice' /\ callbacks' \in 0 .. 2
    <3>1. 1 \in DOMAIN s /\ s[1].do = "subscribe"
      BY <1>2, <1>6, <2>6 DEF Step, s
    <3>2. callbacks \in {0, 1}
      BY <1>4, <2>3, <3>1
    <3>3. \A i \in DOMAIN r : r[i].do = "subscribe" => callbacks = 0
      <4> SUFFICES ASSUME NEW i \in DOMAIN r, r[i].do = "subscribe", callbacks = 1 PROVE FALSE
        BY <3>2
      <4> QED BY <2>1, <2>3, <3>1
    <3>4. \A i, j \in DOMAIN r : r[i].do = "subscribe" /\ r[j].do = "subscribe" => i = j
      <4> SUFFICES ASSUME NEW i \in DOMAIN r, NEW j \in DOMAIN r, r[i].do = "subscribe",
                          r[j].do = "subscribe"
                   PROVE  i = j
        OBVIOUS
      <4>1. old(i) = old(j)
        BY <2>1, <2>3, <3>1
      <4> QED BY <2>1, <2>2, <4>1
    <3>5. callbacks' \in {1, 2} /\ (callbacks' = 2 => callbacks = 1)
      BY <2>6, <3>2
    <3> QED BY <1>6, <2>4, <3>3, <3>4, <3>5 DEF SubscribesTwice, r
  <2> QED BY <1>4, <1>6, <2>5, <2>6
<1> QED BY <1>5, <1>6

LEMMA ShortSequences ==
    ASSUME NEW S, NEW a \in S, NEW b \in S
    PROVE  /\ << a >> \in Seq(S) /\ \A i \in DOMAIN << a >> : << a >>[i] = a
           /\ << a >> \o << >> = << a >>
           /\ << a >> \o << b >> \in Seq(S)
           /\ \A i \in DOMAIN (<< a >> \o << b >>) : (<< a >> \o << b >>)[i] \in {a, b}
<1>1. << a >> \in Seq(S) /\ \A i \in DOMAIN << a >> : << a >>[i] = a
  OBVIOUS
<1>2. << a >> \o << >> = << a >>
  OBVIOUS
<1>3. << a >> \in Seq({a, b}) /\ << b >> \in Seq({a, b})
  OBVIOUS
<1>4. << a >> \o << b >> \in Seq({a, b})
  BY <1>3
<1>5. << a >> \o << b >> \in Seq(S)
  <2>1. << b >> \in Seq(S)
    OBVIOUS
  <2> QED BY <1>1, <2>1
<1>6. \A s \in Seq({a, b}) : \A i \in DOMAIN s : s[i] \in {a, b}
  OBVIOUS
<1> QED BY <1>1, <1>2, <1>4, <1>5, <1>6

LEMMA EachBrings ==
    ASSUME NEW ms, ms \subseteq Modules, NEW step \in {"tryStart", "tryStop"}
    PROVE  /\ Each(step, ms) \in Seq(StepRecord)
           /\ \A i \in DOMAIN Each(step, ms) :
                Each(step, ms)[i].do = step /\ Each(step, ms)[i].module \in ms
           /\ \A m \in ms : \E i \in DOMAIN Each(step, ms) : Each(step, ms)[i].module = m
<1> DEFINE S == [do : {step}, module : ms]
<1>1. /\ Each(step, ms) \in Seq(S)
      /\ \A m \in ms : \E i \in DOMAIN Each(step, ms) : Each(step, ms)[i].module = m
  <2>1. IsFiniteSet(ms)
    BY FiniteParts
  <2>2. /\ Each(step, ms) \in Seq([do : {step}, module : ms])
        /\ \A m \in ms : \E i \in DOMAIN Each(step, ms) : Each(step, ms)[i].module = m
    BY <2>1, EachSteps
  <2> QED BY <2>2
<1>2. S \subseteq StepRecord
  BY DEF StepRecord, StepNames
<1>3. Each(step, ms) \in Seq(StepRecord)
  <2> HIDE DEF S
  <2> QED BY <1>1, <1>2
<1>4. \A i \in DOMAIN Each(step, ms) : Each(step, ms)[i] \in S
  <2> HIDE DEF S
  <2> QED BY <1>1
<1>5. \A x \in S : x.do = step /\ x.module \in ms
  OBVIOUS
<1> QED BY <1>1, <1>3, <1>4, <1>5

LEMMA EmptyBrings == ASSUME NEW t, Step(t) # "defaults" PROVE Brings(t, << >>)
  BY DEF Brings

\* Every step of a thread puts in front what Brings allows, or ends a guided action
\* whose start or stop was refused.
LEMMA WorkGoesOn ==
    ASSUME ForsettiTyped, NEW t \in ForsettiThread, Work(t)
    PROVE  /\ Busy(t) /\ phase' = phase /\ edits' = edits /\ callbacks' = callbacks
           /\ \/ \E ns : Brings(t, ns) /\ Continue(t, ns)
              \/ /\ Step(t) \in {"start", "stop"} /\ todo' = [todo EXCEPT ![t] = << >>]
                 /\ UNCHANGED << moduleVars, fileVars, unlockedIds, doc >>
                 /\ IF Step(t) = "start" THEN ~MayStart(Module(t)) ELSE ~MayStop(Module(t))
<1>1. Busy(t) /\ phase' = phase /\ edits' = edits /\ callbacks' = callbacks
  BY DEF Work, ReadDocument, WriteDocument, Apply, Reconcile, Defaults, TryModule, Ask, ModuleStep,
     countVars
<1>2. CASE ReadDocument(t) \/ WriteDocument(t) \/ TryModule(t)
  <2>1. Continue(t, << >>) /\ Step(t) # "defaults"
    BY <1>2 DEF ReadDocument, WriteDocument, TryModule
  <2> QED BY <1>1, <2>1, EmptyBrings
<1>3. CASE Apply(t)
  <2> DEFINE r == [do |-> "reconcile", module |-> ""]
             c == [do |-> "callback", module |-> ""]
  <2>0. Step(t) = "apply"
    BY <1>3 DEF Apply
  <2>1. \/ Continue(t, << >>) \/ Continue(t, << r >> \o << >>) \/ Continue(t, << r >> \o << c >>)
    BY <1>3 DEF Apply, Do
  <2>2. r \in StepRecord /\ c \in StepRecord /\ r.do \in Followup /\ c.do \in Followup
        /\ r.do # "tryStop" /\ c.do # "tryStop"
    BY DEF StepRecord, StepNames, Followup
  <2> HIDE DEF r, c
  <2>3. Brings(t, << r >>)
    BY <2>0, <2>2, ShortSequences DEF Brings
  <2>4. Brings(t, << r >> \o << c >>)
    BY <2>0, <2>2, ShortSequences DEF Brings
  <2> QED BY <1>1, <2>0, <2>1, <2>2, <2>3, <2>4, EmptyBrings, ShortSequences
<1>4. CASE Reconcile(t)
  <2> DEFINE ms == {m \in active : ~isUnlocked(m)}
  <2>1. ms \subseteq Modules
    BY DEF ForsettiTyped
  <2>2. Continue(t, Each("tryStop", ms)) /\ Step(t) = "reconcile" /\ \A m \in ms : ~isUnlocked(m)
    BY <1>4 DEF Reconcile
  <2> HIDE DEF ms
  <2>3. Brings(t, Each("tryStop", ms))
    BY <2>1, <2>2, EachBrings DEF Brings, Followup
  <2> QED BY <1>1, <2>2, <2>3
<1>5. CASE Defaults(t)
  <2> DEFINE ms == (defaultModuleIds \cap Modules) \ active
  <2>1. /\ Step(t) \in {"callback", "defaults"}
        /\ (Step(t) # "defaults" /\ Continue(t, << >>)) \/ Continue(t, Each("tryStart", ms))
    BY <1>5 DEF Defaults
  <2>2. ms = Modules \ active
    BY ForsettiAssumption DEF defaultModuleIds
  <2> HIDE DEF ms
  <2>3. Brings(t, Each("tryStart", ms))
    <3> DEFINE q == Each("tryStart", ms)
    <3>1. /\ q \in Seq(StepRecord)
          /\ \A i \in DOMAIN q : q[i].do = "tryStart"
          /\ \A m \in ms : \E i \in DOMAIN q : q[i].module = m
      <4>1. ms \subseteq Modules
        BY <2>2
      <4> QED BY <4>1, EachBrings
    <3> HIDE DEF q
    <3>2. \A m \in Modules \ active : \E i \in DOMAIN q : q[i].do = "tryStart" /\ q[i].module = m
      BY <2>2, <3>1
    <3>3. Step(t) \notin {"read", "refresh"}
      BY <2>1
    <3>4. (\A i \in DOMAIN q : q[i].do \in Followup) /\ \A i \in DOMAIN q : q[i].do # "tryStop"
      BY <3>1 DEF Followup
    <3>5. Brings(t, q)
      BY <3>1, <3>2, <3>3, <3>4 DEF Brings
    <3> QED BY <3>5 DEF q
  <2> QED BY <1>1, <2>1, <2>3, EmptyBrings
<1>6. CASE Ask(t)
  <2>1. Step(t) \in {"startUnlessActive", "stopIfActive"}
    BY <1>6 DEF Ask
  <2>2. Module(t) \in Modules \cup {""}
    <3>1. todo[t] \in Seq(StepRecord) /\ todo[t] # << >>
      BY <1>1 DEF ForsettiTyped, Busy
    <3>2. todo[t][1] \in StepRecord
      BY <3>1
    <3> QED BY <3>2 DEF StepRecord, Module
  <2>3. \/ Continue(t, << >>)
        \/ Step(t) = "startUnlessActive" /\ Continue(t, << [do |-> "start", module |-> Module(t)] >>)
        \/ Step(t) = "stopIfActive" /\ Continue(t, << [do |-> "stop", module |-> Module(t)] >>)
    BY <1>6, <2>1 DEF Ask, Do
  <2>4. /\ << [do |-> "start", module |-> Module(t)] >> \in Seq(StepRecord)
        /\ << [do |-> "stop", module |-> Module(t)] >> \in Seq(StepRecord)
    <3>1. [do |-> "start", module |-> Module(t)] \in StepRecord
          /\ [do |-> "stop", module |-> Module(t)] \in StepRecord
      BY <2>2 DEF StepRecord, StepNames
    <3> QED BY <3>1, ShortSequences
  <2>5. ASSUME NEW step \in {"start", "stop"}
        PROVE  \A i \in DOMAIN << [do |-> step, module |-> Module(t)] >> :
                  << [do |-> step, module |-> Module(t)] >>[i].do # "tryStop"
    OBVIOUS
  <2>6. Step(t) # "defaults" /\ Step(t) \notin {"read", "refresh"}
    BY <2>1
  <2> QED BY <1>1, <2>3, <2>4, <2>5, <2>6, EmptyBrings DEF Brings
<1>7. CASE ModuleStep(t)
  <2>1. Step(t) \in {"start", "stop"}
    BY <1>7 DEF ModuleStep
  <2>2. CASE Continue(t, << >>)
    BY <1>1, <2>1, <2>2, EmptyBrings
  <2>3. CASE ~Continue(t, << >>)
    BY <1>1, <1>7, <2>1, <2>3 DEF ModuleStep
  <2> QED BY <2>2, <2>3
<1> QED BY <1>2, <1>3, <1>4, <1>5, <1>6, <1>7 DEF Work
-----------------------------------------------------------------------------
(* The types *)

LEMMA DocumentParts ==
    /\ Nothing \in Document
    /\ \A d \in Document : d.modules \subseteq Modules /\ d.products \subseteq Modules
  BY DEF Nothing, Document, Product

LEMMA UnlockedIsModule == ForsettiTyped => \A m : isUnlocked(m) => m \in Modules
  BY DocumentParts DEF ForsettiTyped, isUnlocked

LEMMA StepParts ==
    ASSUME ForsettiTyped, NEW t \in ForsettiThread, Busy(t)
    PROVE  /\ todo[t] \in Seq(StepRecord) /\ 1 \in DOMAIN todo[t]
           /\ Step(t) \in StepNames /\ Module(t) \in Modules \cup {""}
           /\ Step(t) \in {"unlock", "lock"} => Module(t) \in Modules
<1>1. todo[t] \in Seq(StepRecord) /\ todo[t] # << >>
  BY DEF ForsettiTyped, Busy
<1>2. todo[t][1] \in StepRecord /\ 1 \in DOMAIN todo[t]
  BY <1>1
<1> QED BY <1>1, <1>2 DEF StepRecord, Step, Module

LEMMA ActiveTyped ==
    ASSUME ForsettiTyped, [ForsettiNext]_forsettiVars
    PROVE  active' \subseteq Modules /\ activationState' \subseteq Modules
<1>1. active \subseteq Modules /\ activationState \subseteq Modules
  BY DEF ForsettiTyped
<1>2. CASE UNCHANGED moduleVars
  BY <1>1, <1>2 DEF moduleVars
<1>3. ASSUME NEW m, MayStart(m), StartModule(m)
      PROVE  active' \subseteq Modules /\ activationState' \subseteq Modules
  <2>1. m \in Modules
    BY <1>3, UnlockedIsModule DEF MayStart
  <2> QED BY <1>1, <1>3, <2>1 DEF StartModule
<1>4. ASSUME NEW m, StopModule(m)
      PROVE  active' \subseteq Modules /\ activationState' \subseteq Modules
  BY <1>1, <1>4 DEF StopModule
<1>5. CASE Gone
  BY <1>1, <1>5 DEF Gone
<1> QED BY <1>2, <1>3, <1>4, <1>5, ForsettiModuleSteps

\* The documents that a step of a thread leaves.
LEMMA WorkDocuments ==
    ASSUME ForsettiTyped, NEW t \in ForsettiThread, Work(t)
    PROVE  /\ entitlements' \in Document /\ unlockedIds' \in Document
           /\ doc' \in [ForsettiThread -> Document] /\ changed' \in BOOLEAN
<1>1. /\ entitlements \in Document /\ unlockedIds \in Document
      /\ doc \in [ForsettiThread -> Document] /\ changed \in BOOLEAN
  BY DEF ForsettiTyped
<1>2. CASE ReadDocument(t)
  BY <1>1, <1>2 DEF ReadDocument, fileVars
<1>3. CASE WriteDocument(t)
  <2>1. Module(t) \in Modules
    BY <1>3, StepParts DEF WriteDocument, Work
  <2>2. doc[t] \in Document
    BY <1>1
  <2>3. \A yes \in BOOLEAN : Unlocked(t, Module(t), yes) \in Document
    BY <2>1, <2>2 DEF Unlocked, Document
  <2>4. entitlements' \in Document /\ changed' \in BOOLEAN
    BY <1>1, <1>3, <2>3 DEF WriteDocument, fileVars
  <2> QED BY <1>1, <1>3, <2>4, DocumentParts DEF WriteDocument
<1>4. CASE Apply(t)
  BY <1>1, <1>4, DocumentParts DEF Apply, fileVars
<1> QED
  BY <1>1, <1>2, <1>3, <1>4
     DEF Work, Reconcile, Defaults, TryModule, Ask, ModuleStep, fileVars

LEMMA WorkTyped ==
    ASSUME ForsettiTyped, NEW t \in ForsettiThread, Work(t)
    PROVE  ForsettiTyped'
<1>1. todo' \in [ForsettiThread -> Seq(StepRecord)]
  <2>1. ASSUME NEW ns, Brings(t, ns), Continue(t, ns)
        PROVE  todo' \in [ForsettiThread -> Seq(StepRecord)]
    BY <2>1, Goes, WorkGoesOn
  <2>2. ASSUME todo' = [todo EXCEPT ![t] = << >>]
        PROVE  todo' \in [ForsettiThread -> Seq(StepRecord)]
    <3>1. << >> \in Seq(StepRecord)
      OBVIOUS
    <3> QED BY <2>2, <3>1, ThreadMoves
  <2> QED BY <2>1, <2>2, WorkGoesOn
<1>2. active' \subseteq Modules /\ activationState' \subseteq Modules
  BY ActiveTyped DEF ForsettiNext
<1> QED
  BY <1>1, <1>2, WorkDocuments, WorkGoesOn DEF ForsettiTyped

-----------------------------------------------------------------------------
(* The programs of the threads *)

LEMMA Joined ==
    ASSUME NEW S, NEW s \in Seq(S), NEW r \in Seq(S)
    PROVE  /\ s \o r \in Seq(S) /\ Len(s) \in Nat /\ Len(r) \in Nat /\ Len(s \o r) = Len(s) + Len(r)
           /\ DOMAIN (s \o r) = 1 .. Len(s) + Len(r)
           /\ \A i \in 1 .. Len(s) : (s \o r)[i] = s[i]
           /\ \A i \in Len(s) + 1 .. Len(s) + Len(r) :
                 i - Len(s) \in DOMAIN r /\ (s \o r)[i] = r[i - Len(s)]
<1>1. s \o r \in Seq(S) /\ Len(s) \in Nat /\ Len(r) \in Nat /\ Len(s \o r) = Len(s) + Len(r)
      /\ DOMAIN r = 1 .. Len(r)
  OBVIOUS
<1>2. DOMAIN (s \o r) = 1 .. Len(s) + Len(r)
  BY <1>1
<1>3. \A i \in 1 .. Len(s) + Len(r) : (s \o r)[i] = IF i <= Len(s) THEN s[i] ELSE r[i - Len(s)]
  BY <1>1
<1> QED BY <1>1, <1>2, <1>3

LEMMA Appended ==
    ASSUME NEW S, NEW s \in Seq(S), NEW a \in S
    PROVE  /\ s \o << a >> \in Seq(S) /\ Len(s) \in Nat /\ Len(s \o << a >>) = Len(s) + 1
           /\ DOMAIN (s \o << a >>) = 1 .. Len(s) + 1
           /\ \A i \in 1 .. Len(s) : (s \o << a >>)[i] = s[i]
           /\ (s \o << a >>)[Len(s) + 1] = a
<1>1. << a >> \in Seq(S) /\ Len(<< a >>) = 1 /\ << a >>[1] = a
  OBVIOUS
<1>2. Len(s) \in Nat
  OBVIOUS
<1>3. (s \o << a >>)[Len(s) + 1] = << a >>[(Len(s) + 1) - Len(s)]
  BY <1>1, <1>2, Joined
<1>4. (Len(s) + 1) - Len(s) = 1
  BY <1>2
<1>5. (s \o << a >>)[Len(s) + 1] = a
  BY <1>1, <1>3, <1>4
<1> QED BY <1>1, <1>2, <1>5, Joined

\* The refresh of the entitlements.
LEMMA RefreshSteps ==
    /\ Refresh \in Seq(StepRecord) /\ Len(Refresh) = 2 /\ DOMAIN Refresh = 1 .. 2
    /\ Refresh[1].do = "refresh" /\ Refresh[2].do = "apply"
<1> DEFINE a == [do |-> "refresh", module |-> ""]
           b == [do |-> "apply", module |-> ""]
<1>1. a \in StepRecord /\ b \in StepRecord
  BY DEF StepRecord, StepNames
<1>2. Refresh = << a >> \o << b >>
  BY DEF Refresh, Do
<1> HIDE DEF a, b
<1>3. << a >> \in Seq(StepRecord) /\ Len(<< a >>) = 1 /\ << a >>[1] = a
  BY <1>1
<1>4. Refresh \in Seq(StepRecord) /\ Len(Refresh) = 2 /\ Refresh[1] = a /\ Refresh[2] = b
  BY <1>1, <1>2, <1>3, Appended
<1>5. DOMAIN Refresh = 1 .. 2
  BY <1>4
<1>6. a.do = "refresh" /\ b.do = "apply"
  BY DEF a, b
<1> QED BY <1>4, <1>5, <1>6

LEMMA StopAllSteps ==
    ASSUME ForsettiTyped
    PROVE  \E n \in Nat : /\ StopAll \in Seq(StepRecord) /\ Len(StopAll) = n + 1
                          /\ \A i \in 1 .. n : StopAll[i].do = "tryStop"
                          /\ StopAll[n + 1].do = "end"
<1> DEFINE ui == UI(active)
           a == Each("tryStop", active \ ui)
           b == Each("tryStop", ui)
           e == [do |-> "end", module |-> ""]
<1>1. ui \subseteq Modules /\ active \ ui \subseteq Modules
  BY DEF UI, ForsettiTyped
<1> HIDE DEF ui
<1>2. /\ a \in Seq(StepRecord) /\ \A i \in DOMAIN a : a[i].do = "tryStop"
      /\ b \in Seq(StepRecord) /\ \A i \in DOMAIN b : b[i].do = "tryStop"
  BY <1>1, EachBrings
<1>3. e \in StepRecord
  BY DEF StepRecord, StepNames
<1>4. StopAll = (a \o b) \o << e >>
  BY DEF StopAll, Do, ui
<1>5. e.do = "end"
  OBVIOUS
<1> HIDE DEF a, b, e
<1> DEFINE s == a \o b
<1>6. s \in Seq(StepRecord) /\ Len(s) = Len(a) + Len(b) /\ Len(a) \in Nat /\ Len(b) \in Nat
      /\ DOMAIN a = 1 .. Len(a) /\ DOMAIN b = 1 .. Len(b)
      /\ (\A i \in 1 .. Len(a) : s[i] = a[i])
      /\ \A i \in Len(a) + 1 .. Len(a) + Len(b) : i - Len(a) \in DOMAIN b /\ s[i] = b[i - Len(a)]
  BY <1>2, Joined
<1> HIDE DEF s
<1>7. \A i \in 1 .. Len(s) : s[i].do = "tryStop"
  <2> SUFFICES ASSUME NEW i \in 1 .. Len(s) PROVE s[i].do = "tryStop"
    OBVIOUS
  <2>1. CASE i <= Len(a)
    BY <1>2, <1>6, <2>1
  <2>2. CASE i > Len(a)
    <3>1. i \in Len(a) + 1 .. Len(a) + Len(b)
      BY <1>6, <2>2
    <3> QED BY <1>2, <1>6, <3>1
  <2> QED BY <1>6, <2>1, <2>2
<1>8. /\ StopAll \in Seq(StepRecord) /\ Len(s) \in Nat /\ Len(StopAll) = Len(s) + 1
      /\ \A i \in 1 .. Len(s) : StopAll[i] = s[i]
      /\ StopAll[Len(s) + 1] = e
  BY <1>3, <1>4, <1>6, Appended DEF s
<1> QED BY <1>5, <1>7, <1>8

\* What the main thread does in a run: it starts in the second step of a refresh and a
\* subscription, restores modules, and has four steps left then.
BootSteps ==
    Refresh \o Do("subscribe", "") \o Each("tryStart", activationState \ UI(activationState))
    \o Each("tryStart", UI(activationState)) \o Do("booted", "")
    \o Do("subscribe", "") \o Do("defaults", "") \o Do("http", "")
BootProgram(r, n) ==
    /\ r \in Seq(StepRecord) /\ n \in Nat /\ n >= 3 /\ Len(r) = n + 4
    /\ r[1].do = "refresh" /\ r[2].do = "apply" /\ r[3].do = "subscribe"
    /\ \A i \in 4 .. n : r[i].do = "tryStart"
    /\ r[n + 1].do = "booted" /\ r[n + 2].do = "subscribe" /\ r[n + 3].do = "defaults"
    /\ r[n + 4].do = "http"

LEMMA BootStepsAre ==
    ASSUME ForsettiTyped
    PROVE  \E n : BootProgram(BootSteps, n)
<1> DEFINE ui == UI(activationState)
           a == Each("tryStart", activationState \ ui)
           b == Each("tryStart", ui)
           P(step) == [do |-> step, module |-> ""]
<1>1. ui \subseteq Modules /\ activationState \ ui \subseteq Modules
  BY DEF UI, ForsettiTyped
<1> HIDE DEF ui
<1>2. /\ a \in Seq(StepRecord) /\ \A i \in DOMAIN a : a[i].do = "tryStart"
      /\ b \in Seq(StepRecord) /\ \A i \in DOMAIN b : b[i].do = "tryStart"
  BY <1>1, EachBrings
<1>3. \A step \in StepNames : step \notin {"unlock", "lock"} =>
          P(step) \in StepRecord /\ P(step).do = step
  BY DEF StepRecord
<1>4. /\ P("subscribe") \in StepRecord /\ P("subscribe").do = "subscribe"
      /\ P("booted") \in StepRecord /\ P("booted").do = "booted"
      /\ P("defaults") \in StepRecord /\ P("defaults").do = "defaults"
      /\ P("http") \in StepRecord /\ P("http").do = "http"
  BY <1>3 DEF StepNames
<1> DEFINE s3 == Refresh \o << P("subscribe") >>
           t1 == s3 \o a
           t2 == t1 \o b
           u1 == t2 \o << P("booted") >>
           u2 == u1 \o << P("subscribe") >>
           u3 == u2 \o << P("defaults") >>
           u4 == u3 \o << P("http") >>
<1>5. BootSteps = u4
  BY DEF BootSteps, Do, ui
<1> HIDE DEF a, b, P
<1>6. /\ s3 \in Seq(StepRecord) /\ Len(s3) = 3
      /\ s3[1].do = "refresh" /\ s3[2].do = "apply" /\ s3[3].do = "subscribe"
  <2> DEFINE f == Refresh
  <2>0. f \in Seq(StepRecord) /\ Len(f) = 2 /\ s3 = f \o << P("subscribe") >>
    BY RefreshSteps
  <2>1. /\ s3 \in Seq(StepRecord) /\ Len(s3) = Len(f) + 1 /\ s3[Len(f) + 1] = P("subscribe")
        /\ \A i \in 1 .. Len(f) : s3[i] = f[i]
    <3> HIDE DEF f, s3
    <3>1. f \in Seq(StepRecord) /\ P("subscribe") \in StepRecord
      BY <1>4, <2>0
    <3>2. s3 = f \o << P("subscribe") >>
      BY <2>0
    <3> QED BY <3>1, <3>2, Appended
  <2> HIDE DEF s3
  <2>2. Refresh[1].do = "refresh" /\ Refresh[2].do = "apply"
    BY RefreshSteps
  <2>3. s3[1] = Refresh[1] /\ s3[2] = Refresh[2] /\ s3[3] = P("subscribe") /\ Len(s3) = 3
    <3> HIDE DEF f
    <3>1. s3[1] = f[1] /\ s3[2] = f[2] /\ s3[3] = P("subscribe") /\ Len(s3) = 3
      BY <2>0, <2>1
    <3> QED BY <3>1 DEF f
  <2> QED BY <1>4, <2>1, <2>2, <2>3
<1> HIDE DEF s3
<1>7. /\ t1 \in Seq(StepRecord) /\ Len(t1) = 3 + Len(a) /\ Len(a) \in Nat
      /\ (\A i \in 1 .. 3 : t1[i] = s3[i])
      /\ \A i \in 4 .. Len(t1) : t1[i].do = "tryStart"
  <2>0. /\ t1 \in Seq(StepRecord) /\ Len(t1) = Len(s3) + Len(a) /\ Len(a) \in Nat
        /\ (\A i \in 1 .. Len(s3) : t1[i] = s3[i])
        /\ \A i \in Len(s3) + 1 .. Len(s3) + Len(a) : i - Len(s3) \in DOMAIN a /\ t1[i] = a[i - Len(s3)]
    <3> HIDE DEF a
    <3>1. s3 \in Seq(StepRecord) /\ a \in Seq(StepRecord)
      BY <1>2, <1>6
    <3> QED BY <3>1, Joined
  <2> HIDE DEF t1
  <2>1. /\ t1 \in Seq(StepRecord) /\ Len(t1) = 3 + Len(a) /\ Len(a) \in Nat
        /\ (\A i \in 1 .. 3 : t1[i] = s3[i])
        /\ \A i \in 3 + 1 .. 3 + Len(a) : i - 3 \in DOMAIN a /\ t1[i] = a[i - 3]
    BY <1>6, <2>0
  <2>2. \A i \in 4 .. Len(t1) : i \in 3 + 1 .. 3 + Len(a)
    BY <2>1
  <2>3. \A i \in 4 .. Len(t1) : t1[i].do = "tryStart"
    BY <1>2, <2>1, <2>2
  <2> QED BY <2>1, <2>3
<1> HIDE DEF t1
<1> DEFINE n == Len(t2)
<1>8. /\ t2 \in Seq(StepRecord) /\ n \in Nat /\ n >= 3
      /\ (\A i \in 1 .. 3 : t2[i] = s3[i])
      /\ \A i \in 4 .. n : t2[i].do = "tryStart"
  <2>1. /\ t2 \in Seq(StepRecord) /\ n = Len(t1) + Len(b) /\ Len(b) \in Nat
        /\ (\A i \in 1 .. Len(t1) : t2[i] = t1[i])
        /\ \A i \in Len(t1) + 1 .. Len(t1) + Len(b) : i - Len(t1) \in DOMAIN b /\ t2[i] = b[i - Len(t1)]
    <3> HIDE DEF a, b, t1
    <3>1. t1 \in Seq(StepRecord) /\ b \in Seq(StepRecord)
      BY <1>2, <1>7
    <3> QED BY <3>1, Joined
  <2> HIDE DEF t2
  <2>2. Len(t1) \in Nat /\ Len(t1) >= 3
    BY <1>7
  <2>3. ASSUME NEW i \in 4 .. n PROVE t2[i].do = "tryStart"
    <3>1. CASE i <= Len(t1)
      BY <1>7, <2>1, <2>2, <3>1
    <3>2. CASE i > Len(t1)
      <4>1. i \in Len(t1) + 1 .. Len(t1) + Len(b)
        BY <2>1, <2>2, <3>2
      <4> QED BY <1>2, <2>1, <4>1
    <3> QED BY <2>2, <3>1, <3>2
  <2> QED BY <1>7, <2>1, <2>2, <2>3
<1> HIDE DEF t2
<1> HIDE DEF n
<1>9. /\ u1 \in Seq(StepRecord) /\ Len(u1) = n + 1 /\ u1[n + 1].do = "booted"
      /\ \A i \in 1 .. n : u1[i] = t2[i]
  BY <1>4, <1>8, Appended DEF n
<1> HIDE DEF u1
<1>10. /\ u2 \in Seq(StepRecord) /\ Len(u2) = (n + 1) + 1 /\ u2[(n + 1) + 1].do = "subscribe"
       /\ \A i \in 1 .. n + 1 : u2[i] = u1[i]
  BY <1>4, <1>9, Appended
<1> HIDE DEF u2
<1>11. /\ u3 \in Seq(StepRecord) /\ Len(u3) = ((n + 1) + 1) + 1 /\ u3[((n + 1) + 1) + 1].do = "defaults"
       /\ \A i \in 1 .. (n + 1) + 1 : u3[i] = u2[i]
  BY <1>4, <1>10, Appended
<1> HIDE DEF u3
<1>12. /\ u4 \in Seq(StepRecord) /\ Len(u4) = (((n + 1) + 1) + 1) + 1
       /\ u4[(((n + 1) + 1) + 1) + 1].do = "http"
       /\ \A i \in 1 .. ((n + 1) + 1) + 1 : u4[i] = u3[i]
  BY <1>4, <1>11, Appended
<1> HIDE DEF u4
<1>13. /\ (n + 1) + 1 = n + 2 /\ ((n + 1) + 1) + 1 = n + 3 /\ (((n + 1) + 1) + 1) + 1 = n + 4
  BY <1>8
<1>14. /\ u4 \in Seq(StepRecord) /\ Len(u4) = n + 4 /\ u4[n + 4].do = "http"
       /\ u4[n + 3].do = "defaults" /\ u4[n + 2].do = "subscribe" /\ u4[n + 1].do = "booted"
       /\ \A i \in 1 .. n : u4[i] = t2[i]
  <2>1. \A i \in 1 .. n + 3 : u4[i] = u3[i]
    BY <1>12, <1>13
  <2>2. \A i \in 1 .. n + 2 : u3[i] = u2[i]
    BY <1>11, <1>13
  <2>3. n + 1 \in 1 .. n + 2 /\ n + 2 \in 1 .. n + 2 /\ n + 3 \in 1 .. n + 3
        /\ n + 1 \in 1 .. n + 3 /\ n + 2 \in 1 .. n + 3 /\ n + 1 \in 1 .. n + 1
    BY <1>8
  <2>4. \A i \in 1 .. n : i \in 1 .. n + 1 /\ i \in 1 .. n + 2 /\ i \in 1 .. n + 3
    BY <1>8
  <2> QED BY <1>9, <1>10, <1>11, <1>12, <1>13, <2>1, <2>2, <2>3, <2>4
<1>15. u4[1].do = "refresh" /\ u4[2].do = "apply" /\ u4[3].do = "subscribe"
       /\ \A i \in 4 .. n : u4[i].do = "tryStart"
  <2>1. 1 \in 1 .. n /\ 2 \in 1 .. n /\ 3 \in 1 .. n /\ \A i \in 4 .. n : i \in 1 .. n
    BY <1>8
  <2> QED BY <1>6, <1>8, <1>14, <2>1
<1>16. BootProgram(u4, n)
  BY <1>8, <1>14, <1>15 DEF BootProgram
<1> QED BY <1>5, <1>16

LEMMA TwoSteps ==
    ASSUME NEW S, NEW a \in S, NEW b \in S
    PROVE  /\ << a >> \o << b >> \in Seq(S) /\ Len(<< a >> \o << b >>) = 2
           /\ (<< a >> \o << b >>)[1] = a /\ (<< a >> \o << b >>)[2] = b
<1> DEFINE s == << a >>
           r == s \o << b >>
<1>1. s \in Seq(S) /\ Len(s) = 1 /\ s[1] = a
  OBVIOUS
<1> HIDE DEF s
<1>2. r \in Seq(S) /\ Len(r) = Len(s) + 1 /\ r[Len(s) + 1] = b /\ \A i \in 1 .. Len(s) : r[i] = s[i]
  <2>1. s \in Seq(S)
    BY <1>1
  <2> QED BY <2>1, Appended
<1> HIDE DEF r
<1>3. r \in Seq(S) /\ Len(r) = 2 /\ r[2] = b /\ r[1] = a
  BY <1>1, <1>2
<1> QED BY <1>3 DEF r, s

LEMMA FourSteps ==
    ASSUME NEW S, NEW a \in S, NEW b \in S, NEW c \in S, NEW d \in S
    PROVE  LET r == (<< a >> \o << b >>) \o (<< c >> \o << d >>)
           IN  r \in Seq(S) /\ Len(r) = 4 /\ r[1] = a /\ r[2] = b /\ r[3] = c /\ r[4] = d
<1> DEFINE p == << a >> \o << b >>
           q == << c >> \o << d >>
<1>2. p \in Seq(S) /\ Len(p) = 2 /\ p[1] = a /\ p[2] = b
  BY TwoSteps
<1>3. q \in Seq(S) /\ Len(q) = 2 /\ q[1] = c /\ q[2] = d
  BY TwoSteps
<1> HIDE DEF p, q
<1>4. p \o q \in Seq(S) /\ Len(p \o q) = 4
      /\ (\A i \in 1 .. 2 : (p \o q)[i] = p[i]) /\ \A i \in 3 .. 4 : (p \o q)[i] = q[i - 2]
  <2>1. p \o q \in Seq(S) /\ Len(p \o q) = Len(p) + Len(q)
        /\ (\A i \in 1 .. Len(p) : (p \o q)[i] = p[i])
        /\ \A i \in Len(p) + 1 .. Len(p) + Len(q) : (p \o q)[i] = q[i - Len(p)]
    <3>1. p \in Seq(S) /\ q \in Seq(S)
      BY <1>2, <1>3
    <3> QED BY <3>1, Joined
  <2> QED BY <1>2, <1>3, <2>1
<1>5. (p \o q)[1] = p[1] /\ (p \o q)[2] = p[2] /\ (p \o q)[3] = q[1] /\ (p \o q)[4] = q[2]
  BY <1>4
<1>6. p \o q \in Seq(S) /\ Len(p \o q) = 4
      /\ (p \o q)[1] = a /\ (p \o q)[2] = b /\ (p \o q)[3] = c /\ (p \o q)[4] = d
  BY <1>2, <1>3, <1>4, <1>5
<1> QED BY <1>6 DEF p, q

\* The steps of the guided actions.
PlainStep(step) == [do |-> step, module |-> ""]
NamedStep(step, m) == [do |-> step, module |-> m]
Relocks(q, k, m, lock) ==
    q[k] = NamedStep("read", m) /\ q[k + 1] = NamedStep(lock, m) /\ q[k + 2] = PlainStep("refresh") /\ q[k + 3] = PlainStep("apply")
GuidedProgram(q, m, action) ==
    /\ q \in Seq(StepRecord)
    /\ \/ /\ action = "enable" /\ Len(q) = 5
          /\ Relocks(q, 1, m, "unlock") /\ q[5] = NamedStep("startUnlessActive", m)
       \/ /\ action = "update" /\ Len(q) = 6 /\ Relocks(q, 1, m, "unlock")
          /\ q[5] = NamedStep("stopIfActive", m) /\ q[6] = NamedStep("start", m)
       \/ /\ action = "disable" /\ Len(q) = 5
          /\ q[1] = NamedStep("stopIfActive", m) /\ Relocks(q, 2, m, "lock")

LEMMA GuidedStepsAre ==
    ASSUME NEW m \in Modules, NEW action \in {"enable", "update", "disable"}
    PROVE  GuidedProgram(manageSteps(m, action), m, action)
<1>1. /\ \A step \in {"read", "unlock", "lock", "startUnlessActive", "stopIfActive", "start"} :
            NamedStep(step, m) \in StepRecord
      /\ \A step \in {"refresh", "apply"} : PlainStep(step) \in StepRecord
  BY DEF StepRecord, StepNames, NamedStep, PlainStep
<1> DEFINE Four(lock) ==
             (<< NamedStep("read", m) >> \o << NamedStep(lock, m) >>) \o (<< PlainStep("refresh") >> \o << PlainStep("apply") >>)
<1>2. /\ SetModuleUnlocked(m, TRUE) = Four("unlock")
      /\ SetModuleUnlocked(m, FALSE) = Four("lock")
  BY DEF SetModuleUnlocked, Refresh, Do, NamedStep, PlainStep
<1>3. \A lock \in {"unlock", "lock"} :
        /\ Four(lock) \in Seq(StepRecord) /\ Len(Four(lock)) = 4
        /\ Four(lock)[1] = NamedStep("read", m) /\ Four(lock)[2] = NamedStep(lock, m)
        /\ Four(lock)[3] = PlainStep("refresh") /\ Four(lock)[4] = PlainStep("apply")
  <2> SUFFICES ASSUME NEW lock \in {"unlock", "lock"}
               PROVE  /\ Four(lock) \in Seq(StepRecord) /\ Len(Four(lock)) = 4
                      /\ Four(lock)[1] = NamedStep("read", m) /\ Four(lock)[2] = NamedStep(lock, m)
                      /\ Four(lock)[3] = PlainStep("refresh") /\ Four(lock)[4] = PlainStep("apply")
    OBVIOUS
  <2>1. NamedStep("read", m) \in StepRecord /\ NamedStep(lock, m) \in StepRecord
        /\ PlainStep("refresh") \in StepRecord /\ PlainStep("apply") \in StepRecord
    BY <1>1
  <2> QED BY <2>1, FourSteps
<1>4. /\ manageSteps(m, "enable") = Four("unlock") \o << NamedStep("startUnlessActive", m) >>
      /\ manageSteps(m, "update") = (Four("unlock") \o << NamedStep("stopIfActive", m) >>) \o << NamedStep("start", m) >>
      /\ manageSteps(m, "disable") = << NamedStep("stopIfActive", m) >> \o Four("lock")
  BY <1>2 DEF manageSteps, Do, NamedStep
<1> HIDE DEF Four
<1>5. ASSUME NEW e \in StepRecord, NEW q, q = Four("unlock") \o << e >>
      PROVE  q \in Seq(StepRecord) /\ Len(q) = 5 /\ Relocks(q, 1, m, "unlock") /\ q[5] = e
  <2>1. q \in Seq(StepRecord) /\ Len(q) = 5 /\ q[5] = e
        /\ q[1] = Four("unlock")[1] /\ q[2] = Four("unlock")[2] /\ q[3] = Four("unlock")[3]
        /\ q[4] = Four("unlock")[4]
    <3> DEFINE f == Four("unlock")
    <3>1. f \in Seq(StepRecord) /\ Len(f) = 4
      BY <1>3
    <3>2. q = f \o << e >>
      BY <1>5
    <3> HIDE DEF f
    <3>3. q \in Seq(StepRecord) /\ Len(q) = Len(f) + 1 /\ q[Len(f) + 1] = e
          /\ \A i \in 1 .. Len(f) : q[i] = f[i]
      <4>1. f \in Seq(StepRecord)
        BY <3>1
      <4> QED BY <3>2, <4>1, Appended
    <3>4. Len(f) + 1 = 5 /\ 1 \in 1 .. Len(f) /\ 2 \in 1 .. Len(f) /\ 3 \in 1 .. Len(f) /\ 4 \in 1 .. Len(f)
      BY <3>1
    <3>5. q \in Seq(StepRecord) /\ Len(q) = 5 /\ q[5] = e
          /\ q[1] = f[1] /\ q[2] = f[2] /\ q[3] = f[3] /\ q[4] = f[4]
      BY <3>3, <3>4
    <3> QED BY <3>5 DEF f
  <2>2. 1 + 1 = 2 /\ 1 + 2 = 3 /\ 1 + 3 = 4
    OBVIOUS
  <2> QED BY <1>3, <2>1, <2>2 DEF Relocks
<1>6. CASE action = "enable"
  <2>1. NamedStep("startUnlessActive", m) \in StepRecord
    BY <1>1
  <2> QED BY <1>4, <1>5, <1>6, <2>1 DEF GuidedProgram
<1>7. CASE action = "update"
  <2> DEFINE f == Four("unlock") \o << NamedStep("stopIfActive", m) >>
             q == f \o << NamedStep("start", m) >>
  <2>1. NamedStep("stopIfActive", m) \in StepRecord /\ NamedStep("start", m) \in StepRecord
    BY <1>1
  <2>2. f \in Seq(StepRecord) /\ Len(f) = 5 /\ Relocks(f, 1, m, "unlock") /\ f[5] = NamedStep("stopIfActive", m)
    BY <1>5, <2>1
  <2>3. manageSteps(m, action) = q
    BY <1>4, <1>7
  <2> HIDE DEF f
  <2>4. q \in Seq(StepRecord) /\ Len(q) = Len(f) + 1 /\ q[Len(f) + 1] = NamedStep("start", m)
        /\ \A i \in 1 .. Len(f) : q[i] = f[i]
    <3>1. f \in Seq(StepRecord) /\ NamedStep("start", m) \in StepRecord
      BY <2>1, <2>2
    <3> QED BY <3>1, Appended
  <2> HIDE DEF q
  <2>5. Len(f) + 1 = 6 /\ 1 \in 1 .. Len(f) /\ 2 \in 1 .. Len(f) /\ 3 \in 1 .. Len(f) /\ 4 \in 1 .. Len(f)
        /\ 5 \in 1 .. Len(f)
    BY <2>2
  <2>6. Len(q) = 6 /\ q[6] = NamedStep("start", m) /\ q[1] = f[1] /\ q[2] = f[2] /\ q[3] = f[3]
        /\ q[4] = f[4] /\ q[5] = f[5]
    BY <2>4, <2>5
  <2>7. Relocks(q, 1, m, "unlock")
    <3>1. 1 + 1 = 2 /\ 1 + 2 = 3 /\ 1 + 3 = 4
      OBVIOUS
    <3> QED BY <2>2, <2>6, <3>1 DEF Relocks
  <2> QED BY <1>7, <2>2, <2>3, <2>4, <2>6, <2>7 DEF GuidedProgram
<1>8. CASE action = "disable"
  <2> DEFINE f == Four("lock")
             e == << NamedStep("stopIfActive", m) >>
             q == e \o f
  <2>1. e \in Seq(StepRecord) /\ Len(e) = 1 /\ e[1] = NamedStep("stopIfActive", m)
    BY <1>1
  <2>2. f \in Seq(StepRecord) /\ Len(f) = 4
    BY <1>3
  <2>3. manageSteps(m, action) = q
    BY <1>4, <1>8
  <2>4. f[1] = NamedStep("read", m) /\ f[2] = NamedStep("lock", m) /\ f[3] = PlainStep("refresh") /\ f[4] = PlainStep("apply")
    BY <1>3
  <2> HIDE DEF e, f
  <2>5. q \in Seq(StepRecord) /\ Len(q) = Len(e) + Len(f)
        /\ (\A i \in 1 .. Len(e) : q[i] = e[i])
        /\ \A i \in Len(e) + 1 .. Len(e) + Len(f) : q[i] = f[i - Len(e)]
    BY <2>1, <2>2, Joined
  <2> HIDE DEF q
  <2>6. Len(q) = 5 /\ q[1] = e[1] /\ q[2] = f[1] /\ q[3] = f[2] /\ q[4] = f[3] /\ q[5] = f[4]
    BY <2>1, <2>2, <2>5
  <2>7. Relocks(q, 2, m, "lock")
    <3>1. 2 + 1 = 3 /\ 2 + 2 = 4 /\ 2 + 3 = 5
      OBVIOUS
    <3> QED BY <2>4, <2>6, <3>1 DEF Relocks
  <2> QED BY <1>8, <2>1, <2>3, <2>5, <2>6, <2>7 DEF GuidedProgram
<1> QED BY <1>6, <1>7, <1>8
-----------------------------------------------------------------------------
(* The other actions: types and turns *)

BookKept == ForsettiTyped /\ SubscribesTwice /\ ForsettiTurns

LEMMA BootProgramHas ==
    ASSUME NEW r, NEW n, BootProgram(r, n)
    PROVE  /\ DOMAIN r = 1 .. n + 4
           /\ \A i \in DOMAIN r :
                \/ i = 1 /\ r[i].do = "refresh"
                \/ i = 2 /\ r[i].do = "apply"
                \/ i = 3 /\ r[i].do = "subscribe"
                \/ i \in 4 .. n /\ r[i].do = "tryStart"
                \/ i = n + 1 /\ r[i].do = "booted"
                \/ i = n + 2 /\ r[i].do = "subscribe"
                \/ i = n + 3 /\ r[i].do = "defaults"
                \/ i = n + 4 /\ r[i].do = "http"
<1>1. n \in Nat /\ n >= 3 /\ r \in Seq(StepRecord) /\ Len(r) = n + 4
  BY DEF BootProgram
<1>2. DOMAIN r = 1 .. n + 4
  BY <1>1
<1>3. ASSUME NEW i \in 1 .. n + 4
      PROVE  i = 1 \/ i = 2 \/ i = 3 \/ i \in 4 .. n \/ i = n + 1 \/ i = n + 2 \/ i = n + 3 \/ i = n + 4
  BY <1>1
<1> QED BY <1>2, <1>3 DEF BootProgram

LEMMA StopAllHas ==
    ASSUME ForsettiTyped
    PROVE  /\ StopAll \in Seq(StepRecord)
           /\ \A i \in DOMAIN StopAll :
                StopAll[i].do \in {"tryStop", "end"} /\ (StopAll[i].do = "end" => i = Len(StopAll))
<1>1. PICK n \in Nat : /\ StopAll \in Seq(StepRecord) /\ Len(StopAll) = n + 1
                       /\ \A i \in 1 .. n : StopAll[i].do = "tryStop"
                       /\ StopAll[n + 1].do = "end"
  BY StopAllSteps
<1> DEFINE s == StopAll
<1>2. s \in Seq(StepRecord) /\ DOMAIN s = 1 .. n + 1
  BY <1>1
<1>3. \A i \in 1 .. n + 1 : i \in 1 .. n \/ i = n + 1
  OBVIOUS
<1> QED BY <1>1, <1>2, <1>3

LEMMA ManageTurns ==
    ASSUME BookKept, NEW c \in ModuleCaller, manageForsettiModule(c)
    PROVE  BookKept'
<1>1. PICK m \in Modules, action \in {"enable", "update", "disable"} :
        todo' = [todo EXCEPT ![c] = IF Refused(m, action) THEN << >> ELSE manageSteps(m, action)]
  BY DEF manageForsettiModule
<1> DEFINE q == IF Refused(m, action) THEN << >> ELSE manageSteps(m, action)
<1>2. q \in Seq(StepRecord)
  BY GuidedStepsAre DEF GuidedProgram
<1> HIDE DEF q
<1>3. /\ todo' \in [ForsettiThread -> Seq(StepRecord)]
      /\ \A u \in ForsettiThread : u # c => todo'[u] = todo[u]
  BY <1>1, <1>2, ThreadMoves, ThreadsApart DEF q, BookKept
<1>4. phase = "up"
  BY DEF manageForsettiModule
<1>5. UNCHANGED << entitlements, changed, unlockedIds, callbacks, active, activationState, doc, phase, edits >>
  BY DEF manageForsettiModule, fileVars, moduleVars
<1>6. todo'["main"] = todo["main"]
  BY <1>3, ThreadsApart
<1>7. ForsettiTyped' /\ SubscribesTwice'
  BY <1>3, <1>5, <1>6 DEF BookKept, ForsettiTyped, SubscribesTwice
<1>8. ForsettiTurns'
  <2>1. \A t \in ForsettiThread : \A i \in DOMAIN todo'[t] : todo'[t][i].do \in Guided => t \in ModuleCaller
    BY <1>3 DEF BookKept, ForsettiTurns
  <2> QED BY <1>4, <1>5, <1>6, <2>1 DEF BookKept, ForsettiTurns, Off
<1> QED BY <1>7, <1>8 DEF BookKept

LEMMA EditTurns ==
    ASSUME BookKept, EditFile
    PROVE  BookKept'
<1>1. PICK m \in Modules, field \in {"modules", "products"} :
        /\ field = "products" => m \in Product
        /\ entitlements' = [entitlements EXCEPT ![field] = IF m \in @ THEN @ \ {m} ELSE @ \cup {m}]
  BY DEF EditFile
<1>2. entitlements' \in Document
  <2>1. entitlements \in Document
    BY DEF BookKept, ForsettiTyped
  <2>2. CASE field = "modules"
    BY <1>1, <2>1, <2>2 DEF Document
  <2>3. CASE field = "products"
    BY <1>1, <2>1, <2>3 DEF Document
  <2> QED BY <2>2, <2>3
<1>3. UNCHANGED << unlockedIds, callbacks, active, activationState, todo, doc, phase >>
      /\ changed' = TRUE /\ edits' = edits + 1
  BY DEF EditFile, moduleVars
<1> QED BY <1>2, <1>3 DEF BookKept, ForsettiTyped, SubscribesTwice, ForsettiTurns

LEMMA WatchTurns ==
    ASSUME BookKept, Watch
    PROVE  BookKept'
<1>1. /\ todo' \in [ForsettiThread -> Seq(StepRecord)] /\ todo'["watcher"] = Refresh
      /\ \A u \in ForsettiThread : u # "watcher" => todo'[u] = todo[u]
  BY RefreshSteps, ThreadMoves, ThreadsApart DEF Watch, BookKept
<1>2. UNCHANGED << entitlements, unlockedIds, callbacks, active, activationState, doc, phase, edits >>
      /\ changed' = FALSE /\ phase # Off
  BY DEF Watch, moduleVars, countVars
<1>3. todo'["main"] = todo["main"] /\ \A c \in ModuleCaller : todo'[c] = todo[c]
  BY <1>1, ThreadsApart
<1>4. ForsettiTyped' /\ SubscribesTwice'
  <2>1. ForsettiTyped'
    BY <1>1, <1>2 DEF BookKept, ForsettiTyped
  <2> QED BY <1>2, <1>3, <2>1 DEF BookKept, SubscribesTwice
<1>5. \A i \in DOMAIN Refresh : Refresh[i].do \notin Guided
  <2>1. DOMAIN Refresh = 1 .. 2
    BY RefreshSteps
  <2>2. \A i \in 1 .. 2 : i = 1 \/ i = 2
    OBVIOUS
  <2>3. Refresh[1].do = "refresh" /\ Refresh[2].do = "apply"
    BY RefreshSteps
  <2> QED BY <2>1, <2>2, <2>3 DEF Guided
<1>6. ForsettiTurns'
  <2>1. \A t \in ForsettiThread : \A i \in DOMAIN todo'[t] : todo'[t][i].do \in Guided => t \in ModuleCaller
    BY <1>1, <1>5 DEF BookKept, ForsettiTurns
  <2> QED BY <1>2, <1>3, <2>1 DEF BookKept, ForsettiTurns
<1> QED BY <1>4, <1>6 DEF BookKept

LEMMA BootTurns ==
    ASSUME BookKept, Boot
    PROVE  BookKept'
<1>1. PICK n : BootProgram(BootSteps, n)
  BY BootStepsAre DEF BookKept
<1>2. todo' = [todo EXCEPT !["main"] = BootSteps]
  BY DEF Boot, BootSteps
<1> DEFINE r == BootSteps
<1>3. r \in Seq(StepRecord) /\ n \in Nat /\ n >= 3 /\ Len(r) = n + 4
  BY <1>1 DEF BootProgram
<1> HIDE DEF r
<1>4. /\ todo' \in [ForsettiThread -> Seq(StepRecord)] /\ todo'["main"] = r
      /\ \A u \in ForsettiThread : u # "main" => todo'[u] = << >>
  <2>1. /\ todo' \in [ForsettiThread -> Seq(StepRecord)] /\ todo'["main"] = r
        /\ \A u \in ForsettiThread : u # "main" => todo'[u] = todo[u]
    BY <1>2, <1>3, ThreadMoves, ThreadsApart DEF BookKept, r
  <2> QED BY <2>1 DEF Boot, BookKept, ForsettiTurns
<1>5. /\ entitlements' = entitlements /\ unlockedIds' = entitlements /\ callbacks' = 0
      /\ changed' = FALSE /\ UNCHANGED << active, activationState, doc, edits >> /\ phase' = "starting"
  BY DEF Boot, moduleVars
<1>6. ForsettiTyped'
  <2>1. /\ entitlements' \in Document /\ unlockedIds' \in Document
        /\ active' \subseteq Modules /\ activationState' \subseteq Modules
        /\ doc' \in [ForsettiThread -> Document]
    BY <1>5 DEF BookKept, ForsettiTyped
  <2>2. callbacks' \in 0 .. 2
    BY <1>5
  <2>3. changed' \in BOOLEAN
    BY <1>5
  <2>4. edits' \in Nat
    BY <1>5 DEF BookKept, ForsettiTyped
  <2>5. phase' \in {Off, "starting", "booted", "up", "stopping"}
    BY <1>5
  <2> QED BY <1>4, <2>1, <2>2, <2>3, <2>4, <2>5 DEF ForsettiTyped
<1>7. \A i \in DOMAIN r : /\ r[i].do = "subscribe" => i = 3 \/ i = n + 2
                          /\ r[i].do \notin Guided
                          /\ r[i].do \in {"http", "end"} => i = Len(r)
  BY <1>1, <1>3, BootProgramHas DEF r, Guided
<1>8. SubscribesTwice'
  BY <1>4, <1>5, <1>7 DEF SubscribesTwice
<1>9. ForsettiTurns'
  <2>1. \A t \in ForsettiThread : \A i \in DOMAIN todo'[t] : todo'[t][i].do \in Guided => t \in ModuleCaller
    BY <1>4, <1>7
  <2>2. \A c \in ModuleCaller : todo'[c] = << >>
    BY <1>4, ThreadsApart
  <2> QED BY <1>4, <1>5, <1>7, <2>1, <2>2 DEF ForsettiTurns, Off
<1> QED BY <1>6, <1>8, <1>9 DEF BookKept

LEMMA SubscribeTurns ==
    ASSUME BookKept, Subscribe
    PROVE  BookKept'
<1>1. /\ "main" \in ForsettiThread /\ Busy("main") /\ Brings("main", << >>)
      /\ Continue("main", << >>)
  BY ThreadsApart, EmptyBrings DEF Subscribe
<1>2. /\ UNCHANGED << entitlements, changed, unlockedIds, active, activationState, doc, edits >>
      /\ \/ Step("main") = "booted" /\ phase' = "booted" /\ callbacks' = callbacks
         \/ Step("main") = "subscribe" /\ callbacks' = callbacks + 1 /\ phase' = phase
  BY DEF Subscribe, fileVars, moduleVars, countVars
<1>3. SubscribesTwice' /\ callbacks' \in 0 .. 2
  BY <1>1, <1>2, GoesOnSubscribed DEF BookKept
<1>4. 1 \in DOMAIN todo["main"]
  BY <1>1, StepParts DEF BookKept
<1>5. Step("main") = "booted" => phase \in {"starting", "booted"}
  BY <1>1, <1>4 DEF BookKept, ForsettiTyped, ForsettiTurns, Busy, Step
<1>6. ForsettiTurns'
  BY <1>1, <1>2, <1>5, GoesOnTurns DEF BookKept
<1>7. todo' \in [ForsettiThread -> Seq(StepRecord)]
  BY <1>1, Goes DEF BookKept
<1>8. phase' \in {Off, "starting", "booted", "up", "stopping"}
  BY <1>2 DEF BookKept, ForsettiTyped
<1> QED BY <1>2, <1>3, <1>6, <1>7, <1>8 DEF BookKept, ForsettiTyped

\* The runtime is shut down, and no request is left.
LEMMA MainStops ==
    ASSUME BookKept, todo' = [todo EXCEPT !["main"] = StopAll], phase' = "stopping",
           \A c \in ModuleCaller : todo[c] = << >>, callbacks' = callbacks
    PROVE  /\ todo' \in [ForsettiThread -> Seq(StepRecord)] /\ SubscribesTwice' /\ ForsettiTurns'
           /\ todo'["main"] = StopAll /\ \A u \in ForsettiThread : u # "main" => todo'[u] = todo[u]
<1> DEFINE s == StopAll
<1>1. s \in Seq(StepRecord)
      /\ \A i \in DOMAIN s : s[i].do \in {"tryStop", "end"} /\ (s[i].do = "end" => i = Len(s))
  BY StopAllHas DEF BookKept
<1> HIDE DEF s
<1>2. /\ todo' \in [ForsettiThread -> Seq(StepRecord)] /\ todo'["main"] = s
      /\ \A u \in ForsettiThread : u # "main" => todo'[u] = todo[u]
  BY <1>1, ThreadMoves, ThreadsApart DEF BookKept, s
<1>3. SubscribesTwice'
  BY <1>1, <1>2 DEF SubscribesTwice
<1>4. ForsettiTurns'
  <2>1. \A t \in ForsettiThread : \A i \in DOMAIN todo'[t] : todo'[t][i].do \in Guided => t \in ModuleCaller
    BY <1>1, <1>2 DEF BookKept, ForsettiTurns, Guided
  <2>2. \A c \in ModuleCaller : todo'[c] = << >>
    BY <1>2, ThreadsApart
  <2>3. \A i \in DOMAIN todo'["main"] : /\ todo'["main"][i].do \notin {"http", "booted"}
                                        /\ todo'["main"][i].do = "end" => i = Len(todo'["main"])
    BY <1>1, <1>2
  <2> QED BY <2>1, <2>2, <2>3 DEF ForsettiTurns, Off
<1> QED BY <1>2, <1>3, <1>4 DEF s

\* The start of the HTTP server is the last step of the main thread.
LEMMA HttpIsLast ==
    ASSUME BookKept, Busy("main"), Step("main") = "http"
    PROVE  /\ Rest("main") = << >> /\ Len(todo["main"]) = 1 /\ 1 \in DOMAIN todo["main"]
           /\ phase \in {"starting", "booted"} /\ \A c \in ModuleCaller : todo[c] = << >>
<1> DEFINE s == todo["main"]
<1>1. s \in Seq(StepRecord) /\ s # << >> /\ 1 \in DOMAIN s
  BY StepParts, ThreadsApart DEF BookKept, Busy
<1>2. 1 = Len(s)
  BY <1>1 DEF BookKept, ForsettiTurns, Step
<1>3. Tail(s) = << >>
  <2>1. Tail(s) \in Seq(StepRecord) /\ Len(Tail(s)) = 0
    BY <1>1, <1>2
  <2> QED BY <2>1, EmptySeq
<1>4. phase \in {"starting", "booted"}
  BY <1>1, ThreadsApart DEF BookKept, ForsettiTurns, ForsettiTyped, Step
<1> QED BY <1>1, <1>2, <1>3, <1>4 DEF Rest, BookKept, ForsettiTurns

LEMMA StartHttpTurns ==
    ASSUME BookKept, StartHttp
    PROVE  BookKept'
<1>1. /\ Rest("main") = << >> /\ phase \in {"starting", "booted"}
      /\ \A c \in ModuleCaller : todo[c] = << >>
  BY HttpIsLast DEF StartHttp
<1>2. UNCHANGED << entitlements, changed, unlockedIds, callbacks, active, activationState, doc, edits >>
  BY DEF StartHttp, fileVars, moduleVars, countVars
<1>3. CASE phase' = "up" /\ Continue("main", << >>)
  <2>1. todo' = [todo EXCEPT !["main"] = << >>]
    <3>1. << >> \o << >> = << >>
      OBVIOUS
    <3> QED BY <1>1, <1>3, <3>1 DEF Continue
  <2>2. << >> \in Seq(StepRecord)
    OBVIOUS
  <2>3. /\ todo' \in [ForsettiThread -> Seq(StepRecord)] /\ todo'["main"] = << >>
        /\ \A u \in ForsettiThread : u # "main" => todo'[u] = todo[u]
    BY <2>1, <2>2, ThreadMoves, ThreadsApart DEF BookKept
  <2>4. ForsettiTyped' /\ SubscribesTwice'
    BY <1>2, <1>3, <2>3 DEF BookKept, ForsettiTyped, SubscribesTwice
  <2>5. \A t \in ForsettiThread : \A i \in DOMAIN todo'[t] : todo'[t][i].do \in Guided => t \in ModuleCaller
    BY <2>3 DEF BookKept, ForsettiTurns
  <2>6. ForsettiTurns'
    BY <1>3, <2>3, <2>5 DEF ForsettiTurns, Off
  <2> QED BY <2>4, <2>6 DEF BookKept
<1>4. CASE phase' = "stopping" /\ Continue("main", StopAll)
  <2>1. todo' = [todo EXCEPT !["main"] = StopAll]
    <3>1. StopAll \in Seq(StepRecord)
      BY StopAllHas DEF BookKept
    <3>2. StopAll \o << >> = StopAll
      BY <3>1
    <3> QED BY <1>1, <1>4, <3>2 DEF Continue
  <2>2. todo' \in [ForsettiThread -> Seq(StepRecord)] /\ SubscribesTwice' /\ ForsettiTurns'
    BY <1>1, <1>2, <1>4, <2>1, MainStops
  <2> QED BY <1>2, <1>4, <2>2 DEF BookKept, ForsettiTyped
<1> QED BY <1>3, <1>4 DEF StartHttp

LEMMA ShutdownTurns ==
    ASSUME BookKept, Shutdown
    PROVE  BookKept'
<1>1. UNCHANGED << entitlements, changed, unlockedIds, callbacks, active, activationState, doc, edits >>
      /\ phase' = "stopping" /\ todo' = [todo EXCEPT !["main"] = StopAll]
      /\ \A c \in ModuleCaller : todo[c] = << >>
  BY DEF Shutdown, fileVars, moduleVars, countVars
<1>2. todo' \in [ForsettiThread -> Seq(StepRecord)] /\ SubscribesTwice' /\ ForsettiTurns'
  BY <1>1, MainStops
<1> QED BY <1>1, <1>2 DEF BookKept, ForsettiTyped

LEMMA GoneTurns ==
    ASSUME BookKept, Gone
    PROVE  BookKept'
<1>1. /\ UNCHANGED << entitlements, changed, activationState, edits >> /\ phase' = Off
      /\ unlockedIds' = Nothing /\ callbacks' = 0 /\ active' = {}
      /\ todo' = [t \in ForsettiThread |-> << >>] /\ doc' = [t \in ForsettiThread |-> Nothing]
  BY DEF Gone, fileVars, countVars
<1>2. << >> \in Seq(StepRecord)
  OBVIOUS
<1>3. todo' \in [ForsettiThread -> Seq(StepRecord)] /\ \A t \in ForsettiThread : todo'[t] = << >>
  BY <1>1, <1>2
<1>4. ForsettiTyped'
  BY <1>1, <1>3, DocumentParts DEF BookKept, ForsettiTyped
<1>5. SubscribesTwice' /\ ForsettiTurns'
  BY <1>1, <1>3, ThreadsApart DEF SubscribesTwice, ForsettiTurns, Off
<1> QED BY <1>4, <1>5 DEF BookKept

LEMMA WorkTurns ==
    ASSUME BookKept, NEW t \in ForsettiThread, Work(t)
    PROVE  BookKept'
<1>1. Busy(t) /\ phase' = phase /\ edits' = edits /\ callbacks' = callbacks
  BY WorkGoesOn DEF BookKept
<1>2. ForsettiTyped'
  BY WorkTyped DEF BookKept
<1>3. ASSUME NEW ns, Brings(t, ns), Continue(t, ns)
      PROVE  SubscribesTwice' /\ ForsettiTurns'
  BY <1>1, <1>3, GoesOnTurns, GoesOnSubscribed DEF BookKept
<1>4. ASSUME Step(t) \in {"start", "stop"}, todo' = [todo EXCEPT ![t] = << >>]
      PROVE  SubscribesTwice' /\ ForsettiTurns'
  <2>1. t \in ModuleCaller
    <3>1. 1 \in DOMAIN todo[t]
      BY <1>1, StepParts DEF BookKept
    <3> QED BY <1>4, <3>1 DEF BookKept, ForsettiTurns, Step, Guided
  <2>2. << >> \in Seq(StepRecord)
    OBVIOUS
  <2>3. todo'[t] = << >> /\ \A u \in ForsettiThread : u # t => todo'[u] = todo[u]
    BY <1>4, <2>2, ThreadMoves DEF BookKept
  <2>4. todo'["main"] = todo["main"]
    BY <2>1, <2>3, ThreadsApart
  <2>5. SubscribesTwice'
    BY <1>1, <2>4 DEF BookKept, SubscribesTwice
  <2>6. \A u \in ForsettiThread : \A i \in DOMAIN todo'[u] : todo'[u][i].do \in Guided => u \in ModuleCaller
    BY <2>3 DEF BookKept, ForsettiTurns
  <2>7. \A u \in ForsettiThread : todo[u] = << >> => todo'[u] = << >>
    BY <2>3
  <2> QED BY <1>1, <2>4, <2>5, <2>6, <2>7, ThreadsApart DEF BookKept, ForsettiTurns
<1> QED BY <1>2, <1>3, <1>4, WorkGoesOn DEF BookKept

LEMMA BooksKept == BookKept /\ [ForsettiNext]_forsettiVars => BookKept'
<1> SUFFICES ASSUME BookKept, [ForsettiNext]_forsettiVars PROVE BookKept'
  OBVIOUS
<1>1. CASE UNCHANGED forsettiVars
  BY <1>1 DEF forsettiVars, BookKept, ForsettiTyped, SubscribesTwice, ForsettiTurns
<1> QED
  BY <1>1, WorkTurns, ManageTurns, EditTurns, WatchTurns, BootTurns, SubscribeTurns, StartHttpTurns,
     ShutdownTurns, GoneTurns DEF ForsettiNext, End, Crash
-----------------------------------------------------------------------------
(* The protection of the core modules: what a thread has left *)

\* The first step of s is replaced by the steps ns, and the thread has the document e then.
LEMMA HarmlessStep ==
    ASSUME NEW s \in Seq(StepRecord), s # << >>, NEW ns \in Seq(StepRecord), NEW r, r = ns \o Tail(s),
           NEW d, NEW e, NEW ph, Harmless(s, d, ph),
           \A i \in DOMAIN ns : ns[i].do \notin {"unlock", "lock", "apply", "stopIfActive"},
           \A i \in DOMAIN ns : ns[i].do = "tryStop" /\ ns[i].module \in Protected => ph = "stopping",
           \A i \in DOMAIN ns : ns[i].do = "stop" =>
               Len(ns) = 1 /\ s[1].do = "stopIfActive" /\ ns[i].module = s[1].module,
           s[1].do \in {"read", "refresh"} => Len(ns) = 0 /\ Unlocks(e)
    PROVE  Harmless(r, e, ph)
<1> DEFINE n == Len(ns)
           l == Len(s)
           old(i) == i - n + 1
<1>1. /\ n \in Nat /\ l \in Nat /\ l >= 1
      /\ DOMAIN r = 1 .. Len(r) /\ DOMAIN s = 1 .. l /\ DOMAIN ns = 1 .. n
      /\ Len(r) = n + l - 1
      /\ \A i \in DOMAIN ns : i \in DOMAIN r /\ r[i] = ns[i]
      /\ \A i \in DOMAIN r \ DOMAIN ns : i > n /\ old(i) \in 2 .. l /\ r[i] = s[old(i)]
      /\ \A j \in 2 .. l : n + j - 1 \in DOMAIN r \ DOMAIN ns /\ r[n + j - 1] = s[j]
  BY Continued
<1> HIDE DEF n, l
<1>2. ASSUME NEW i \in DOMAIN ns
      PROVE  /\ r[i].do \notin {"unlock", "lock", "apply", "stopIfActive"}
             /\ r[i].do = "stop" /\ r[i].module \in Protected =>
                  i + 1 \in DOMAIN r /\ r[i + 1] = [do |-> "start", module |-> r[i].module]
             /\ r[i].do = "tryStop" /\ r[i].module \in Protected => ph = "stopping"
  <2>1. r[i] = ns[i]
    BY <1>1
  <2>2. ASSUME ns[i].do = "stop", ns[i].module \in Protected
        PROVE  i + 1 \in DOMAIN r /\ r[i + 1] = [do |-> "start", module |-> ns[i].module]
    <3>1. n = 1 /\ s[1].do = "stopIfActive" /\ ns[i].module = s[1].module
      BY <2>2 DEF n
    <3>2. 1 \in DOMAIN s
      BY <1>1
    <3>3. 1 + 1 \in DOMAIN s /\ s[1 + 1] = [do |-> "start", module |-> s[1].module]
      BY <2>2, <3>1, <3>2 DEF Harmless
    <3>4. i = 1 /\ 2 \in 2 .. l /\ i + 1 = 2 /\ n + 2 - 1 = 2 /\ 1 + 1 = 2
      BY <1>1, <3>1, <3>3
    <3>5. 2 \in DOMAIN r /\ r[2] = s[2]
      BY <1>1, <3>4
    <3> QED BY <3>1, <3>3, <3>4, <3>5
  <2> QED BY <2>1, <2>2
<1>3. ASSUME NEW i \in DOMAIN r, i \notin DOMAIN ns
      PROVE  /\ r[i].do \in {"unlock", "lock", "apply"} =>
                  IF i = 1 THEN Unlocks(e) ELSE r[i - 1].do \in {"read", "refresh"}
             /\ r[i].do = "lock" => r[i].module \notin Protected
             /\ r[i].do \in {"stop", "stopIfActive"} /\ r[i].module \in Protected =>
                  i + 1 \in DOMAIN r /\ r[i + 1] = [do |-> "start", module |-> r[i].module]
             /\ r[i].do = "tryStop" /\ r[i].module \in Protected => ph = "stopping"
  <2> DEFINE k == old(i)
  <2>1. /\ i \in Nat /\ i > n /\ k \in 2 .. l /\ k \in DOMAIN s /\ k # 1 /\ r[i] = s[k] /\ n \in Nat
    <3>1. i > n /\ k \in 2 .. l /\ r[i] = s[k]
      BY <1>1, <1>3
    <3>2. i \in Nat /\ n \in Nat /\ l \in Nat /\ DOMAIN s = 1 .. l
      BY <1>1
    <3>3. k \in 1 .. l /\ k # 1
      BY ONLY <3>1, <3>2
    <3> QED BY <3>1, <3>2, <3>3
  <2>2. i = n + k - 1 /\ i - 1 = n + (k - 1) - 1 /\ i + 1 = n + (k + 1) - 1
    <3>1. i \in Nat /\ n \in Nat
      BY <2>1
    <3> QED BY ONLY <3>1
  <2> HIDE DEF k
  <2>3. ASSUME s[k].do \in {"unlock", "lock", "apply"}
        PROVE  IF i = 1 THEN Unlocks(e) ELSE r[i - 1].do \in {"read", "refresh"}
    <3>1. s[k - 1].do \in {"read", "refresh"}
      BY <2>1, <2>3 DEF Harmless
    <3>2. CASE k = 2
      <4>1. n = 0 /\ Unlocks(e)
        BY <3>1, <3>2 DEF n
      <4>2. i = 1
        BY <2>1, <2>2, <3>2, <4>1
      <4> QED BY <4>1, <4>2
    <3>3. CASE k # 2
      <4>1. k - 1 \in 2 .. l /\ i # 1
        <5>1. l \in Nat /\ n \in Nat /\ k \in 2 .. l
          BY <1>1, <2>1
        <5>2. i = n + k - 1
          BY <2>2
        <5> QED BY ONLY <3>3, <5>1, <5>2
      <4>2. r[i - 1] = s[k - 1]
        BY <1>1, <2>2, <4>1
      <4> QED BY <3>1, <4>1, <4>2
    <3> QED BY <3>2, <3>3
  <2>4. ASSUME s[k].do \in {"stop", "stopIfActive"}, s[k].module \in Protected
        PROVE  i + 1 \in DOMAIN r /\ r[i + 1] = [do |-> "start", module |-> s[k].module]
    <3>1. k + 1 \in DOMAIN s /\ s[k + 1] = [do |-> "start", module |-> s[k].module]
      BY <2>1, <2>4 DEF Harmless
    <3>2. k + 1 \in 2 .. l
      BY <1>1, <2>1, <3>1
    <3> QED BY <1>1, <2>2, <3>1, <3>2
  <2> QED BY <2>1, <2>3, <2>4 DEF Harmless
<1> QED
  <2>1. ASSUME NEW i \in DOMAIN r
        PROVE  /\ r[i].do \in {"unlock", "lock", "apply"} =>
                    IF i = 1 THEN Unlocks(e) ELSE r[i - 1].do \in {"read", "refresh"}
               /\ r[i].do = "lock" => r[i].module \notin Protected
               /\ r[i].do \in {"stop", "stopIfActive"} /\ r[i].module \in Protected =>
                    i + 1 \in DOMAIN r /\ r[i + 1] = [do |-> "start", module |-> r[i].module]
               /\ r[i].do = "tryStop" /\ r[i].module \in Protected => ph = "stopping"
    BY <1>2, <1>3
  <2> QED BY <2>1 DEF Harmless

LEMMA HarmlessEmpty == ASSUME NEW d, NEW ph PROVE Harmless(<< >>, d, ph)
  BY DEF Harmless

LEMMA HarmlessPhase ==
    ASSUME NEW s, NEW d, NEW ph, NEW ph2, Harmless(s, d, ph), ph = "stopping" => ph2 = "stopping"
    PROVE  Harmless(s, d, ph2)
  BY DEF Harmless

LEMMA HarmlessRefresh == ASSUME NEW d, NEW ph PROVE Harmless(Refresh, d, ph)
<1>1. /\ DOMAIN Refresh = 1 .. 2
      /\ Refresh[1].do = "refresh" /\ Refresh[2].do = "apply"
  BY RefreshSteps
<1>2. \A i \in 1 .. 2 : i = 1 \/ i = 2
  OBVIOUS
<1>3. 2 - 1 = 1
  OBVIOUS
<1> QED BY <1>1, <1>2, <1>3 DEF Harmless

LEMMA HarmlessBoot ==
    ASSUME NEW r, NEW n, BootProgram(r, n), NEW d, NEW ph
    PROVE  Harmless(r, d, ph)
<1>1. n \in Nat /\ n >= 3
  BY DEF BootProgram
<1>2. ASSUME NEW i \in DOMAIN r
      PROVE  /\ r[i].do \notin {"unlock", "lock", "stop", "stopIfActive", "tryStop"}
             /\ r[i].do = "apply" => i = 2
  BY BootProgramHas, <1>1
<1>3. r[1].do = "refresh" /\ 2 - 1 = 1
  BY DEF BootProgram
<1> QED BY <1>2, <1>3 DEF Harmless

LEMMA HarmlessStopAll ==
    ASSUME ForsettiTyped, NEW d
    PROVE  Harmless(StopAll, d, "stopping")
  BY StopAllHas DEF Harmless

LEMMA HarmlessGuided ==
    ASSUME NEW m \in Modules, NEW action \in {"enable", "update", "disable"}, ~Refused(m, action),
           NEW d, NEW ph
    PROVE  Harmless(manageSteps(m, action), d, ph)
<1> DEFINE q == manageSteps(m, action)
<1>1. GuidedProgram(q, m, action)
  BY GuidedStepsAre
<1> HIDE DEF q
<1>2. /\ \A step : NamedStep(step, m).do = step /\ NamedStep(step, m).module = m
      /\ \A step : PlainStep(step).do = step
  BY DEF NamedStep, PlainStep
<1>3. q \in Seq(StepRecord) /\ 1 + 1 = 2 /\ 1 + 2 = 3 /\ 1 + 3 = 4 /\ 2 + 1 = 3 /\ 2 + 2 = 4 /\ 2 + 3 = 5
      /\ 2 - 1 = 1 /\ 4 - 1 = 3 /\ 3 - 1 = 2 /\ 5 - 1 = 4 /\ 5 + 1 = 6
  BY <1>1 DEF GuidedProgram
<1>4. CASE action = "enable"
  <2>1. /\ DOMAIN q = 1 .. 5 /\ q[1].do = "read" /\ q[2].do = "unlock" /\ q[3].do = "refresh"
        /\ q[4].do = "apply" /\ q[5].do = "startUnlessActive"
    BY <1>1, <1>2, <1>3, <1>4 DEF GuidedProgram, Relocks
  <2>2. \A i \in 1 .. 5 : i = 1 \/ i = 2 \/ i = 3 \/ i = 4 \/ i = 5
    OBVIOUS
  <2>3. Harmless(q, d, ph)
    BY <1>3, <2>1, <2>2 DEF Harmless
  <2> QED BY <2>3 DEF q
<1>5. CASE action = "update"
  <2>1. /\ DOMAIN q = 1 .. 6 /\ q[1].do = "read" /\ q[2].do = "unlock" /\ q[3].do = "refresh"
        /\ q[4].do = "apply" /\ q[5].do = "stopIfActive" /\ q[5].module = m
        /\ q[6] = [do |-> "start", module |-> m] /\ q[6].do = "start"
    <3>1. /\ Len(q) = 6 /\ Relocks(q, 1, m, "unlock")
          /\ q[5] = NamedStep("stopIfActive", m) /\ q[6] = NamedStep("start", m)
      BY <1>1, <1>5 DEF GuidedProgram
    <3>2. DOMAIN q = 1 .. 6
      BY <1>3, <3>1
    <3>3. q[1].do = "read" /\ q[2].do = "unlock" /\ q[3].do = "refresh" /\ q[4].do = "apply"
      BY <1>2, <1>3, <3>1 DEF Relocks
    <3>4. q[6] = [do |-> "start", module |-> m] /\ q[6].do = "start"
      BY <1>2, <3>1 DEF NamedStep
    <3> QED BY <1>2, <3>1, <3>2, <3>3, <3>4
  <2>2. \A i \in 1 .. 6 : i = 1 \/ i = 2 \/ i = 3 \/ i = 4 \/ i = 5 \/ i = 6
    OBVIOUS
  <2>3. 6 \in 1 .. 6
    OBVIOUS
  <2>4. Harmless(q, d, ph)
    BY <1>3, <2>1, <2>2, <2>3 DEF Harmless
  <2> QED BY <2>4 DEF q
<1>6. CASE action = "disable"
  <2>1. m \notin Protected
    BY <1>6 DEF Refused, Protected
  <2>2. /\ DOMAIN q = 1 .. 5 /\ q[1].do = "stopIfActive" /\ q[1].module = m /\ q[2].do = "read"
        /\ q[3].do = "lock" /\ q[3].module = m /\ q[4].do = "refresh" /\ q[5].do = "apply"
    BY <1>1, <1>2, <1>3, <1>6 DEF GuidedProgram, Relocks
  <2>3. \A i \in 1 .. 5 : i = 1 \/ i = 2 \/ i = 3 \/ i = 4 \/ i = 5
    OBVIOUS
  <2>4. Harmless(q, d, ph)
    BY <1>3, <2>1, <2>2, <2>3 DEF Harmless
  <2> QED BY <2>4 DEF q
<1> QED BY <1>4, <1>5, <1>6

\* The default modules are started before the HTTP server is.
LEMMA DefaultsStep ==
    ASSUME NEW s \in Seq(StepRecord), s # << >>, NEW ns \in Seq(StepRecord), NEW r, r = ns \o Tail(s),
           NEW on, NEW on2, DefaultsRun(s, on), Protected \cap on \subseteq on2,
           \A i \in DOMAIN ns : ns[i].do # "http",
           s[1].do = "defaults" => \A m \in Protected :
               m \in on \/ \E i \in DOMAIN ns : ns[i].do = "tryStart" /\ ns[i].module = m,
           s[1].do = "tryStart" /\ s[1].module \in Protected => s[1].module \in on2
    PROVE  DefaultsRun(r, on2)
<1> DEFINE n == Len(ns)
           l == Len(s)
           old(i) == i - n + 1
<1>1. /\ n \in Nat /\ l \in Nat /\ l >= 1
      /\ DOMAIN r = 1 .. Len(r) /\ DOMAIN s = 1 .. l /\ DOMAIN ns = 1 .. n
      /\ \A i \in DOMAIN ns : i \in DOMAIN r /\ r[i] = ns[i]
      /\ \A i \in DOMAIN r \ DOMAIN ns : i > n /\ old(i) \in 2 .. l /\ r[i] = s[old(i)]
      /\ \A j \in 2 .. l : n + j - 1 \in DOMAIN r \ DOMAIN ns /\ r[n + j - 1] = s[j]
  BY Continued
<1> HIDE DEF n, l
<1> SUFFICES ASSUME NEW i \in DOMAIN r, r[i].do = "http"
             PROVE  \/ \E j \in DOMAIN r : j < i /\ r[j].do = "defaults"
                    \/ Protected \subseteq on2 \cup StartedBefore(r, i)
  BY DEF DefaultsRun
<1> DEFINE k == old(i)
<1>2. i \notin DOMAIN ns
  BY <1>1
<1>3. /\ i \in Nat /\ i > n /\ k \in 2 .. l /\ k \in DOMAIN s /\ r[i] = s[k] /\ n \in Nat
  BY <1>1, <1>2
<1>4. i = n + k - 1
  BY <1>3
<1> HIDE DEF k
<1>5. ASSUME NEW j \in DOMAIN s, j < k, j # 1
      PROVE  n + j - 1 \in DOMAIN r /\ n + j - 1 < i /\ r[n + j - 1] = s[j]
  <2>1. j \in 2 .. l
    BY <1>1, <1>5
  <2>2. n + j - 1 < i
    BY <1>1, <1>3, <1>4, <1>5, <2>1
  <2> QED BY <1>1, <2>1, <2>2
<1>6. CASE \E j \in DOMAIN s : j < k /\ s[j].do = "defaults"
  <2>1. PICK j \in DOMAIN s : j < k /\ s[j].do = "defaults"
    BY <1>6
  <2>2. CASE j # 1
    <3>1. n + j - 1 \in DOMAIN r /\ n + j - 1 < i /\ r[n + j - 1] = s[j]
      BY <1>5, <2>1, <2>2
    <3> QED BY <2>1, <3>1
  <2>3. CASE j = 1
    <3>1. ASSUME NEW m \in Protected, m \notin on
          PROVE  m \in StartedBefore(r, i)
      <4>1. PICK p \in DOMAIN ns : ns[p].do = "tryStart" /\ ns[p].module = m
        BY <2>1, <2>3, <3>1
      <4>2. p \in DOMAIN r /\ r[p] = ns[p] /\ p < i
        BY <1>1, <1>3
      <4> QED BY <4>1, <4>2 DEF StartedBefore
    <3> QED BY <3>1
  <2> QED BY <2>2, <2>3
<1>7. CASE Protected \subseteq on \cup StartedBefore(s, k)
  <2>1. ASSUME NEW m \in Protected, m \notin on2
        PROVE  m \in StartedBefore(r, i)
    <3>1. m \in StartedBefore(s, k)
      BY <1>7, <2>1
    <3>2. PICK j \in DOMAIN s : j < k /\ s[j].do = "tryStart" /\ s[j].module = m
      BY <3>1 DEF StartedBefore
    <3>3. j # 1
      BY <2>1, <3>2
    <3>4. n + j - 1 \in DOMAIN r /\ n + j - 1 < i /\ r[n + j - 1] = s[j]
      BY <1>5, <3>2, <3>3
    <3> QED BY <3>2, <3>4 DEF StartedBefore
  <2> QED BY <2>1
<1> QED BY <1>3, <1>6, <1>7 DEF DefaultsRun

LEMMA DefaultsKept ==
    ASSUME NEW s, NEW on, NEW on2, DefaultsRun(s, on), Protected \cap on \subseteq on2
    PROVE  DefaultsRun(s, on2)
  BY DEF DefaultsRun

\* The main thread has not the start of the HTTP server left once it is up or stops.
LEMMA NoHttp ==
    ASSUME BookKept, phase \in {"up", "stopping"}, NEW on
    PROVE  DefaultsRun(todo["main"], on)
  BY DEF BookKept, ForsettiTurns, DefaultsRun
-----------------------------------------------------------------------------
(* The protection of the core modules: the steps of a thread *)

Protecting == BookKept /\ Protection /\ edits = 0

LEMMA HeadOf ==
    ASSUME Protecting, NEW t \in ForsettiThread, Busy(t)
    PROVE  /\ todo[t] \in Seq(StepRecord) /\ todo[t] # << >> /\ 1 \in DOMAIN todo[t]
           /\ todo[t][1].do = Step(t) /\ todo[t][1].module = Module(t)
           /\ Harmless(todo[t], doc[t], phase) /\ phase # Off /\ Unlocks(unlockedIds)
           /\ Step(t) \in Guided => t \in ModuleCaller
           /\ t \in ModuleCaller => phase = "up"
           /\ t = "main" => phase # "up"
<1>1. todo[t] \in Seq(StepRecord) /\ todo[t] # << >> /\ 1 \in DOMAIN todo[t]
  BY StepParts DEF Protecting, BookKept, Busy
<1>2. phase # Off
  BY <1>1 DEF Protecting, BookKept, ForsettiTurns
<1>3. Step(t) \in Guided => t \in ModuleCaller
  BY <1>1 DEF Protecting, BookKept, ForsettiTurns, Step
<1>4. (t \in ModuleCaller => phase = "up") /\ (t = "main" => phase # "up")
  BY <1>1 DEF Protecting, BookKept, ForsettiTurns
<1> QED BY <1>1, <1>2, <1>3, <1>4 DEF Step, Module, Protecting, Protection

LEMMA WorkUnlocks ==
    ASSUME Protecting, NEW t \in ForsettiThread, Work(t)
    PROVE  /\ Unlocks(entitlements') /\ Unlocks(unlockedIds')
           /\ Step(t) \in {"read", "refresh"} => Unlocks(doc'[t])
           /\ \A u \in ForsettiThread : u # t => doc'[u] = doc[u]
<1>1. /\ todo[t] \in Seq(StepRecord) /\ todo[t] # << >> /\ 1 \in DOMAIN todo[t]
      /\ todo[t][1].do = Step(t) /\ todo[t][1].module = Module(t)
      /\ Harmless(todo[t], doc[t], phase) /\ Unlocks(unlockedIds)
  BY HeadOf DEF Work
<1>2. Unlocks(entitlements)
  BY DEF Protecting, Protection
<1>3. Step(t) \in {"unlock", "lock", "apply"} => Unlocks(doc[t])
  BY <1>1 DEF Harmless
<1>4. Step(t) = "lock" => Module(t) \notin Protected
  BY <1>1 DEF Harmless
<1>5. doc \in [ForsettiThread -> Document]
  BY DEF Protecting, BookKept, ForsettiTyped
<1>6. CASE ReadDocument(t)
  BY <1>1, <1>2, <1>5, <1>6 DEF ReadDocument, fileVars
<1>7. CASE WriteDocument(t)
  <2>1. doc[t] \in Document
    BY <1>5
  <2>2. Unlocks(Unlocked(t, Module(t), Step(t) = "unlock"))
    <3>1. CASE Step(t) = "unlock"
      <4>1. Unlocked(t, Module(t), TRUE) = [doc[t] EXCEPT !.modules = @ \cup {Module(t)}]
        BY DEF Unlocked
      <4>2. Unlocks(Unlocked(t, Module(t), TRUE))
        BY <1>3, <2>1, <3>1, <4>1 DEF Document, Unlocks
      <4>3. (Step(t) = "unlock") = TRUE
        BY <3>1
      <4> QED BY <4>2, <4>3
    <3>2. CASE Step(t) = "lock"
      <4>1. Unlocked(t, Module(t), FALSE) = [doc[t] EXCEPT !.modules = @ \ {Module(t)}]
        BY DEF Unlocked
      <4>2. Unlocks(Unlocked(t, Module(t), FALSE))
        BY <1>3, <1>4, <2>1, <3>2, <4>1 DEF Document, Unlocks
      <4>3. (Step(t) = "unlock") = FALSE
        BY <3>2
      <4> QED BY <4>2, <4>3
    <3> QED BY <1>7, <3>1, <3>2 DEF WriteDocument
  <2>3. Unlocks(entitlements')
    BY <1>2, <1>7, <2>2 DEF WriteDocument, fileVars
  <2>4. Step(t) \notin {"read", "refresh"} /\ unlockedIds' = unlockedIds
        /\ \A u \in ForsettiThread : u # t => doc'[u] = doc[u]
    BY <1>5, <1>7 DEF WriteDocument
  <2> QED BY <1>1, <2>3, <2>4
<1>8. CASE Apply(t)
  <2>1. unlockedIds' = doc[t] /\ entitlements' = entitlements /\ Step(t) = "apply"
        /\ \A u \in ForsettiThread : u # t => doc'[u] = doc[u]
    BY <1>5, <1>8 DEF Apply, fileVars
  <2> QED BY <1>2, <1>3, <2>1
<1>9. CASE Reconcile(t) \/ Defaults(t) \/ TryModule(t) \/ Ask(t) \/ ModuleStep(t)
  <2>1. UNCHANGED << entitlements, unlockedIds, doc >> /\ Step(t) \notin {"read", "refresh"}
    BY <1>9 DEF Reconcile, Defaults, TryModule, Ask, ModuleStep, fileVars
  <2> QED BY <1>1, <1>2, <2>1
<1> QED BY <1>6, <1>7, <1>8, <1>9 DEF Work

\* A step that takes a protected module out is the one before its start, or the server stops.
LEMMA OnlyTakenToStart ==
    ASSUME Protecting, NEW t \in ForsettiThread, Work(t), NEW m \in Protected, m \in active, m \notin active'
    PROVE  phase = "stopping" \/ (t \in ModuleCaller /\ StartsNext(t, m)')
<1>1. /\ todo[t] \in Seq(StepRecord) /\ todo[t] # << >> /\ 1 \in DOMAIN todo[t]
      /\ todo[t][1].do = Step(t) /\ todo[t][1].module = Module(t)
      /\ Harmless(todo[t], doc[t], phase) /\ (Step(t) \in Guided => t \in ModuleCaller)
  BY HeadOf DEF Work
<1>2. TryModule(t) \/ ModuleStep(t)
  BY DEF Work, ReadDocument, WriteDocument, Apply, Reconcile, Defaults, Ask, moduleVars
<1>3. CASE TryModule(t)
  <2>1. Step(t) = "tryStop" /\ StopModule(Module(t))
    BY <1>3 DEF TryModule, StartModule, moduleVars
  <2>2. Module(t) = m
    BY <2>1 DEF StopModule
  <2> QED BY <1>1, <2>1, <2>2 DEF Harmless
<1>4. CASE ModuleStep(t)
  <2>1. Step(t) = "stop" /\ StopModule(Module(t)) /\ Continue(t, << >>)
    BY <1>4 DEF ModuleStep, StartModule, moduleVars
  <2>2. Module(t) = m
    BY <2>1 DEF StopModule
  <2>3. 1 + 1 \in DOMAIN todo[t] /\ todo[t][1 + 1] = [do |-> "start", module |-> m]
    BY <1>1, <2>1, <2>2 DEF Harmless
  <2>4. t \in ModuleCaller
    BY <1>1, <2>1 DEF Guided
  <2>5. todo'[t] = Tail(todo[t])
    <3>1. Brings(t, << >>)
      BY <2>1, EmptyBrings
    <3>2. todo'[t] = << >> \o Tail(todo[t])
      BY <2>1, <3>1, Goes DEF Work, Protecting, BookKept
    <3> QED BY <1>1, <3>2
  <2>6. todo'[t] # << >> /\ todo'[t][1] = todo[t][1 + 1]
    <3> DEFINE s == todo[t]
    <3>1. s \in Seq(StepRecord) /\ s # << >> /\ 1 + 1 \in DOMAIN s
      BY <1>1, <2>3
    <3> HIDE DEF s
    <3>2. Tail(s) # << >> /\ Tail(s)[1] = s[1 + 1]
      <4>1. Len(s) \in Nat /\ DOMAIN s = 1 .. Len(s) /\ Len(s) >= 2
        BY <3>1
      <4>2. Len(Tail(s)) = Len(s) - 1 /\ \A i \in 1 .. Len(s) - 1 : Tail(s)[i] = s[i + 1]
        BY <3>1
      <4>3. Len(Tail(s)) # 0 /\ 1 \in 1 .. Len(s) - 1
        BY <4>1, <4>2
      <4> QED BY <4>2, <4>3, EmptySeq
    <3> QED BY <2>5, <3>2 DEF s
  <2> QED BY <2>3, <2>4, <2>6 DEF StartsNext
<1> QED BY <1>2, <1>3, <1>4

\* A start that comes to its turn while the server is not off leaves the module active.
LEMMA StartsTaken ==
    ASSUME Protecting, NEW t \in ForsettiThread, Work(t), Step(t) \in {"tryStart", "start"},
           Module(t) \in Protected
    PROVE  Module(t) \in active'
<1>1. isUnlocked(Module(t))
  BY HeadOf DEF Work, Unlocks, isUnlocked
<1>2. TryModule(t) \/ ModuleStep(t)
  BY DEF Work, ReadDocument, WriteDocument, Apply, Reconcile, Defaults, Ask
<1>3. CASE MayStart(Module(t))
  <2>1. StartModule(Module(t))
    BY <1>2, <1>3 DEF TryModule, ModuleStep
  <2> QED BY <2>1 DEF StartModule
<1>4. CASE ~MayStart(Module(t))
  <2>1. Module(t) \in active
    BY <1>1, <1>4 DEF MayStart
  <2>2. UNCHANGED moduleVars
    BY <1>2, <1>4 DEF TryModule, ModuleStep
  <2> QED BY <2>1, <2>2 DEF moduleVars
<1> QED BY <1>3, <1>4

LEMMA WorkHarmless ==
    ASSUME Protecting, NEW t \in ForsettiThread, Work(t)
    PROVE  \A u \in ForsettiThread : Harmless(todo'[u], doc'[u], phase')
<1>1. /\ todo[t] \in Seq(StepRecord) /\ todo[t] # << >> /\ todo[t][1].do = Step(t)
      /\ todo[t][1].module = Module(t)
      /\ Harmless(todo[t], doc[t], phase) /\ Unlocks(unlockedIds) /\ Busy(t)
  BY HeadOf DEF Work
<1>2. /\ Step(t) \in {"read", "refresh"} => Unlocks(doc'[t])
      /\ \A u \in ForsettiThread : u # t => doc'[u] = doc[u]
  BY WorkUnlocks
<1>3. phase' = phase
  BY WorkGoesOn DEF Protecting, BookKept
<1>4. ASSUME NEW ns, Brings(t, ns), Continue(t, ns)
      PROVE  Harmless(todo'[t], doc'[t], phase) /\ \A u \in ForsettiThread : u # t => todo'[u] = todo[u]
  <2>1. /\ todo'[t] = ns \o Tail(todo[t]) /\ ns \in Seq(StepRecord)
        /\ \A u \in ForsettiThread : u # t => todo'[u] = todo[u]
    BY <1>1, <1>4, Goes DEF Protecting, BookKept
  <2>2. \A i \in DOMAIN ns : ns[i].do = "tryStop" /\ ns[i].module \in Protected => phase = "stopping"
    BY <1>1, <1>4 DEF Brings, Unlocks, isUnlocked
  <2>3. Step(t) \in {"read", "refresh"} => Len(ns) = 0
    BY <1>4, EmptySeq DEF Brings
  <2>4. /\ \A i \in DOMAIN ns : ns[i].do \notin {"unlock", "lock", "apply", "stopIfActive"}
        /\ \A i \in DOMAIN ns : ns[i].do = "stop" =>
             Len(ns) = 1 /\ Step(t) = "stopIfActive" /\ ns[i].module = Module(t)
    <3>1. CASE \A i \in DOMAIN ns : ns[i].do \in Followup
      BY <3>1 DEF Followup
    <3>2. CASE Step(t) = "startUnlessActive" /\ ns = << [do |-> "start", module |-> Module(t)] >>
      BY <3>2
    <3>3. CASE Step(t) = "stopIfActive" /\ ns = << [do |-> "stop", module |-> Module(t)] >>
      BY <3>3
    <3> QED BY <1>4, <3>1, <3>2, <3>3 DEF Brings
  <2>5. Harmless(todo'[t], doc'[t], phase)
    <3> DEFINE s == todo[t]
               r == todo'[t]
               d == doc[t]
               e == doc'[t]
    <3>1. /\ s \in Seq(StepRecord) /\ s # << >> /\ ns \in Seq(StepRecord) /\ r = ns \o Tail(s)
          /\ Harmless(s, d, phase)
      BY <1>1, <2>1
    <3>2. /\ \A i \in DOMAIN ns : ns[i].do \notin {"unlock", "lock", "apply", "stopIfActive"}
          /\ \A i \in DOMAIN ns : ns[i].do = "stop" =>
                Len(ns) = 1 /\ s[1].do = "stopIfActive" /\ ns[i].module = s[1].module
          /\ s[1].do \in {"read", "refresh"} => Len(ns) = 0 /\ Unlocks(e)
      BY <1>1, <1>2, <2>3, <2>4
    <3> HIDE DEF s, r, d, e
    <3>3. Harmless(r, e, phase)
      BY <2>2, <3>1, <3>2, HarmlessStep
    <3> QED BY <3>3 DEF r, e
  <2> QED BY <2>1, <2>5
<1>5. ASSUME todo' = [todo EXCEPT ![t] = << >>]
      PROVE  Harmless(todo'[t], doc'[t], phase) /\ \A u \in ForsettiThread : u # t => todo'[u] = todo[u]
  <2>1. << >> \in Seq(StepRecord)
    OBVIOUS
  <2>2. todo'[t] = << >> /\ \A u \in ForsettiThread : u # t => todo'[u] = todo[u]
    BY <1>5, <2>1, ThreadMoves DEF Protecting, BookKept
  <2> QED BY <2>2, HarmlessEmpty
<1>6. Harmless(todo'[t], doc'[t], phase) /\ \A u \in ForsettiThread : u # t => todo'[u] = todo[u]
  BY <1>4, <1>5, WorkGoesOn DEF Protecting, BookKept
<1> QED BY <1>2, <1>3, <1>6 DEF Protecting, Protection

LEMMA WorkDefaults ==
    ASSUME Protecting, NEW t \in ForsettiThread, Work(t)
    PROVE  DefaultsRun(todo'["main"], active')
<1>1. BookKept' /\ phase' = phase
  BY WorkTurns, WorkGoesOn DEF Protecting, BookKept
<1>2. CASE phase \in {"up", "stopping"}
  <2>1. phase' \in {"up", "stopping"}
    BY <1>1, <1>2
  <2>2. \A i \in DOMAIN todo'["main"] : todo'["main"][i].do # "http"
    BY <1>1, <2>1 DEF BookKept, ForsettiTurns
  <2> QED BY <2>2 DEF DefaultsRun
<1>3. CASE phase \notin {"up", "stopping"}
  <2>1. t \notin ModuleCaller
    BY <1>3, HeadOf DEF Work
  <2>2. Protected \cap active \subseteq active'
    BY <1>3, <2>1, OnlyTakenToStart
  <2>3. DefaultsRun(todo["main"], active)
    BY DEF Protecting, Protection
  <2>4. PICK ns : Brings(t, ns) /\ Continue(t, ns)
    <3>1. Step(t) \notin {"start", "stop"}
      BY <2>1, HeadOf DEF Work, Guided
    <3> QED BY <3>1, WorkGoesOn DEF Protecting, BookKept
  <2>5. /\ todo[t] \in Seq(StepRecord) /\ todo[t] # << >> /\ todo'[t] = ns \o Tail(todo[t])
        /\ ns \in Seq(StepRecord) /\ \A u \in ForsettiThread : u # t => todo'[u] = todo[u]
    BY <2>4, Goes DEF Work, Protecting, BookKept
  <2>6. CASE t # "main"
    <3>1. todo'["main"] = todo["main"]
      BY <2>5, <2>6, ThreadsApart
    <3> QED BY <2>2, <2>3, <3>1, DefaultsKept
  <2>7. CASE t = "main"
    <3>1. \A i \in DOMAIN ns : ns[i].do # "http"
      <4>1. CASE \A i \in DOMAIN ns : ns[i].do \in Followup
        BY <4>1 DEF Followup
      <4>2. CASE Step(t) = "startUnlessActive" /\ ns = << [do |-> "start", module |-> Module(t)] >>
        BY <4>2
      <4>3. CASE Step(t) = "stopIfActive" /\ ns = << [do |-> "stop", module |-> Module(t)] >>
        BY <4>3
      <4> QED BY <2>4, <4>1, <4>2, <4>3 DEF Brings
    <3>2. Step(t) = "defaults" => \A m \in Protected :
             m \in active \/ \E i \in DOMAIN ns : ns[i].do = "tryStart" /\ ns[i].module = m
      BY <2>4 DEF Brings, Protected
    <3>3. Step(t) = "tryStart" /\ Module(t) \in Protected => Module(t) \in active'
      BY StartsTaken
    <3>4. Step(t) = todo[t][1].do /\ Module(t) = todo[t][1].module
      BY DEF Step, Module
    <3>5. DefaultsRun(todo'[t], active')
      <4> DEFINE s == todo[t]
                 r == todo'[t]
      <4>1. /\ s \in Seq(StepRecord) /\ s # << >> /\ ns \in Seq(StepRecord) /\ r = ns \o Tail(s)
            /\ DefaultsRun(s, active)
        BY <2>3, <2>5, <2>7
      <4>2. /\ s[1].do = "defaults" => \A m \in Protected :
                  m \in active \/ \E i \in DOMAIN ns : ns[i].do = "tryStart" /\ ns[i].module = m
            /\ s[1].do = "tryStart" /\ s[1].module \in Protected => s[1].module \in active'
        BY <3>2, <3>3, <3>4
      <4> HIDE DEF s, r
      <4>3. DefaultsRun(r, active')
        BY <2>2, <3>1, <4>1, <4>2, DefaultsStep
      <4> QED BY <4>3 DEF r
    <3> QED BY <2>7, <3>5
  <2> QED BY <2>6, <2>7
<1> QED BY <1>2, <1>3

LEMMA WorkRuns ==
    ASSUME Protecting, NEW t \in ForsettiThread, Work(t)
    PROVE  ProtectedOrNext'
<1>1. phase' = phase
  BY WorkGoesOn DEF Protecting, BookKept
<1> SUFFICES ASSUME phase = "up", NEW m \in Protected, m \notin active'
             PROVE  \E c \in ModuleCaller : StartsNext(c, m)'
  BY <1>1 DEF ProtectedOrNext
<1>2. CASE m \in active
  BY <1>2, OnlyTakenToStart
<1>3. CASE m \notin active
  <2>1. PICK c \in ModuleCaller : StartsNext(c, m)
    BY <1>3 DEF Protecting, Protection, ProtectedOrNext
  <2>2. c # t
    <3> SUFFICES ASSUME c = t PROVE FALSE
      OBVIOUS
    <3>1. Step(t) = "start" /\ Module(t) = m
      BY <2>1 DEF StartsNext, Step, Module
    <3> QED BY <3>1, StartsTaken
  <2>3. todo'[c] = todo[c]
    <3>1. c \in ForsettiThread
      BY ThreadsApart
    <3>2. ASSUME NEW ns, Brings(t, ns), Continue(t, ns) PROVE todo'[c] = todo[c]
      BY <2>2, <3>1, <3>2, Goes DEF Work, Protecting, BookKept
    <3>3. ASSUME todo' = [todo EXCEPT ![t] = << >>] PROVE todo'[c] = todo[c]
      BY <2>2, <3>1, <3>3 DEF Protecting, BookKept, ForsettiTyped
    <3> QED BY <3>2, <3>3, WorkGoesOn DEF Protecting, BookKept
  <2> QED BY <2>1, <2>3 DEF StartsNext
<1> QED BY <1>2, <1>3

LEMMA WorkProtects ==
    ASSUME Protecting, NEW t \in ForsettiThread, Work(t)
    PROVE  Protection'
  BY WorkUnlocks, WorkHarmless, WorkDefaults, WorkRuns DEF Protection
-----------------------------------------------------------------------------
(* The protection of the core modules: the other actions *)

LEMMA ManageProtects ==
    ASSUME Protecting, NEW c \in ModuleCaller, manageForsettiModule(c)
    PROVE  Protection'
<1>1. PICK m \in Modules, action \in {"enable", "update", "disable"} :
        todo' = [todo EXCEPT ![c] = IF Refused(m, action) THEN << >> ELSE manageSteps(m, action)]
  BY DEF manageForsettiModule
<1>2. UNCHANGED << entitlements, unlockedIds, active, doc, phase, edits >> /\ todo[c] = << >>
  BY DEF manageForsettiModule, fileVars, moduleVars
<1> DEFINE q == IF Refused(m, action) THEN << >> ELSE manageSteps(m, action)
<1>3. q \in Seq(StepRecord) /\ Harmless(q, doc[c], phase)
  <2>1. CASE Refused(m, action)
    <3>1. q = << >>
      BY <2>1
    <3>2. << >> \in Seq(StepRecord)
      OBVIOUS
    <3> QED BY <3>1, <3>2, HarmlessEmpty
  <2>2. CASE ~Refused(m, action)
    <3>1. q = manageSteps(m, action)
      BY <2>2
    <3> QED BY <2>2, <3>1, GuidedStepsAre, HarmlessGuided DEF GuidedProgram
  <2> QED BY <2>1, <2>2
<1>4. todo' = [todo EXCEPT ![c] = q]
  BY <1>1
<1> HIDE DEF q
<1>5. todo'[c] = q /\ \A u \in ForsettiThread : u # c => todo'[u] = todo[u]
  BY <1>3, <1>4, ThreadMoves, ThreadsApart DEF Protecting, BookKept
<1>6. \A u \in ForsettiThread : Harmless(todo'[u], doc'[u], phase')
  BY <1>2, <1>3, <1>5 DEF Protecting, Protection
<1>7. todo'["main"] = todo["main"]
  BY <1>5, ThreadsApart
<1>8. ProtectedOrNext'
  <2> SUFFICES ASSUME phase = "up", NEW m2 \in Protected, m2 \notin active
               PROVE  \E b \in ModuleCaller : StartsNext(b, m2)'
    BY <1>2 DEF ProtectedOrNext
  <2>1. PICK b \in ModuleCaller : StartsNext(b, m2)
    BY DEF Protecting, Protection, ProtectedOrNext
  <2>2. todo'[b] = todo[b]
    BY <1>2, <1>5, <2>1, ThreadsApart DEF StartsNext
  <2> QED BY <2>1, <2>2 DEF StartsNext
<1> QED BY <1>2, <1>6, <1>7, <1>8 DEF Protecting, Protection

LEMMA WatchProtects ==
    ASSUME Protecting, Watch
    PROVE  Protection'
<1>1. /\ todo'["watcher"] = Refresh
      /\ \A u \in ForsettiThread : u # "watcher" => todo'[u] = todo[u]
  BY RefreshSteps, ThreadMoves, ThreadsApart DEF Watch, Protecting, BookKept
<1>2. UNCHANGED << entitlements, unlockedIds, active, doc, phase, edits >>
  BY DEF Watch, moduleVars, countVars
<1>3. \A u \in ForsettiThread : Harmless(todo'[u], doc'[u], phase')
  BY <1>1, <1>2, HarmlessRefresh DEF Protecting, Protection
<1>4. todo'["main"] = todo["main"] /\ \A c \in ModuleCaller : todo'[c] = todo[c]
  BY <1>1, ThreadsApart
<1>5. ProtectedOrNext'
  BY <1>2, <1>4 DEF Protecting, Protection, ProtectedOrNext, StartsNext
<1> QED BY <1>2, <1>3, <1>4, <1>5 DEF Protecting, Protection

LEMMA BootProtects ==
    ASSUME Protecting, Boot
    PROVE  Protection'
<1>1. PICK n : BootProgram(BootSteps, n)
  BY BootStepsAre DEF Protecting, BookKept
<1> DEFINE r == BootSteps
<1>2. r \in Seq(StepRecord) /\ n \in Nat /\ n >= 3 /\ Len(r) = n + 4
  BY <1>1 DEF BootProgram
<1>3. todo' = [todo EXCEPT !["main"] = r]
  BY DEF Boot, BootSteps
<1> HIDE DEF r
<1>4. todo'["main"] = r /\ \A u \in ForsettiThread : u # "main" => todo'[u] = << >>
  <2>1. todo'["main"] = r /\ \A u \in ForsettiThread : u # "main" => todo'[u] = todo[u]
    BY <1>2, <1>3, ThreadMoves, ThreadsApart DEF Protecting, BookKept
  <2> QED BY <2>1 DEF Boot, Protecting, BookKept, ForsettiTurns
<1>5. /\ entitlements' = entitlements /\ unlockedIds' = entitlements /\ doc' = doc /\ phase' = "starting"
  BY DEF Boot
<1>6. \A u \in ForsettiThread : Harmless(todo'[u], doc'[u], phase')
  BY <1>1, <1>4, HarmlessBoot, HarmlessEmpty DEF r
<1>7. DefaultsRun(todo'["main"], active')
  <2>1. /\ n + 3 \in DOMAIN r /\ r[n + 3].do = "defaults" /\ n + 3 < n + 4
        /\ \A i \in DOMAIN r : r[i].do = "http" => i = n + 4
    <3>1. n + 3 \in DOMAIN r /\ n + 3 < n + 4
      BY <1>2
    <3>2. r[n + 3].do = "defaults"
      BY <1>1 DEF BootProgram, r
    <3>3. \A i \in DOMAIN r : r[i].do = "http" => i = n + 4
      BY <1>1, BootProgramHas DEF r
    <3> QED BY <3>1, <3>2, <3>3
  <2> QED BY <1>4, <2>1 DEF DefaultsRun
<1>8. ProtectedOrNext'
  BY <1>5 DEF ProtectedOrNext
<1> QED BY <1>5, <1>6, <1>7, <1>8 DEF Protecting, Protection

LEMMA SubscribeProtects ==
    ASSUME Protecting, Subscribe
    PROVE  Protection'
<1>1. /\ Busy("main") /\ Step("main") \in {"subscribe", "booted"} /\ Continue("main", << >>)
  BY DEF Subscribe
<1>2. UNCHANGED << entitlements, unlockedIds, active, doc, edits >>
      /\ (phase' = phase \/ (Step("main") = "booted" /\ phase' = "booted"))
  BY DEF Subscribe, fileVars, moduleVars, countVars
<1>3. /\ todo["main"] \in Seq(StepRecord) /\ todo["main"] # << >> /\ 1 \in DOMAIN todo["main"]
      /\ todo["main"][1].do = Step("main") /\ todo["main"][1].module = Module("main")
      /\ Harmless(todo["main"], doc["main"], phase) /\ phase # Off /\ phase # "up"
  BY <1>1, HeadOf, ThreadsApart
<1>4. /\ todo'["main"] = << >> \o Tail(todo["main"])
      /\ \A u \in ForsettiThread : u # "main" => todo'[u] = todo[u]
  BY <1>1, ThreadsApart, EmptyBrings, Goes DEF Protecting, BookKept
<1>5. (phase = "stopping" => phase' = "stopping") /\ phase' # "up"
  BY <1>2, <1>3 DEF Protecting, BookKept, ForsettiTurns
<1> DEFINE s == todo["main"]
           r == todo'["main"]
           d == doc["main"]
           ns == << >>
<1>6. /\ s \in Seq(StepRecord) /\ s # << >> /\ ns \in Seq(StepRecord) /\ r = ns \o Tail(s)
      /\ Harmless(s, d, phase) /\ DefaultsRun(s, active) /\ s[1].do \in {"subscribe", "booted"}
      /\ \A i \in DOMAIN ns : FALSE
  BY <1>1, <1>3, <1>4, EmptySeq DEF Protecting, Protection
<1> HIDE DEF s, r, d, ns
<1>7. Harmless(r, d, phase)
  BY <1>6, HarmlessStep
<1>8. DefaultsRun(r, active)
  BY <1>6, DefaultsStep
<1>9. \A u \in ForsettiThread : Harmless(todo'[u], doc'[u], phase)
  <2>1. doc' = doc
    BY <1>2
  <2>2. Harmless(todo'["main"], doc["main"], phase)
    BY <1>7 DEF r, d
  <2>3. \A u \in ForsettiThread : u # "main" => Harmless(todo'[u], doc[u], phase)
    BY <1>4 DEF Protecting, Protection
  <2> QED BY <2>1, <2>2, <2>3
<1>10. \A u \in ForsettiThread : Harmless(todo'[u], doc'[u], phase')
  BY <1>5, <1>9, HarmlessPhase
<1>11. ProtectedOrNext'
  BY <1>5 DEF ProtectedOrNext
<1>12. DefaultsRun(todo'["main"], active')
  BY <1>2, <1>8 DEF r
<1> QED BY <1>2, <1>3, <1>10, <1>11, <1>12 DEF Protecting, Protection

\* The runtime is shut down.
LEMMA StopProtects ==
    ASSUME Protecting, todo'["main"] = StopAll, \A u \in ForsettiThread : u # "main" => todo'[u] = todo[u],
           phase' = "stopping", phase # Off, UNCHANGED << entitlements, unlockedIds, active, doc, edits >>
    PROVE  Protection'
<1>1. \A u \in ForsettiThread : Harmless(todo'[u], doc'[u], phase')
  <2>1. Harmless(StopAll, doc["main"], "stopping")
    BY HarmlessStopAll DEF Protecting, BookKept
  <2>2. \A u \in ForsettiThread : u # "main" => Harmless(todo[u], doc[u], phase')
    BY HarmlessPhase DEF Protecting, Protection
  <2> QED BY <2>1, <2>2
<1>2. DefaultsRun(todo'["main"], active')
  BY StopAllHas DEF DefaultsRun, Protecting, BookKept
<1>3. ProtectedOrNext'
  BY DEF ProtectedOrNext
<1> QED BY <1>1, <1>2, <1>3 DEF Protecting, Protection

LEMMA StartHttpProtects ==
    ASSUME Protecting, StartHttp
    PROVE  Protection'
<1>1. /\ Rest("main") = << >> /\ Len(todo["main"]) = 1 /\ 1 \in DOMAIN todo["main"]
      /\ phase \in {"starting", "booted"} /\ \A c \in ModuleCaller : todo[c] = << >>
  BY HttpIsLast DEF StartHttp, Protecting
<1>2. UNCHANGED << entitlements, unlockedIds, callbacks, active, doc, edits >>
  BY DEF StartHttp, fileVars, moduleVars, countVars
<1>3. CASE phase' = "up" /\ Continue("main", << >>)
  <2>1. todo'["main"] = << >> /\ \A u \in ForsettiThread : u # "main" => todo'[u] = todo[u]
    <3>1. << >> \o << >> = << >> /\ << >> \in Seq(StepRecord)
      OBVIOUS
    <3>2. todo' = [todo EXCEPT !["main"] = << >>]
      BY <1>1, <1>3, <3>1 DEF Continue
    <3> QED BY <3>1, <3>2, ThreadMoves, ThreadsApart DEF Protecting, BookKept
  <2>2. Protected \subseteq active
    <3>1. \/ \E j \in DOMAIN todo["main"] : j < 1 /\ todo["main"][j].do = "defaults"
          \/ Protected \subseteq active \cup StartedBefore(todo["main"], 1)
      BY <1>1 DEF StartHttp, Protecting, Protection, DefaultsRun, Step
    <3>2. \A j \in DOMAIN todo["main"] : ~(j < 1)
      <4>1. todo["main"] \in Seq(StepRecord)
        BY HeadOf, ThreadsApart DEF StartHttp
      <4> QED BY <4>1
    <3>3. StartedBefore(todo["main"], 1) = {}
      BY <3>2 DEF StartedBefore
    <3> QED BY <3>1, <3>2, <3>3
  <2>3. \A u \in ForsettiThread : Harmless(todo'[u], doc'[u], phase')
    <3>1. \A u \in ForsettiThread : u # "main" => Harmless(todo[u], doc[u], phase')
      BY <1>1, HarmlessPhase DEF Protecting, Protection
    <3> QED BY <1>2, <2>1, <3>1, HarmlessEmpty
  <2>4. DefaultsRun(todo'["main"], active')
    BY <2>1 DEF DefaultsRun
  <2>5. ProtectedOrNext'
    BY <1>2, <2>2 DEF ProtectedOrNext
  <2>6. Unlocks(entitlements) /\ Unlocks(unlockedIds)
    BY <1>1 DEF Protecting, Protection, Off
  <2> QED BY <1>2, <2>3, <2>4, <2>5, <2>6 DEF Protection
<1>4. CASE phase' = "stopping" /\ Continue("main", StopAll)
  <2>1. todo' = [todo EXCEPT !["main"] = StopAll]
    <3>1. StopAll \in Seq(StepRecord)
      BY StopAllHas DEF Protecting, BookKept
    <3>2. StopAll \o << >> = StopAll
      BY <3>1
    <3> QED BY <1>1, <1>4, <3>2 DEF Continue
  <2>2. todo'["main"] = StopAll /\ \A u \in ForsettiThread : u # "main" => todo'[u] = todo[u]
    BY <1>1, <1>2, <1>4, <2>1, MainStops DEF Protecting
  <2>3. phase # Off
    BY <1>1 DEF Off
  <2> QED BY <1>2, <1>4, <2>2, <2>3, StopProtects
<1> QED BY <1>3, <1>4 DEF StartHttp

LEMMA ShutdownProtects ==
    ASSUME Protecting, Shutdown
    PROVE  Protection'
<1>1. UNCHANGED << entitlements, unlockedIds, callbacks, active, doc, edits >> /\ phase = "up"
      /\ phase' = "stopping" /\ todo' = [todo EXCEPT !["main"] = StopAll]
      /\ \A c \in ModuleCaller : todo[c] = << >>
  BY DEF Shutdown, fileVars, moduleVars, countVars
<1>2. todo'["main"] = StopAll /\ \A u \in ForsettiThread : u # "main" => todo'[u] = todo[u]
  BY <1>1, MainStops DEF Protecting
<1>3. phase # Off
  BY <1>1 DEF Off
<1> QED BY <1>1, <1>2, <1>3, StopProtects

LEMMA GoneProtects ==
    ASSUME Protecting, Gone
    PROVE  Protection'
<1>1. entitlements' = entitlements /\ phase' = Off /\ \A t \in ForsettiThread : todo'[t] = << >>
  BY DEF Gone, fileVars
<1>2. DefaultsRun(todo'["main"], active')
  BY <1>1, ThreadsApart DEF DefaultsRun
<1>3. ProtectedOrNext'
  BY <1>1 DEF ProtectedOrNext, Off
<1> QED BY <1>1, <1>2, <1>3, HarmlessEmpty DEF Protecting, Protection

LEMMA ProtectionKept == BookKept /\ Protection /\ [ForsettiNext]_forsettiVars => Protection'
<1> SUFFICES ASSUME BookKept, Protection, [ForsettiNext]_forsettiVars PROVE Protection'
  OBVIOUS
<1>1. CASE UNCHANGED forsettiVars
  BY <1>1 DEF forsettiVars, Protection, ProtectedOrNext, StartsNext
<1>2. CASE EditFile
  <2>1. edits' # 0
    BY <1>2 DEF EditFile, BookKept, ForsettiTyped
  <2> QED BY <2>1 DEF Protection
<1>3. CASE ForsettiNext /\ ~EditFile
  <2>1. edits' = edits
    BY <1>3 DEF ForsettiNext, Work, ReadDocument, WriteDocument, Apply, Reconcile, Defaults, TryModule, Ask,
       ModuleStep, manageForsettiModule, Watch, Boot, Subscribe, StartHttp, Shutdown, End, Crash, Gone, countVars
  <2>2. CASE edits = 0
    <3>1. Protecting
      BY <2>2 DEF Protecting
    <3> QED
      BY <1>3, <3>1, WorkProtects, ManageProtects, WatchProtects, BootProtects, SubscribeProtects,
         StartHttpProtects, ShutdownProtects, GoneProtects DEF ForsettiNext, End, Crash
  <2>3. CASE edits # 0
    BY <2>1, <2>3 DEF Protection
  <2> QED BY <2>2, <2>3
<1> QED BY <1>1, <1>2, <1>3
-----------------------------------------------------------------------------
(* The modules of a server *)

LEMMA DefaultsUnlock == Unlocks(defaultState) /\ defaultState \in Document
<1>1. "command-logic-unit" \in Modules => "command-logic-unit" \in Product
  <2>1. Manifest("command-logic-unit", TRUE) \in Manifests
    BY DEF Manifests, OperationManifests
  <2>2. Manifest("command-logic-unit", TRUE).product /\ Manifest("command-logic-unit", TRUE).module = "command-logic-unit"
    BY DEF Manifest
  <2> QED BY <2>1, <2>2 DEF Product
<1>2. \A m \in Protected : m \in Modules \cap unlockedByDefault \/ m = "command-logic-unit"
  BY DEF Protected, protectedForsettiModuleIds, unlockedByDefault
<1>3. \A m \in Protected : m \in Modules
  BY DEF Protected
<1>4. Unlocks(defaultState)
  BY <1>1, <1>2, <1>3 DEF Unlocks, defaultState
<1>5. defaultState \in Document
  BY DEF defaultState, Document
<1> QED BY <1>4, <1>5

LEMMA ModulesBegin == ForsettiInit => ForsettiInv
<1> SUFFICES ASSUME ForsettiInit PROVE ForsettiInv
  OBVIOUS
<1>1. ForsettiRegistered
  BY NothingRegistered DEF ForsettiInit
<1>2. ForsettiTyped
  <2>1. todo \in [ForsettiThread -> Seq(StepRecord)]
    <3>1. << >> \in Seq(StepRecord)
      OBVIOUS
    <3> QED BY <3>1 DEF ForsettiInit
  <2>2. doc \in [ForsettiThread -> Document] /\ entitlements \in Document /\ unlockedIds \in Document
    BY DocumentParts, DefaultsUnlock DEF ForsettiInit
  <2>3. callbacks \in 0 .. 2 /\ edits \in Nat
    BY DEF ForsettiInit
  <2>4. changed \in BOOLEAN /\ active \subseteq Modules /\ activationState \subseteq Modules
    BY DEF ForsettiInit
  <2>5. phase \in {Off, "starting", "booted", "up", "stopping"}
    BY DEF ForsettiInit
  <2> QED BY <2>1, <2>2, <2>3, <2>4, <2>5 DEF ForsettiTyped
<1>3. \A t \in ForsettiThread : todo[t] = << >>
  BY DEF ForsettiInit
<1>4. SubscribesTwice /\ ForsettiTurns
  BY <1>3, ThreadsApart DEF ForsettiInit, SubscribesTwice, ForsettiTurns, Off
<1>5. Protection
  <2>1. DefaultsRun(todo["main"], active)
    BY <1>3, ThreadsApart DEF DefaultsRun
  <2>2. ProtectedOrNext
    BY DEF ForsettiInit, ProtectedOrNext, Off
  <2>3. \A t \in ForsettiThread : Harmless(todo[t], doc[t], phase)
    BY <1>3, HarmlessEmpty
  <2>4. Unlocks(entitlements) /\ phase = Off
    BY DefaultsUnlock DEF ForsettiInit
  <2> QED BY <2>1, <2>2, <2>3, <2>4 DEF Protection
<1> QED BY <1>1, <1>2, <1>4, <1>5 DEF ForsettiInv

LEMMA ModulesKept == ForsettiInv /\ [ForsettiNext]_forsettiVars => ForsettiInv'
  BY RegisteredKept, BooksKept, ProtectionKept DEF ForsettiInv, BookKept

LEMMA ModulesInForce ==
    ForsettiInv => /\ ForsettiTypeOK
                   /\ RegistrationsFollowModules /\ SurfaceFollowsModules /\ ProtectedModulesRun
<1> SUFFICES ASSUME ForsettiInv
             PROVE  ForsettiTypeOK /\ ProtectedModulesRun
  BY DEF ForsettiInv, ForsettiRegistered
<1>1. RegistrationsFollowModules /\ tools = active \cap Servers
  BY DEF ForsettiInv, ForsettiRegistered
<1>2. ForsettiTyped /\ Protection
  BY DEF ForsettiInv
<1>3. {active, activationState, requested, servers, tools, dns} \subseteq SUBSET Modules
  <2>1. active \subseteq Modules /\ activationState \subseteq Modules
    BY <1>2 DEF ForsettiTyped
  <2>2. requested \subseteq active /\ servers \subseteq active /\ tools \subseteq active /\ dns \subseteq active
    BY <1>1 DEF RegistrationsFollowModules
  <2> QED BY <2>1, <2>2
<1>4. DOMAIN gateways \subseteq Gateways
  BY <1>1 DEF RegistrationsFollowModules
<1>5. \A t \in ForsettiThread : \A i \in DOMAIN todo[t] : todo[t][i].module \in Modules \cup {""}
  <2> SUFFICES ASSUME NEW t \in ForsettiThread, NEW i \in DOMAIN todo[t]
               PROVE  todo[t][i].module \in Modules \cup {""}
    OBVIOUS
  <2>1. todo[t] \in Seq(StepRecord)
    BY <1>2 DEF ForsettiTyped
  <2>2. todo[t][i] \in StepRecord
    BY <2>1
  <2> QED BY <2>2 DEF StepRecord
<1>6. ForsettiTypeOK
  BY <1>2, <1>3, <1>4, <1>5 DEF ForsettiTyped, ForsettiTypeOK
<1>7. ProtectedModulesRun
  <2> SUFFICES ASSUME phase = "up", edits = 0, NEW m \in Protected, m \notin active
               PROVE  Refreshing(m)
    BY DEF ProtectedModulesRun, Protected
  <2>1. PICK c \in ModuleCaller : StartsNext(c, m)
    BY <1>2 DEF Protection, ProtectedOrNext
  <2>2. 1 \in DOMAIN todo[c]
    <3>1. Busy(c)
      BY <2>1 DEF StartsNext, Busy
    <3> QED BY <1>2, <3>1, StepParts, ThreadsApart
  <2>3. todo[c][1].module = m /\ todo[c][1].do = "start"
    BY <2>1 DEF StartsNext
  <2> QED BY <2>2, <2>3 DEF Refreshing
<1> QED BY <1>6, <1>7

-----------------------------------------------------------------------------
(* The window *)

\* What the types of the window need of its tables: whatever the server publishes, each destination
\* has a view, and the navigation, the toolbar and the workflows lead to destinations.
WindowTables ==
    /\ \A modules \in ActiveSets \cup {NoModules} :
        /\ \A d \in Destination : Slots[modules][d] \in View
        /\ \A item \in Toolbars[modules] : ToolbarLeadsTo(Routes[modules], item) \subseteq Destination
        /\ \A d \in Destination :
            (IF Contains(Menus[modules], d) THEN d ELSE Head(Menus[modules])) \in Destination
    /\ \A workflow \in Workflow : StartGuidedWorkflow[workflow] \in Destination

\* The destinations that the window goes to by name, and the views that are not cached.
LEMMA KnownPlaces ==
    /\ {"overview", "runtime", "setup-wizard", "setup-readiness"} \subseteq Destination
    /\ SetupViews \subseteq View
<1>1. /\ {"overview", "runtime", "setup-wizard", "setup-readiness"} \subseteq Destination
      /\ bootstrapViewInjectionsBySlot["setup-wizard"] = "SetupWizardView"
      /\ bootstrapViewInjectionsBySlot["setup-readiness"] = "SetupReadinessView"
  BY DEF Destination, bootstrapViewInjectionsBySlot
<1>2. DOMAIN bootstrapViewInjectionsBySlot = Destination
  BY DEF bootstrapViewInjectionsBySlot
<1> QED
  BY <1>1, <1>2 DEF View, Range, SetupViews

\* The tables that agree are fit for the window.
LEMMA TablesSuffice ==
    ASSUME \A modules \in ActiveSets \cup {NoModules} : ViewTablesAgree(modules)
    PROVE  WindowTables
<1>1. ASSUME NEW modules \in ActiveSets \cup {NoModules}, NEW d \in Destination
      PROVE  Slots[modules][d] \in View
  <2>1. Slots[modules][d] = bootstrapViewInjectionsBySlot[d]
    BY <1>1 DEF ViewTablesAgree, Slots, Tabulate
  <2>2. DOMAIN bootstrapViewInjectionsBySlot = Destination
    BY DEF bootstrapViewInjectionsBySlot
  <2> QED
    BY <2>1, <2>2 DEF View, Range
<1>2. ASSUME NEW modules \in ActiveSets \cup {NoModules}, NEW item \in Toolbars[modules]
      PROVE  ToolbarLeadsTo(Routes[modules], item) \subseteq Destination
  <2>1. /\ Toolbars[modules] = ToolbarOf(modules) /\ Routes[modules] = RoutesOf(modules)
        /\ ViewTablesAgree(modules)
    BY <1>2 DEF Toolbars, Routes, Tabulate
  <2>2. PICK d \in Destination : ToolbarLeadsTo(RoutesOf(modules), item) = {d}
    BY <1>2, <2>1 DEF ViewTablesAgree
  <2> QED
    BY <2>1, <2>2
<1>3. ASSUME NEW modules \in ActiveSets \cup {NoModules}, NEW d \in Destination
      PROVE  (IF Contains(Menus[modules], d) THEN d ELSE Head(Menus[modules])) \in Destination
  BY <1>3, NavigationAssumption
<1>4. ASSUME NEW workflow \in Workflow
      PROVE  StartGuidedWorkflow[workflow] \in Destination
  <2>1. Range(StartGuidedWorkflow) \subseteq Destination
    BY DEF ViewTablesAgree
  <2> QED
    BY <1>4, <2>1 DEF Range, StartGuidedWorkflow
<1> QED
  BY <1>1, <1>2, <1>3, <1>4 DEF WindowTables

\* A step of a capture leaves a pass a pass.
LEMMA CapturedTyped ==
    ASSUME WindowTypeOK, NEW pass \in Pass
    PROVE  Captured(pass) \subseteq Pass
<1>1. EmptySnapshot \in Snapshot
  BY ShellAssumption DEF EmptySnapshot, Snapshot
<1>2. server.up \in BOOLEAN /\ server.version \in 1 .. MaxVersions + 1 /\ server.completed \in BOOLEAN
      /\ server.modules \in ActiveSets
  BY DEF WindowTypeOK
<1>3. ReadDashboard \in Snapshot
  BY <1>2, ShellAssumption DEF ReadDashboard, Snapshot
<1>4. ReadSetup(pass.snapshot) \in Snapshot
  BY <1>2 DEF ReadSetup, Snapshot, Pass
<1>5. CASE pass.at = "dashboard"
  BY <1>3, <1>5 DEF Captured, Pass
<1>6. CASE pass.at # "dashboard"
  <2>1. [pass EXCEPT !.at = "apply", !.snapshot = ReadSetup(pass.snapshot)] \in Pass
    BY <1>4 DEF Pass
  <2>2. [at |-> "apply", snapshot |-> EmptySnapshot, captured |-> FALSE] \in Pass
    BY <1>1 DEF Pass
  <2> QED
    BY <1>6, <2>1, <2>2 DEF Captured
<1> QED
  BY <1>5, <1>6

\* A pass that begins is a pass.
LEMMA PassesTyped ==
    /\ IdlePass \in Pass /\ EmptySnapshot \in Snapshot
    /\ \A pass \in Pass : Start(pass) \in Pass /\ pass.snapshot \in Snapshot
  BY ShellAssumption DEF IdlePass, EmptySnapshot, Start, Snapshot, Pass

\* The state of the window but the section, and the section.
Frame ==
    /\ server \in [version : 1 .. MaxVersions + 1, up : BOOLEAN, modules : ActiveSets, completed : BOOLEAN]
    /\ shown \in Snapshot /\ built \in ActiveSets \cup {NoModules}
    /\ refresh \in Pass /\ live \in Pass
    /\ {dismissed, loaded} \subseteq BOOLEAN /\ clicks \in 0 .. MaxClicks
Place ==
    /\ destination \in Destination /\ {header, selected} \subseteq Destination \cup {"none"}
    /\ loaded => header = destination
Section ==
    /\ content.view \in View \cup {"none"} /\ ContentVersion \in NotMade .. MaxVersions + 1
    /\ cached \in [View \ SetupViews -> NotMade .. MaxVersions + 1]

LEMMA InParts == WindowTypeOK <=> Frame /\ Place /\ Section
  BY DEF WindowTypeOK, Frame, Place, Section

\* A section whose view stays in place keeps its type when the views are given snapshots.
LEMMA SectionStays ==
    ASSUME Section, content' = content, cached' \in [View \ SetupViews -> NotMade .. MaxVersions + 1]
    PROVE  Section'
  BY DEF Section, ContentVersion

\* Going to a destination keeps the types.
LEMMA GoingTyped ==
    ASSUME WindowTables, WindowTypeOK, NEW d \in Destination, SetCurrentDestination(d)
    PROVE  Section' /\ destination' = d /\ header' = d
<1> DEFINE v == Slots[shown.modules][d]
<1>1. shown.modules \in ActiveSets \cup {NoModules} /\ shown.version \in 0 .. MaxVersions + 1
  BY DEF WindowTypeOK, Snapshot
<1>2. v \in View
  BY <1>1 DEF WindowTables
<1>3. CASE d = destination
  BY <1>3, InParts, SectionStays DEF SetCurrentDestination, Section
<1>4. CASE d # destination
  <2>1. content' = [view |-> v, version |-> IF v \in SetupViews THEN shown.version ELSE NotMade]
        /\ cached' = CachedWith(v, shown)
    BY <1>4 DEF SetCurrentDestination, ViewFor
  <2>2. cached \in [View \ SetupViews -> NotMade .. MaxVersions + 1]
    BY DEF WindowTypeOK
  <2>3. shown.version \in NotMade .. MaxVersions + 1
    BY <1>1, ShellAssumption DEF NotMade
  <2>4. cached' \in [View \ SetupViews -> NotMade .. MaxVersions + 1]
    BY <1>2, <2>1, <2>2, <2>3 DEF CachedWith
  <2>5. content'.view = v
    BY <2>1
  <2>6. ContentVersion' \in NotMade .. MaxVersions + 1
    <3>1. CASE v \in SetupViews
      <4>1. v \notin DOMAIN cached' /\ content'.version = shown.version
        BY <2>1, <2>4, <3>1
      <4> QED
        BY <2>3, <2>5, <4>1 DEF ContentVersion
    <3>2. CASE v \notin SetupViews
      BY <1>2, <2>4, <2>5, <3>2 DEF ContentVersion
    <3> QED
      BY <3>1, <3>2
  <2> QED
    BY <1>2, <2>4, <2>5, <2>6 DEF Section, SetCurrentDestination
<1> QED
  BY <1>3, <1>4 DEF SetCurrentDestination

\* Applying a snapshot keeps the types.
LEMMA ApplyingTyped ==
    ASSUME WindowTables, WindowTypeOK, NEW taken \in Snapshot, ApplySnapshot(taken)
    PROVE  /\ Section' /\ shown' \in Snapshot /\ built' \in ActiveSets \cup {NoModules}
           /\ destination' \in Destination /\ selected' \in Destination /\ header' = destination'
<1>1. taken.modules \in ActiveSets \cup {NoModules} /\ taken.version \in NotMade .. MaxVersions + 1
  BY ShellAssumption DEF Snapshot, NotMade
<1>2. destination \in Destination /\ cached \in [View \ SetupViews -> NotMade .. MaxVersions + 1]
      /\ content' = content
  BY DEF WindowTypeOK, ApplySnapshot
<1>3. ApplySurfaceNavigation(taken) \in Destination
  BY <1>1, <1>2 DEF WindowTables, ApplySurfaceNavigation
<1>4. RoutedTo(ApplySurfaceNavigation(taken), taken) \in Destination
  BY <1>3, KnownPlaces DEF RoutedTo
<1>5. cached' \in [View \ SetupViews -> NotMade .. MaxVersions + 1]
  BY <1>1, <1>2 DEF ApplySnapshot, ApplyCachedSectionSnapshots
<1>6. Section'
  BY <1>2, <1>5, InParts, SectionStays
<1> QED
  BY <1>1, <1>3, <1>4, <1>6 DEF ApplySnapshot

\* A click goes to a destination, and the window keeps its types.
LEMMA ClickTyped ==
    ASSUME WindowTables, WindowTypeOK, Click, NEW d \in Destination, SetCurrentDestination(d),
           shown' = shown, built' = built, server' = server, loaded' = loaded, live' = live,
           selected' \in Destination \cup {"none"}, refresh' \in Pass, dismissed' \in BOOLEAN
    PROVE  WindowTypeOK'
<1>1. Section' /\ destination' = d /\ header' = d
  BY GoingTyped
<1>2. Frame'
  BY InParts, ShellAssumption DEF Frame, Click
<1>3. Place'
  BY <1>1 DEF Place
<1> QED
  BY <1>1, <1>2, <1>3, InParts DEF WindowTypeOK, Frame, Place, Section

\* So does what leaves the place and the section alone.
LEMMA StayTyped ==
    ASSUME WindowTypeOK, UNCHANGED << destination, header, content, cached, selected, loaded >>, Frame'
    PROVE  WindowTypeOK'
<1>1. Place' /\ Section'
  BY InParts DEF Place, Section, ContentVersion
<1> QED
  BY <1>1 DEF WindowTypeOK, Frame, Place, Section

\* A refresh that is asked for.
LEMMA AskedTyped == WindowTypeOK /\ (RefreshAsync \/ UNCHANGED refresh) => refresh' \in Pass
  BY PassesTyped DEF RefreshAsync, WindowTypeOK

LEMMA OperatorTyped ==
    ASSUME WindowTables, WindowTypeOK, Operator
    PROVE  WindowTypeOK'
<1> USE KnownPlaces
<1>0. Frame /\ Place /\ Section
  BY InParts
<1>1. ASSUME NEW d \in Destination, SelectItem(d) PROVE WindowTypeOK'
  BY <1>0, <1>1, ClickTyped DEF SelectItem, Frame
<1>2. ASSUME NEW item \in Toolbars[built], ClickToolbar(item) PROVE WindowTypeOK'
  <2>1. shown.modules \in ActiveSets \cup {NoModules}
    BY <1>0 DEF Frame, Snapshot
  <2>2. PICK d \in ToolbarLeadsTo(Routes[shown.modules], item) : SetCurrentDestination(d)
    BY <1>2 DEF ClickToolbar
  <2>3. d \in Destination
    BY <1>2, <2>1, <2>2 DEF ClickToolbar, WindowTables
  <2> QED
    BY <1>0, <1>2, <2>2, <2>3, ClickTyped DEF ClickToolbar, Frame, Place
<1>3. ASSUME NEW workflow \in Workflow, ClickWorkflow(workflow) PROVE WindowTypeOK'
  <2>1. StartGuidedWorkflow[workflow] \in Destination
    BY <1>3 DEF WindowTables
  <2> QED
    BY <1>0, <1>3, <2>1, ClickTyped DEF ClickWorkflow, GuidedWorkflow, Frame, Place
<1>4. CASE ClickRefresh
  <2>1. Frame'
    BY <1>0, <1>4, AskedTyped, ShellAssumption DEF ClickRefresh, Click, Frame
  <2> QED
    BY <1>4, <2>1, StayTyped DEF ClickRefresh
<1>5. CASE ClickSetupCard
  <2>1. PICK started \in BOOLEAN :
          \/ /\ \E workflow \in {"new-mcp", "guided-import"} : GuidedWorkflow(workflow)
             /\ IF started THEN RefreshAsync ELSE UNCHANGED refresh
             /\ UNCHANGED dismissed
          \/ /\ \E aside \in Accepted :
                 /\ dismissed' = (dismissed \/ aside)
                 /\ IF started \/ aside THEN RefreshAsync ELSE UNCHANGED refresh
             /\ SetCurrentDestination("overview")
             /\ UNCHANGED selected
    BY <1>5 DEF ClickSetupCard, Accepted
  <2>2. refresh' \in Pass
    BY <2>1, AskedTyped
  <2>3. dismissed' \in BOOLEAN
    BY <1>0, <2>1 DEF Frame
  <2>4. ASSUME NEW workflow \in {"new-mcp", "guided-import"}, GuidedWorkflow(workflow)
        PROVE  WindowTypeOK'
    <3>1. StartGuidedWorkflow[workflow] \in Destination
      BY DEF WindowTables, Workflow
    <3> QED
      BY <1>0, <1>5, <2>2, <2>3, <2>4, <3>1, ClickTyped DEF ClickSetupCard, GuidedWorkflow, Frame, Place
  <2>5. ASSUME SetCurrentDestination("overview"), UNCHANGED selected
        PROVE  WindowTypeOK'
    BY <1>0, <1>5, <2>2, <2>3, <2>5, ClickTyped DEF ClickSetupCard, Frame, Place
  <2> QED
    BY <2>1, <2>4, <2>5
<1>6. CASE ClickSetupLater
  <2>1. Frame'
    BY <1>0, <1>6, AskedTyped, ShellAssumption DEF ClickSetupLater, SetAside, Accepted, Click, Frame
  <2> QED
    BY <1>6, <2>1, StayTyped DEF ClickSetupLater
<1>7. CASE ClickSetupComplete
  <2>1. server' \in [version : 1 .. MaxVersions + 1, up : BOOLEAN, modules : ActiveSets, completed : BOOLEAN]
    BY <1>0, <1>7 DEF ClickSetupComplete, Frame
  <2>2. Frame'
    BY <1>0, <1>7, <2>1, AskedTyped, ShellAssumption DEF ClickSetupComplete, Click, Frame
  <2> QED
    BY <1>7, <2>2, StayTyped DEF ClickSetupComplete
<1>8. ASSUME NEW d \in {"runtime", "setup-wizard"}, ClickFixNow(d) PROVE WindowTypeOK'
  BY <1>0, <1>8, ClickTyped DEF ClickFixNow, Frame, Place
<1> QED
  BY <1>1, <1>2, <1>3, <1>4, <1>5, <1>6, <1>7, <1>8 DEF Operator

LEMMA PassesKeepTypes ==
    ASSUME WindowTables, WindowTypeOK,
           RefreshCapture \/ RefreshApply \/ RefreshFails \/ LiveTick \/ LiveCapture \/ LiveApply
    PROVE  WindowTypeOK'
<1>0. Frame /\ Place /\ Section
  BY InParts
<1>1. CASE RefreshCapture
  <2>1. Frame'
    BY <1>0, <1>1, CapturedTyped DEF RefreshCapture, Frame
  <2> QED
    BY <1>1, <2>1, StayTyped DEF RefreshCapture
<1>2. CASE RefreshApply
  <2>1. refresh.snapshot \in Snapshot
    BY <1>0, PassesTyped DEF Frame
  <2>2. /\ Section' /\ shown' \in Snapshot /\ built' \in ActiveSets \cup {NoModules}
        /\ destination' \in Destination /\ selected' \in Destination /\ header' = destination'
    BY <1>2, <2>1, ApplyingTyped DEF RefreshApply
  <2>3. Frame'
    BY <1>0, <1>2, <2>2, PassesTyped DEF RefreshApply, Frame
  <2> QED
    BY <2>2, <2>3 DEF WindowTypeOK, Frame, Section
<1>3. CASE RefreshFails
  <2>1. Frame'
    <3>1. refresh.snapshot \in Snapshot
      BY <1>0, PassesTyped DEF Frame
    <3>2. [refresh EXCEPT !.at = "stuck"] \in Pass
      BY <1>0 DEF Frame, Pass
    <3> QED
      BY <1>0, <1>3, <3>1, <3>2 DEF RefreshFails, Frame
  <2> QED
    BY <1>3, <2>1, StayTyped DEF RefreshFails
<1>4. CASE LiveTick
  <2>1. Frame'
    BY <1>0, <1>4, PassesTyped DEF LiveTick, Frame
  <2> QED
    BY <1>4, <2>1, StayTyped DEF LiveTick
<1>5. CASE LiveCapture
  <2>1. Frame'
    BY <1>0, <1>5, CapturedTyped DEF LiveCapture, Frame
  <2> QED
    BY <1>5, <2>1, StayTyped DEF LiveCapture
<1>6. CASE LiveApply
  <2>1. live.snapshot \in Snapshot /\ live.snapshot.version \in NotMade .. MaxVersions + 1
    BY <1>0, PassesTyped, ShellAssumption DEF Frame, Snapshot, NotMade
  <2>2. Frame'
    BY <1>0, <1>6, <2>1, PassesTyped DEF LiveApply, LiveFlagGuard, Frame
  <2>3. cached' \in [View \ SetupViews -> NotMade .. MaxVersions + 1]
    BY <1>0, <1>6, <2>1 DEF LiveApply, ApplyCurrentSectionSnapshot, Section
  <2>4. Section'
    BY <1>0, <1>6, <2>3, SectionStays DEF LiveApply
  <2>5. Place'
    BY <1>0, <1>6 DEF LiveApply, Place
  <2> QED
    BY <2>2, <2>4, <2>5 DEF WindowTypeOK, Frame, Place, Section
<1> QED
  BY <1>1, <1>2, <1>3, <1>4, <1>5, <1>6

LEMMA WindowKeepsTypes ==
    ASSUME WindowTables, WindowTypeOK, [WindowNext]_winVars
    PROVE  WindowTypeOK'
<1>0. Frame /\ Place /\ Section
  BY InParts
<1>1. CASE Loaded
  <2>1. /\ Section' /\ shown' \in Snapshot /\ built' \in ActiveSets \cup {NoModules}
        /\ destination' \in Destination /\ selected' \in Destination /\ header' = destination'
    BY <1>1, PassesTyped, ApplyingTyped DEF Loaded
  <2>2. Frame'
    BY <1>0, <1>1, <2>1, AskedTyped DEF Loaded, Frame
  <2> QED
    BY <2>1, <2>2 DEF WindowTypeOK, Frame, Section
<1>2. CASE ServerChanges
  <2>1. server' \in [version : 1 .. MaxVersions + 1, up : BOOLEAN, modules : ActiveSets, completed : BOOLEAN]
    <3>1. server.version + 1 \in 1 .. MaxVersions + 1
      BY <1>0, <1>2, ShellAssumption DEF ServerChanges, Frame
    <3> QED
      BY <1>0, <1>2, <3>1 DEF ServerChanges, Frame
  <2>2. Frame'
    BY <1>0, <1>2, <2>1 DEF ServerChanges, Frame
  <2> QED
    BY <1>2, <2>2, StayTyped DEF ServerChanges
<1>3. CASE ServerStopsOrStarts
  <2>1. server' \in [version : 1 .. MaxVersions + 1, up : BOOLEAN, modules : ActiveSets, completed : BOOLEAN]
    <3>1. server.version + 1 \in 1 .. MaxVersions + 1
      BY <1>0, <1>3, ShellAssumption DEF ServerStopsOrStarts, Frame
    <3>2. server.up \in BOOLEAN
      BY <1>0 DEF Frame
    <3> QED
      <4>1. CASE server.up = TRUE
        BY <1>0, <1>3, <3>1, <4>1 DEF ServerStopsOrStarts, Frame
      <4>2. CASE server.up = FALSE
        BY <1>0, <1>3, <3>1, <4>2 DEF ServerStopsOrStarts, Frame
      <4> QED
        BY <3>2, <4>1, <4>2
  <2>2. Frame'
    BY <1>0, <1>3, <2>1 DEF ServerStopsOrStarts, Frame
  <2> QED
    BY <1>3, <2>2, StayTyped DEF ServerStopsOrStarts
<1>4. CASE UNCHANGED winVars
  <2>1. Frame'
    BY <1>0, <1>4 DEF Frame, winVars
  <2> QED
    BY <1>4, <2>1, StayTyped DEF winVars
<1> QED
  BY <1>1, <1>2, <1>3, <1>4, OperatorTyped, PassesKeepTypes DEF WindowNext

LEMMA WindowBegins == WindowInit => WindowTypeOK
<1> SUFFICES ASSUME WindowInit PROVE WindowTypeOK
  OBVIOUS
<1>1. Frame
  <2>1. server \in [version : 1 .. MaxVersions + 1, up : BOOLEAN, modules : ActiveSets, completed : BOOLEAN]
    <3>1. 1 \in 1 .. MaxVersions + 1
      BY ShellAssumption
    <3>2. PICK modules \in ActiveSets, completed \in BOOLEAN :
            server = [version |-> 1, up |-> TRUE, modules |-> modules, completed |-> completed]
      BY DEF WindowInit
    <3> QED
      BY <3>1, <3>2
  <2>2. 0 \in 0 .. MaxClicks
    BY ShellAssumption
  <2> QED
    BY <2>1, <2>2, PassesTyped DEF WindowInit, Frame
<1>2. Place
  BY KnownPlaces DEF WindowInit, Place
<1>3. cached \in [View \ SetupViews -> NotMade .. MaxVersions + 1]
  BY ShellAssumption DEF WindowInit, NotMade
<1>4. ContentVersion \in NotMade .. MaxVersions + 1
  BY <1>3, ShellAssumption DEF WindowInit, ContentVersion, NoView, NotMade
<1>5. Section
  BY <1>3, <1>4 DEF WindowInit, Section, NoView
<1> QED
  BY <1>1, <1>2, <1>5, InParts

-----------------------------------------------------------------------------
(* The place of the window *)

\* Once the setup is set aside, applying a snapshot does not lead to the wizard: the navigation either
\* has the destination in place, or does not begin with the wizard.
LEMMA ApplyingLeadsElsewhere ==
    ASSUME WindowTypeOK, dismissed, NEW taken \in Snapshot, ApplySnapshot(taken),
           destination # "setup-wizard"
    PROVE  destination' # "setup-wizard"
<1>1. taken.modules \in ActiveSets \cup {NoModules} /\ destination \in Destination
  BY DEF Snapshot, WindowTypeOK
<1>2. ApplySurfaceNavigation(taken) # "setup-wizard"
  BY <1>1, NavigationAssumption DEF ApplySurfaceNavigation
<1> QED
  BY <1>2 DEF ApplySnapshot, RoutedTo

LEMMA OnlyClicksLeadToTheWizard ==
    ASSUME WindowTypeOK, [WindowNext]_winVars, dismissed, destination' = "setup-wizard",
           destination # "setup-wizard"
    PROVE  clicks' # clicks
<1>1. ASSUME Click PROVE clicks' # clicks
  BY <1>1, ShellAssumption DEF Click, WindowTypeOK
<1>2. CASE Operator
  BY <1>1, <1>2 DEF Operator, SelectItem, ClickToolbar, ClickWorkflow, ClickRefresh, ClickSetupCard,
     ClickSetupLater, ClickSetupComplete, ClickFixNow
<1>3. CASE Loaded
  BY <1>3, PassesTyped, ApplyingLeadsElsewhere DEF Loaded
<1>4. CASE RefreshApply
  BY <1>4, PassesTyped, ApplyingLeadsElsewhere DEF RefreshApply, WindowTypeOK
<1>5. destination' = destination
       \/ Operator \/ Loaded \/ RefreshApply
  BY DEF WindowNext, winVars, RefreshCapture, RefreshFails, LiveTick, LiveCapture, LiveApply,
     ServerChanges, ServerStopsOrStarts
<1> QED
  BY <1>2, <1>3, <1>4, <1>5

-----------------------------------------------------------------------------
(* The composition *)

\* Each step of the composition is one of the bootstrapper's, or leaves it alone.
LEMMA BootstrapperSteps == [ShellNext]_mcVars => [DepNext]_depVars
  BY DEF ShellNext, WindowStep, ModulesStep, BootstrapperStep, mcVars

LEMMA InstallsHold == ShellSpec => []DepInv
<1>1. ShellInit => DepInv
  BY DepInvInitially DEF ShellInit
<1>2. DepInv /\ [ShellNext]_mcVars => DepInv'
  BY BootstrapperSteps, DepInvKept
<1> QED
  BY <1>1, <1>2, PTL DEF ShellSpec

\* A repair or an upgrade that fails, throws or is killed at any of its steps leaves the directory
\* or its snapshot as the previous installation was, and a rollback that says restored has restored
\* it: for every number of runs and every selection of integrations (installLike,
\* rollbackOrCleanup).
THEOREM InstallsAreRecoverable == ShellSpec => InstallsRecover
<1>1. DepInv /\ [ShellNext]_mcVars =>
        [ job.outcome = "none" /\ job'.outcome = "restored" =>
            /\ installDir' = before
            /\ before.state.managed \subseteq present'
            /\ "service" \in before.state.managed => running' ]_depVars
  BY BootstrapperSteps, RestoredSteps
<1>2. DepInv => PreviousInstallRecoverable
  BY DEF DepInv
<1> QED
  BY <1>1, <1>2, InstallsHold, PTL DEF ShellSpec, InstallsRecover, RestoredMeansRestored

\* Each step of the composition is one of the modules', or leaves them alone.
LEMMA ModulesSteps == [ShellNext]_mcVars => [ForsettiNext]_forsettiVars
  BY DEF ShellNext, WindowStep, ModulesStep, BootstrapperStep, mcVars

LEMMA ModulesHold == ShellSpec => []ForsettiInv
<1>1. ShellInit => ForsettiInv
  BY ModulesBegin DEF ShellInit
<1>2. ForsettiInv /\ [ShellNext]_mcVars => ForsettiInv'
  BY ModulesSteps, ModulesKept
<1> QED
  BY <1>1, <1>2, PTL DEF ShellSpec

\* Whatever the order in which requests, the watcher and the two callbacks start and stop modules,
\* what is registered, advertised and composed into the surface is what the active modules register;
\* and while nobody edits the entitlements file, the protected modules of a server that is up are
\* active or start next, for every number of modules, callers, changes and runs
\* (isProtectedForsettiModule, refreshEntitlements, activateDefaultModules).
THEOREM ModulesStayInForce == ShellSpec => []ModulesAreInForce
<1>1. ForsettiInv => ModulesAreInForce
  BY ModulesInForce DEF ModulesAreInForce
<1> QED
  BY <1>1, ModulesHold, PTL

\* Each step of the composition is one of the window's, or leaves it alone.
LEMMA WindowSteps == [ShellNext]_mcVars => [WindowNext]_winVars
  BY DEF ShellNext, WindowStep, ModulesStep, BootstrapperStep, mcVars

LEMMA WindowHolds ==
    ASSUME WindowTables
    PROVE  ShellSpec => []WindowTypeOK
<1>1. ShellInit => WindowTypeOK
  BY WindowBegins DEF ShellInit
<1>2. WindowTypeOK /\ [ShellNext]_mcVars => WindowTypeOK'
  BY WindowSteps, WindowKeepsTypes
<1> QED
  BY <1>1, <1>2, PTL DEF ShellSpec

\* When the tables of views, commands and calls agree, which the first states of a run tell, the
\* window, the modules and the bootstrapper keep their types: for any sets of modules that the
\* server may publish, and any number of its changes and of the operator's actions (ApplySnapshot,
\* SetCurrentDestination).
THEOREM ShellKeepsTypes ==
    ASSUME \A modules \in ActiveSets \cup {NoModules} : ViewTablesAgree(modules), WireAgrees
    PROVE  ShellSpec => []ShellTypes
<1>1. ShellSpec => []WindowTypeOK
  BY TablesSuffice, WindowHolds
<1>2. WindowTypeOK /\ ForsettiInv /\ DepInv => ShellTypes
  BY ModulesInForce DEF ShellTypes, TablesAgree, DepInv
<1> QED
  BY <1>1, <1>2, ModulesHold, InstallsHold, PTL

\* An operator who set the setup aside is led back to the wizard by clicks alone: never by what the
\* server tells, by a snapshot that is stale or empty, or by passes that overlap; for any sets of
\* modules that the server may publish and any number of changes (ApplySnapshot,
\* firstRunWizardDismissed_).
THEOREM SetupStaysAside ==
    ASSUME \A modules \in ActiveSets \cup {NoModules} : ViewTablesAgree(modules)
    PROVE  ShellSpec => SetAsideStaysAside
<1>1. ShellSpec => []WindowTypeOK
  BY TablesSuffice, WindowHolds
<1>2. WindowTypeOK /\ [ShellNext]_mcVars =>
        [dismissed /\ destination' = "setup-wizard" /\ destination # "setup-wizard"
            => clicks' # clicks]_winVars
  BY WindowSteps, OnlyClicksLeadToTheWizard
<1> QED
  BY <1>1, <1>2, PTL DEF ShellSpec, SetAsideStaysAside
================================================================================
