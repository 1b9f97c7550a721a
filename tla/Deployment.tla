------------------------------ MODULE Deployment ------------------------------
(***************************************************************************)
(* MasterControlBootstrapper (main.cpp): install, repair, upgrade and      *)
(* uninstall with their rollback, and the setup program (setup_main.cpp)   *)
(* that starts an install and judges its result.                           *)
(*                                                                         *)
(* A run changes the machine one resource at a time and any step can fail. *)
(* Three things can go wrong in a step: it reports failure, and failInstall *)
(* rolls back; it throws, and the exception leaves installLike past the    *)
(* rollback to wmain; or the process is killed.                            *)
(***************************************************************************)
EXTENDS Naturals

CONSTANTS
    MaxJobs,        \* bound on the runs of the bootstrapper
    Modes,          \* the modes used: install, repair, upgrade, uninstall
    Selections,     \* the sets of integrations a command line selects
    TornConfig      \* whether the server may die while it writes its file

Integrations == {"service", "firewall", "shortcuts", "entry"}

ASSUME DeploymentAssumption ==
    /\ MaxJobs \in Nat
    /\ Modes \subseteq {"install", "repair", "upgrade", "uninstall"}
    /\ Selections \subseteq SUBSET Integrations
    /\ TornConfig \in BOOLEAN

VARIABLES
    installDir,       \* the install directory: payload version and state file
    snapshot,   \* the rollback directory beside it
    present,    \* the integrations that are complete on the machine
    running,    \* the service's process
    config,     \* the configuration file under ProgramData
    logs,       \* the public log tree holds the record of the last run
    job,        \* the bootstrapper's run
    before,     \* history: the install directory as the run found it
    setup,      \* the setup program's view: "none", "waiting", its verdict
    jobs        \* bound: runs begun, and the payload version of the next

machine == << installDir, snapshot, present, running, config >>
depVars == << installDir, snapshot, present, running, config, logs, job, before, setup, jobs >>

Mixed == MaxJobs + 1        \* files of two payloads, or some missing
NoState == [present |-> FALSE, managed |-> {}]
State(ms) == [present |-> TRUE, managed |-> ms]
Empty == [files |-> 0, state |-> NoState]
Directory == [files : 0 .. Mixed, state : [present : BOOLEAN, managed : SUBSET Integrations]]
Outcomes == {"none", "ok", "failed", "restored", "threw", "killed"}
Steps == {"idle", "capture", "stop", "stage", "configure", "firewall", "shortcuts", "entry",
          "service", "start", "validate", "commit", "undoService", "undoFiles",
          "undoIntegrations", "removeService", "removeRest", "purge", "purgeLogs"}
NoJob == [pc |-> "idle", mode |-> "install", managed |-> {}, self |-> FALSE,
          undo |-> FALSE, clean |-> TRUE, outcome |-> "none"]
Job == [pc : Steps, mode : {"install", "repair", "upgrade", "uninstall"},
        managed : SUBSET Integrations, self : BOOLEAN, undo : BOOLEAN, clean : BOOLEAN,
        outcome : Outcomes]

At(pc) == job.pc = pc
Goto(pc) == job' = [job EXCEPT !.pc = pc]
Manages(i) == i \in job.managed
NewState == State(job.managed)

\* writeBootstrapperActionLog runs on every way out and may fail unseen.
EndJob(outcome) ==
    /\ job' = [job EXCEPT !.pc = "idle", !.outcome = outcome]
    /\ \E recorded \in BOOLEAN : logs' = recorded

-----------------------------------------------------------------------------
(* The start of a run *)

\* (mutant) An upgrade takes no snapshot.
CapturesRepairs(mode, dir) == mode = "repair" /\ dir # Empty

\* (mutant) Every run over an installation takes one.
SnapshotsAlways(mode, dir) == mode # "uninstall" /\ dir # Empty

Snapshots(mode, dir) == mode \in {"repair", "upgrade"} /\ dir # Empty

\* wmain.  self: the bootstrapper was started from the installed directory, and
\* copyRecursive copies nothing.
Launch(mode, managed, self) ==
    /\ At("idle") /\ setup # "waiting" /\ jobs < MaxJobs
    /\ jobs' = jobs + 1
    /\ job' = [NoJob EXCEPT !.mode = mode, !.managed = managed, !.self = self,
                   !.pc = IF mode = "uninstall" THEN "removeService"
                          ELSE IF Snapshots(mode, installDir) THEN "capture" ELSE "stop"]
    /\ before' = installDir
    /\ snapshot' = Empty
    /\ logs' = FALSE
    /\ UNCHANGED << installDir, present, running, config >>

BeginRun(mode, managed, self) ==
    /\ self => installDir.files # 0
    /\ Launch(mode, managed, self)
    /\ UNCHANGED setup

\* captureRollbackSnapshot fails or throws: the run ends with nothing changed.
Capture ==
    /\ At("capture")
    /\ \/ /\ snapshot' = installDir
          /\ job' = [job EXCEPT !.pc = "stop", !.undo = TRUE]
          /\ UNCHANGED logs
       \/ /\ snapshot' = [installDir EXCEPT !.files = Mixed]
          /\ \/ EndJob("failed") \/ EndJob("threw")
    /\ UNCHANGED << installDir, present, running, config, before, setup, jobs >>

\* stopServiceIfPresent; its result is ignored.
StopService ==
    /\ At("stop")
    /\ running' \in IF Manages("service") THEN {FALSE, running} ELSE {running}
    /\ Goto("stage")
    /\ UNCHANGED << installDir, snapshot, present, config, logs, before, setup, jobs >>

-----------------------------------------------------------------------------
(* The forward steps of installLike *)

\* stagePayload overwrites file by file.  A file in use, or a disk that is
\* full, throws out of installLike.
StagePayload ==
    /\ At("stage")
    /\ \/ /\ installDir' = IF job.self THEN installDir ELSE [installDir EXCEPT !.files = jobs]
          /\ Goto("configure")
          /\ UNCHANGED logs
       \/ /\ ~job.self
          /\ installDir' = [installDir EXCEPT !.files = Mixed]
          /\ EndJob("threw")
    /\ UNCHANGED << snapshot, present, running, config, before, setup, jobs >>

\* ensureConfigurationPresent throws on a file that is no JSON document; the
\* state file is written or the run fails.
Configure ==
    /\ At("configure")
    /\ IF config = "torn"
       THEN EndJob("threw") /\ UNCHANGED << installDir, config >>
       ELSE /\ config' \in {"whole", config}
            /\ \/ installDir' = [installDir EXCEPT !.state = NewState] /\ Goto("firewall")
               \/ installDir' = [installDir EXCEPT !.state = NoState] /\ Goto("undoService")
            /\ UNCHANGED logs
    /\ UNCHANGED << snapshot, present, running, before, setup, jobs >>

\* One integration: made complete, or left incomplete and the run fails.
Integrate(at, i, next) ==
    /\ At(at)
    /\ IF Manages(i)
       THEN \/ present' = present \cup {i} /\ Goto(next)
            \/ present' = present \ {i} /\ Goto("undoService")
       ELSE UNCHANGED present /\ Goto(next)
    /\ UNCHANGED << installDir, snapshot, running, config, logs, before, setup, jobs >>

ConfigureFirewall == Integrate("firewall", "firewall", "shortcuts")

\* createShellShortcut creates the folder with a call that throws.
ConfigureShortcuts ==
    \/ Integrate("shortcuts", "shortcuts", "entry")
    \/ /\ At("shortcuts") /\ Manages("shortcuts")
       /\ EndJob("threw")
       /\ UNCHANGED << machine, before, setup, jobs >>

\* A run that does not manage the entry removes it: the MSI has its own.
RegisterEntry ==
    /\ At("entry")
    /\ \/ Manages("entry") /\ present' = present \cup {"entry"} /\ Goto("service")
       \/ Manages("entry") /\ present' = present \ {"entry"} /\ Goto("undoService")
       \/ ~Manages("entry") /\ present' \in {present, present \ {"entry"}} /\ Goto("service")
    /\ UNCHANGED << installDir, snapshot, running, config, logs, before, setup, jobs >>

\* installOrUpdateService creates the registration or changes it; the policies
\* may fail after that.
InstallService ==
    /\ At("service")
    /\ IF Manages("service")
       THEN \/ present' = present \cup {"service"} /\ Goto("start")
            \/ present' \in {present, present \cup {"service"}} /\ Goto("undoService")
       ELSE UNCHANGED present /\ Goto("validate")
    /\ UNCHANGED << installDir, snapshot, running, config, logs, before, setup, jobs >>

StartService ==
    /\ At("start")
    /\ \/ running' = TRUE /\ Goto("validate")
       \/ ~running /\ UNCHANGED running /\ Goto("undoService")
    /\ UNCHANGED << installDir, snapshot, present, config, logs, before, setup, jobs >>

\* validateInstalledApplication.
IsValid ==
    /\ installDir.files \notin {0, Mixed}
    /\ installDir.state.present
    /\ config = "whole"
    /\ installDir.state.managed \subseteq present
    /\ "service" \in installDir.state.managed => running

Validate ==
    /\ At("validate")
    /\ Goto(IF IsValid THEN "commit" ELSE "undoService")
    /\ UNCHANGED << machine, logs, before, setup, jobs >>

\* The snapshot of a run that succeeded is removed.
Commit ==
    /\ At("commit")
    /\ snapshot' = Empty
    /\ EndJob("ok")
    /\ UNCHANGED << installDir, present, running, config, before, setup, jobs >>

-----------------------------------------------------------------------------
(* rollbackOrCleanup *)

\* Without a snapshot the run removes what it may have made, and with it an
\* installation that mode "install" was run over.
Cleanup ==
    /\ At("undoService") /\ ~job.undo
    /\ \E gone \in BOOLEAN :
        /\ present' = (present \ job.managed) \cup
                      (IF gone THEN {} ELSE present \cap {"service"})
        /\ running' = (running /\ ~(gone /\ Manages("service")))
    /\ installDir' = Empty
    /\ EndJob("failed")
    /\ UNCHANGED << snapshot, config, before, setup, jobs >>

\* With a snapshot the service is stopped first; a failure is remembered.
UndoService ==
    /\ At("undoService") /\ job.undo
    /\ IF Manages("service")
       THEN \/ running' = FALSE /\ Goto("undoFiles")
            \/ job' = [job EXCEPT !.pc = "undoFiles", !.clean = FALSE] /\ UNCHANGED running
       ELSE UNCHANGED running /\ Goto("undoFiles")
    /\ UNCHANGED << installDir, snapshot, present, config, logs, before, setup, jobs >>

\* restoreRollbackSnapshot clears the directory and copies; the copy may throw.
UndoFiles ==
    /\ At("undoFiles")
    /\ \/ /\ installDir' = snapshot
          /\ IF snapshot.state.present
             THEN Goto("undoIntegrations") /\ UNCHANGED logs
             ELSE EndJob("failed")
       \/ installDir' = [files |-> Mixed, state |-> NoState] /\ EndJob("threw")
    /\ UNCHANGED << snapshot, present, running, config, before, setup, jobs >>

\* (mutant) The last step decides.
RestoredByLast(failed) == "entry" \notin failed

\* rollbackSuccess: every step succeeded.
Restored(failed) == job.clean /\ failed = {}

\* Each integration that the run or the restored state manages is put back as
\* the restored state has it.  Removing rules and shortcuts cannot fail; a
\* service or an entry that resists stays.  Only a complete rollback removes
\* the snapshot ("Backup preserved at ...").
UndoIntegrations ==
    LET want == installDir.state.managed
        touched == job.managed \cup want IN
    /\ At("undoIntegrations")
    /\ \E failed \in SUBSET (touched \cap (want \cup {"service", "entry"})) :
       \E left \in SUBSET (failed \cap present \cap {"service", "entry"}) :
        /\ present' = (present \ touched) \cup (want \ failed) \cup left
        /\ running' \in IF "service" \notin touched THEN {running}
                        ELSE IF "service" \in failed THEN {running, FALSE}
                        ELSE {"service" \in want}
        /\ snapshot' = IF Restored(failed) THEN Empty ELSE snapshot
        /\ EndJob(IF Restored(failed) THEN "restored" ELSE "failed")
    /\ UNCHANGED << installDir, config, before, setup, jobs >>

-----------------------------------------------------------------------------
(* uninstallApplication *)

\* It begins with ensureConfigurationPresent, which throws on a torn file.  A
\* service that will not go is killed and deleted by name, which may also fail.
RemoveService ==
    /\ At("removeService")
    /\ IF config = "torn"
       THEN EndJob("threw") /\ UNCHANGED << present, running, config >>
       ELSE /\ config' = "whole"
            /\ IF Manages("service")
               THEN \/ present' = present \ {"service"} /\ running' = FALSE
                    \/ UNCHANGED present /\ running' \in {running, FALSE}
               ELSE UNCHANGED << present, running >>
            /\ Goto("removeRest")
            /\ UNCHANGED logs
    /\ UNCHANGED << installDir, snapshot, before, setup, jobs >>

\* Firewall rules, URL reservation, shortcuts, entry, state file and data tree;
\* all best effort, the data of a service that still runs may resist.
RemoveRest ==
    /\ At("removeRest")
    /\ present' = present \ ((job.managed \ {"service"}) \cup {"entry"})
    /\ installDir' = [installDir EXCEPT !.state = NoState]
    /\ config' \in IF running THEN {"none", config} ELSE {"none"}
    /\ Goto("purge")
    /\ UNCHANGED << snapshot, running, logs, before, setup, jobs >>

\* --purge-install-dir.  A bootstrapper inside the directory leaves it to a
\* script, and the run fails when that cannot be started.
PurgeDirectory ==
    /\ At("purge")
    /\ \/ installDir' \in {Empty, installDir} /\ Goto("purgeLogs") /\ UNCHANGED logs
       \/ job.self /\ UNCHANGED installDir /\ EndJob("failed")
    /\ UNCHANGED << snapshot, present, running, config, before, setup, jobs >>

\* The record of the run is written, and then removed with the log tree.
PurgeLogs ==
    /\ At("purgeLogs")
    /\ job' = [job EXCEPT !.pc = "idle", !.outcome = "ok"]
    /\ logs' = FALSE
    /\ UNCHANGED << machine, before, setup, jobs >>

-----------------------------------------------------------------------------
(* The setup program *)

\* wWinMain starts "bootstrapper install" in the chosen directory.
SetupStarts(managed) ==
    /\ Launch("install", managed, FALSE)
    /\ setup' = "waiting"

\* The exit code, the record of this run, and a payload in the directory all
\* have to agree.
Verdict == IF job.outcome = "ok" /\ logs /\ installDir # Empty THEN "installed" ELSE "failed"

SetupEnds ==
    /\ setup = "waiting" /\ At("idle")
    /\ setup' = Verdict
    /\ UNCHANGED << machine, logs, job, before, jobs >>

-----------------------------------------------------------------------------
(* Around a run *)

\* The bootstrapper is killed, or the machine loses power.
Kill ==
    /\ ~At("idle")
    /\ installDir' \in IF At("stage") \/ At("undoFiles") THEN {installDir, [installDir EXCEPT !.files = Mixed]}
                 ELSE {installDir}
    /\ job' = [job EXCEPT !.pc = "idle", !.outcome = "killed"]
    /\ logs' = FALSE
    /\ UNCHANGED << snapshot, present, running, config, before, setup, jobs >>

\* The server dies while it rewrites its configuration (writeJsonFile).
TearConfig ==
    /\ TornConfig /\ running /\ config = "whole"
    /\ config' = "torn"
    /\ running' = FALSE
    /\ UNCHANGED << installDir, snapshot, present, logs, job, before, setup, jobs >>

-----------------------------------------------------------------------------

DepInit ==
    /\ installDir = Empty /\ snapshot = Empty /\ present = {} /\ running = FALSE
    /\ config = "none" /\ logs = FALSE /\ job = NoJob /\ before = Empty
    /\ setup = "none" /\ jobs = 0

Forward == Capture \/ StopService \/ StagePayload \/ Configure \/ ConfigureFirewall
           \/ ConfigureShortcuts \/ RegisterEntry \/ InstallService \/ StartService
           \/ Validate \/ Commit
Undo == Cleanup \/ UndoService \/ UndoFiles \/ UndoIntegrations
Uninstall == RemoveService \/ RemoveRest \/ PurgeDirectory \/ PurgeLogs

DepNext ==
    \/ \E mode \in Modes, managed \in Selections, self \in BOOLEAN : BeginRun(mode, managed, self)
    \/ \E managed \in Selections : SetupStarts(managed)
    \/ Forward \/ Undo \/ Uninstall
    \/ SetupEnds \/ Kill \/ TearConfig

DepSpec == DepInit /\ [][DepNext]_depVars

-----------------------------------------------------------------------------
(* Properties *)

DepTypeOK ==
    /\ installDir \in Directory /\ snapshot \in Directory /\ before \in Directory
    /\ present \in SUBSET Integrations
    /\ running \in BOOLEAN /\ logs \in BOOLEAN
    /\ config \in {"none", "whole", "torn"}
    /\ job \in Job
    /\ job.undo => job.mode \in {"repair", "upgrade"}
    /\ setup \in {"none", "waiting", "installed", "failed"}
    /\ jobs \in 0 .. MaxJobs

\* A repair or an upgrade never loses the installation it started from: until
\* it has validated the new one, the old one is in its directory or in the
\* snapshot, wherever the run fails, throws or is killed.
PreviousInstallRecoverable ==
    job.mode \in {"repair", "upgrade"} /\ ~At("commit") /\ job.outcome # "ok" =>
        before \in {installDir, snapshot}

\* "Previous installation restored from rollback snapshot" is said only when
\* the directory is as it was, every integration its state file manages is
\* complete, and a managed service runs.
RestoredMeansRestored ==
    [][ job.outcome = "none" /\ job'.outcome = "restored" =>
            /\ installDir' = before
            /\ before.state.managed \subseteq present'
            /\ "service" \in before.state.managed => running' ]_depVars

\* An uninstall that ends by itself leaves no integration it manages, the
\* service apart (the comment in uninstallApplication: "the maintainer's
\* stated requirement is that uninstall fully removes MCOS").
UninstallRemoves ==
    job.mode = "uninstall" /\ At("idle") /\ job.outcome # "killed" =>
        present \cap (job.managed \ {"service"}) = {}

\* Setup reports a failure only of an install that failed: a record that could
\* not be written is no failure of the install.
SetupFailureIsFailure ==
    setup = "failed" => job.outcome # "ok"

\* An install over an existing installation that fails leaves that one.
InstallKeepsExisting ==
    job.mode = "install" /\ job.outcome = "failed" /\ before # Empty => installDir # Empty
===============================================================================
