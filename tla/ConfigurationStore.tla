-------------------------- MODULE ConfigurationStore --------------------------
(***************************************************************************)
(* The configuration document: SharedState::configuration in memory, its   *)
(* file on disk, and the administration routes that write it               *)
(* (MasterControlRuntime.cpp).                                             *)
(*                                                                         *)
(* Three kinds of writers share the document.  Services such as            *)
(* LanClientAccessService change one section in place and write the file   *)
(* in the same critical section of SharedState::mutex.  PATCH and POST     *)
(* /api/config serialise on configurationWriteMutex_, the first of them    *)
(* over a read, a merge and an update.  The workflow, setup and settings   *)
(* routes and the persistence of worker pools read the document with       *)
(* current(), edit the copy and write it with update(), without that       *)
(* mutex.                                                                  *)
(*                                                                         *)
(* The sections kept are the state of one LAN client, the worker pools,    *)
(* the settings (workflows, setup and advanced mode) and the flag          *)
(* security.securityProtocolsEnabled.                                      *)
(***************************************************************************)
EXTENDS Naturals

CONSTANTS
    Thread,         \* administration worker threads
    NoThread,
    SavedPool,           \* worker pool ids
    Setting,        \* the values of the settings section
    DefaultSetting,
    PatchSection,   \* the sections that PATCH and POST bodies change in a run
    Activity,       \* the writers and faults of a run, see AllActivity
    Torn            \* the file is not a JSON document

AllActivity == {"clients", "edit", "patch", "post", "pools", "crash", "crashInCopy",
                "writeFailure"}
Section == {"client", "pools", "settings", "security"}

ASSUME ConfigAssumption ==
    /\ NoThread \notin Thread
    /\ DefaultSetting \in Setting
    /\ PatchSection \subseteq Section
    /\ Activity \subseteq AllActivity

VARIABLES
    up,             \* the process runs
    memory,         \* SharedState::configuration
    disk,           \* the configuration file
    registered,     \* the pools of the WorkerSupervisor
    writeMutex,     \* the holder of configurationWriteMutex_
    thread,         \* each thread: its place and its copies
    intended,       \* history: every edit, applied to its own section alone
    acked           \* history: the client state last reported as saved

cfgVars == << up, memory, disk, registered, writeMutex, thread, intended, acked >>

ClientState == {"absent", "enabled", "disabled"}
Document == [client : ClientState, pools : SUBSET SavedPool, settings : Setting,
             security : BOOLEAN]
DefaultDocument == [client |-> "absent", pools |-> {}, settings |-> DefaultSetting,
                    security |-> TRUE]

Idle == [pc |-> "idle", copy |-> DefaultDocument, listed |-> {}]
ThreadRecord == [pc : {"idle", "edit", "patch", "post", "list", "read", "save"},
                 copy : Document, listed : SUBSET SavedPool]

\* The values a section can be given.
Value(s) == CASE s = "client" -> ClientState
              [] s = "pools" -> SUBSET SavedPool
              [] s = "settings" -> Setting
              [] s = "security" -> BOOLEAN

-----------------------------------------------------------------------------
(* Writing *)

\* writeJsonFile: a temporary file, renamed over the old one, so that the file
\* is either the old document or the new one.
Written(doc, ok) ==
    /\ ok \/ "writeFailure" \in Activity
    /\ disk' = IF ok THEN doc ELSE disk

\* FileBackedConfigurationService::update refuses a document with the security
\* protocols switched off unless the change is confirmed.
\* (mutant) The test looks at the document in force instead of the new one.
RefusedByCurrent(doc, confirm) == ~memory.security /\ ~confirm

Refused(doc, confirm) == ~doc.security /\ ~confirm

\* Otherwise memory is replaced first, and stays replaced if the write fails.
Update(doc, confirm, ok) ==
    /\ ~Refused(doc, confirm)
    /\ memory' = doc
    /\ Written(doc, ok)

\* (mutant) A PATCH that ends without releasing configurationWriteMutex_.
KeepLocked(t) == writeMutex' = writeMutex

Unlock(t) == writeMutex' = IF writeMutex = t THEN NoThread ELSE writeMutex

Done(t) == thread' = [thread EXCEPT ![t] = Idle]

-----------------------------------------------------------------------------
(* LanClientAccessService *)

\* A change in place, reported as saved if the file was written.
ChangeClient(state, ok) ==
    /\ memory' = [memory EXCEPT !.client = state]
    /\ Written(memory', ok)
    /\ intended' = [intended EXCEPT !.client = state]
    /\ acked' = IF ok THEN state ELSE "unknown"

ClientOp(t) ==
    /\ up /\ "clients" \in Activity /\ thread[t].pc = "idle"
    /\ UNCHANGED << up, registered, writeMutex, thread >>

UpsertClient(t, state, ok) ==
    /\ ClientOp(t)
    /\ state # "absent"
    /\ ChangeClient(state, ok)

RemoveClient(t, ok) ==
    /\ ClientOp(t)
    /\ memory.client # "absent"
    /\ ChangeClient("absent", ok)

\* setEnabled: disableClient and enableClient of a client that is already in
\* that state succeed without a write.
SetEnabled(t, state, ok) ==
    /\ ClientOp(t)
    /\ memory.client # "absent" /\ state # "absent"
    /\ IF memory.client = state
       THEN acked' = state /\ UNCHANGED << memory, disk, intended >>
       ELSE ChangeClient(state, ok)

-----------------------------------------------------------------------------
(* Routes that read, edit and update *)

\* The workflow, setup and advanced-mode routes.
ReadForEdit(t) ==
    /\ up /\ "edit" \in Activity /\ thread[t].pc = "idle"
    /\ thread' = [thread EXCEPT ![t].pc = "edit", ![t].copy = memory]
    /\ UNCHANGED << up, memory, disk, registered, writeMutex, intended, acked >>

\* applyConfigurationPatchJson holds configurationWriteMutex_ from its read on.
ReadForPatch(t) ==
    /\ up /\ "patch" \in Activity /\ thread[t].pc = "idle"
    /\ writeMutex = NoThread /\ writeMutex' = t
    /\ thread' = [thread EXCEPT ![t].pc = "patch", ![t].copy = memory]
    /\ UNCHANGED << up, memory, disk, registered, intended, acked >>

\* A client of the API fetched the whole document, to post it back edited.
ReadForPost(t) ==
    /\ up /\ "post" \in Activity /\ thread[t].pc = "idle"
    /\ thread' = [thread EXCEPT ![t].pc = "post", ![t].copy = memory]
    /\ UNCHANGED << up, memory, disk, registered, writeMutex, intended, acked >>

\* The update of the copy with one section edited.  A POST means its whole
\* document, the others mean the section.
WriteEdited(t, s, v, confirm, ok) ==
    LET doc == [thread[t].copy EXCEPT ![s] = v] IN
    /\ Update(doc, confirm, ok)
    /\ intended' = IF thread[t].pc = "post" THEN doc ELSE [intended EXCEPT ![s] = v]
    /\ acked' = IF doc.client = memory.client THEN acked ELSE "unknown"
    /\ Unlock(t) /\ Done(t)
    /\ UNCHANGED << up, registered >>

SaveEdit(t, v, ok) ==
    /\ up /\ thread[t].pc = "edit"
    /\ WriteEdited(t, "settings", v, FALSE, ok)

SavePatch(t, s, v, confirm, ok) ==
    /\ up /\ thread[t].pc = "patch"
    /\ WriteEdited(t, s, v, confirm, ok)

SavePost(t, s, v, confirm, ok) ==
    /\ up /\ thread[t].pc = "post" /\ writeMutex = NoThread
    /\ WriteEdited(t, s, v, confirm, ok)

\* The update was refused, or the merge was not valid.
GiveUp(t) ==
    /\ up /\ thread[t].pc \in {"edit", "patch", "post"}
    /\ Unlock(t) /\ Done(t)
    /\ UNCHANGED << up, memory, disk, registered, intended, acked >>

-----------------------------------------------------------------------------
(* persistSupervisedPoolsToConfiguration, after POST /api/pools and remove *)

ChangePools(t, ps) ==
    /\ up /\ "pools" \in Activity /\ thread[t].pc = "idle"
    /\ ps # registered
    /\ registered' = ps
    /\ thread' = [thread EXCEPT ![t].pc = "list"]
    /\ UNCHANGED << up, memory, disk, writeMutex, intended, acked >>

ListPools(t) ==
    /\ up /\ thread[t].pc = "list"
    /\ thread' = [thread EXCEPT ![t].pc = "read", ![t].listed = registered]
    /\ UNCHANGED << up, memory, disk, registered, writeMutex, intended, acked >>

ReadForPools(t) ==
    /\ up /\ thread[t].pc = "read"
    /\ thread' = [thread EXCEPT ![t].pc = "save", ![t].copy = memory]
    /\ UNCHANGED << up, memory, disk, registered, writeMutex, intended, acked >>

\* The result of this update is ignored.
SavePools(t, ok) ==
    LET doc == [thread[t].copy EXCEPT !.pools = thread[t].listed] IN
    /\ up /\ thread[t].pc = "save"
    /\ IF Refused(doc, FALSE)
       THEN UNCHANGED << memory, disk, intended, acked >>
       ELSE /\ Update(doc, FALSE, ok)
            /\ intended' = [intended EXCEPT !.pools = doc.pools]
            /\ acked' = IF doc.client = memory.client THEN acked ELSE "unknown"
    /\ Done(t)
    /\ UNCHANGED << up, registered, writeMutex >>

-----------------------------------------------------------------------------
(* The process *)

Stopped ==
    /\ up /\ up' = FALSE
    /\ thread' = [t \in Thread |-> Idle] /\ writeMutex' = NoThread
    /\ UNCHANGED << memory, registered, intended, acked >>

Crash == "crash" \in Activity /\ Stopped /\ UNCHANGED disk

\* When the rename fails writeJsonFile copies the temporary file over the old
\* one, which is not atomic; here the write is that of a client change, which
\* every state with the process up allows.
CrashInCopy ==
    /\ {"clients", "crashInCopy"} \subseteq Activity
    /\ Stopped /\ disk' = Torn

\* The constructor loads the file, or writes the default document if there is
\* none that can be read; the pools are registered from it again.
Restart ==
    /\ ~up /\ up' = TRUE
    /\ memory' = IF disk = Torn THEN DefaultDocument ELSE disk
    /\ disk' = memory'
    /\ registered' = memory'.pools
    /\ intended' = memory'
    /\ UNCHANGED << writeMutex, thread, acked >>

-----------------------------------------------------------------------------

CfgInit ==
    /\ up = TRUE
    /\ memory = DefaultDocument /\ disk = DefaultDocument
    /\ registered = {}
    /\ writeMutex = NoThread
    /\ thread = [t \in Thread |-> Idle]
    /\ intended = DefaultDocument /\ acked = "absent"

CfgNext ==
    \/ \E t \in Thread, ok \in BOOLEAN :
        \/ \E state \in ClientState : UpsertClient(t, state, ok) \/ SetEnabled(t, state, ok)
        \/ RemoveClient(t, ok)
        \/ \E v \in Setting : SaveEdit(t, v, ok)
        \/ \E s \in PatchSection : \E v \in Value(s), confirm \in BOOLEAN :
               SavePatch(t, s, v, confirm, ok) \/ SavePost(t, s, v, confirm, ok)
        \/ SavePools(t, ok)
    \/ \E t \in Thread :
        \/ ReadForEdit(t) \/ ReadForPatch(t) \/ ReadForPost(t) \/ GiveUp(t)
        \/ \E ps \in SUBSET SavedPool : ChangePools(t, ps)
        \/ ListPools(t) \/ ReadForPools(t)
    \/ Crash \/ CrashInCopy \/ Restart

CfgSpec == CfgInit /\ [][CfgNext]_cfgVars

-----------------------------------------------------------------------------
(* Properties *)

\* The type invariant; a thread holds configurationWriteMutex_ exactly while it
\* applies a PATCH, whichever way the PATCH ends.
CfgTypeOK ==
    /\ up \in BOOLEAN
    /\ memory \in Document /\ intended \in Document
    /\ disk \in Document \cup {Torn}
    /\ registered \in SUBSET SavedPool
    /\ writeMutex \in Thread \cup {NoThread}
    /\ thread \in [Thread -> ThreadRecord]
    /\ acked \in ClientState \cup {"unknown"}
    /\ \A t \in Thread : writeMutex = t <=> thread[t].pc = "patch"

\* The security protocols are switched off only by a PATCH or POST that
\* confirms it, never as a side effect of a route that writes back an old copy:
\* FileBackedConfigurationService::update.
SecurityOffIsConfirmed ==
    [][ up /\ up' /\ memory.security /\ ~memory'.security =>
            \E t \in Thread, s \in PatchSection : \E v \in Value(s), ok \in BOOLEAN :
                SavePatch(t, s, v, TRUE, ok) \/ SavePost(t, s, v, TRUE, ok) ]_cfgVars

\* No write reverts a section it was not asked to change: what is in memory is
\* the result of every edit that took effect.
NoLostUpdate == memory = intended

\* What LanClientAccessService last reported as saved survives a restart.
SavedClientsSurvive ==
    [][ ~up /\ up' => acked \in {memory'.client, "unknown"} ]_cfgVars

\* A crash leaves a whole document on disk, old or new: writeJsonFile.
FileStaysWhole == disk # Torn

\* When no request is under way the file holds the registered pools.
PoolsAreOnDisk ==
    up /\ (\A t \in Thread : thread[t].pc = "idle") => disk.pools = registered

=============================================================================
