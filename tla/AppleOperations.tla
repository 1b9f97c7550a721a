--------------------------- MODULE AppleOperations ---------------------------
(***************************************************************************)
(* PlatformGovernanceToolService and AppleRemoteHostService                *)
(* (MasterControlRuntime.cpp): governance operations on remote Macs.       *)
(*                                                                         *)
(* Callers execute tools and cancel operations.  A tool of the build lanes *)
(* is queued for the one worker; any other remote tool runs on the         *)
(* caller's thread.  Every change of an operation's record is written to   *)
(* the history file.  Hosts are inspected outside the lock, and the result *)
(* is written over the configured host.                                    *)
(*                                                                         *)
(* Left out: the list of recent executions, which is only shown, and the   *)
(* tools for Windows, which keep no record.                                *)
(***************************************************************************)
EXTENDS AppleToolTables, Sequences, SequencesExt

CONSTANTS
    AppleCaller,    \* threads that execute and cancel
    AppleHostId,    \* hosts an operator has configured or may configure
    EditedHosts,    \* those an operator changes during the behaviour
    HostForms,      \* configurations of a host: [enabled, lanes, companion, defaults]
    FirstHosts,     \* which of these forms each host has at first, in a function
    Probes,         \* the sets of facilities an inspection may report
    SharedRequests, \* requests whose operations meet others; any other is alone
    MaxOperations,  \* operations of a behaviour
    MaxLives,       \* starts of the process
    MaxHostEdits,   \* operator changes of hosts
    RecentLimit,    \* records kept, 30 in the code
    AppleFaults     \* "crash"; "payload", a companion answers fields of the wrong type;
                    \* "late", cancellation of an operation that is not in the queue

ASSUME AppleAssumption ==
    /\ "" \notin AppleHostId /\ "worker" \notin AppleCaller
    /\ {MaxOperations, MaxHostEdits} \subseteq Nat /\ {MaxLives, RecentLimit} \subseteq Nat \ {0}
    /\ \A r \in SharedRequests :
          r.tool \in RemoteTools /\ r.keys \in Requests(r.tool) /\ r.preferred \in AppleHostId \cup {""}
    /\ EditedHosts \subseteq AppleHostId /\ Probes \subseteq SUBSET Facility
    /\ AppleFaults \subseteq {"crash", "payload", "late"}

VARIABLES
    hosts,      \* configured hosts, Absent where there is none
    hostEdits,
    request,    \* what each operation of the behaviour was asked to do
    recent,     \* recentAppleOperations_: records, newest first
    history,    \* the history file
    queue,      \* appleQueue_
    exec,       \* what each thread does
    runningOp,  \* runningAppleOperationId_
    stopping,   \* stopWorker_
    lives,
    sent,       \* (history) commands sent to a host for each operation
    withdrawn   \* (history) operations that a cancellation took out of the queue

appleVars == << hosts, hostEdits, request, recent, history, queue, exec, runningOp, stopping, lives,
                sent, withdrawn >>
hostVars == << hosts, hostEdits >>
processVars == << queue, runningOp, stopping, lives >>

Thread == AppleCaller \cup {"worker"}
AppleOp == 1 .. MaxOperations
Status == {"queued", "running", "succeeded", "failed", "blocked", "canceled"}
Terminal == Status \ {"queued", "running"}
\* The operator's hosts, and the host without an id, see Blank.
HostKey == AppleHostId \cup {""}
Absent == [enabled |-> FALSE, lanes |-> {}, companion |-> FALSE, defaults |-> {}, found |-> {}, id |-> "none"]
Configured(form, id) == [enabled |-> form.enabled, lanes |-> form.lanes, companion |-> form.companion,
                         defaults |-> form.defaults, found |-> {}, id |-> id]
FreeThread == [pc |-> "idle", op |-> 0, left |-> {}, best |-> Absent, outcome |-> "queued"]
Up == \E t \in Thread : exec[t].pc # "down"
Stands(t, pc) == exec[t].pc = pc

-----------------------------------------------------------------------------
(* Records *)

\* (mutant) Every status is one more record.
PutOnTop(records, op, status) == << [op |-> op, status |-> status] >> \o records

\* Where the operation's record is, or the place behind the last.
Place(records, op) ==
    IF \E i \in DOMAIN records : records[i].op = op
    THEN CHOOSE i \in DOMAIN records : records[i].op = op
    ELSE Len(records) + 1

\* The record comes to the front, those before it move up, the last may be lost.
Put(records, op, status) ==
    LET place == Place(records, op)
        length == IF place > Len(records) THEN place ELSE Len(records)
    IN  [i \in 1 .. IF length > RecentLimit THEN RecentLimit ELSE length |->
            IF i = 1 THEN [op |-> op, status |-> status]
            ELSE IF i <= place THEN records[i - 1] ELSE records[i]]

\* persistAppleOperation: the newest place in the list, and the whole file.
Persist(op, status) ==
    /\ recent' = Put(recent, op, status)
    /\ history' = recent'

StatusIn(records, op) == {records[i].status : i \in {j \in DOMAIN records : records[j].op = op}}
Recorded(op) == StatusIn(recent, op)

\* (mutant) Only what was running counts as interrupted.
ReconciledRunning(records) ==
    [i \in DOMAIN records |->
        IF records[i].status = "running" THEN [records[i] EXCEPT !.status = "blocked"] ELSE records[i]]

\* reconcilePersistedAppleOperations
Reconciled(records) ==
    [i \in DOMAIN records |->
        IF records[i].status \in Terminal THEN records[i] ELSE [records[i] EXCEPT !.status = "blocked"]]

-----------------------------------------------------------------------------
(* Hosts *)

\* inspectCompanionService moves the host into applyCompanionPayload; when that
\* throws, it goes on with what is left of it.
Blank(host) == [host EXCEPT !.id = "", !.lanes = {}, !.defaults = {}, !.found = @ \ {"reachable"}]

\* inspectHostState
Inspections(host) ==
    IF ~host.enabled THEN {host}
    ELSE {[host EXCEPT !.found = facilities] : facilities \in Probes}
         \cup {[host EXCEPT !.found = @ \ {"reachable"}]}
         \cup IF host.companion /\ "payload" \in AppleFaults THEN {Blank(host)} ELSE {}

persistHost(host) == hosts' = [hosts EXCEPT ![host.id] = host]

Candidates(lane) == {id \in HostKey : hosts[id].enabled /\ lane \in hosts[id].lanes}
\* The first of the best scores; which one is first is the order of the list.
Better(host, best, lane) == best = Absent \/ scoreHost(host, lane) > scoreHost(best, lane)

UpsertHost(c, id, form) ==
    /\ Stands(c, "idle") /\ hostEdits < MaxHostEdits /\ form.lanes # {}
    /\ hosts' = [hosts EXCEPT ![id] = Configured(form, id)]
    /\ hostEdits' = hostEdits + 1
    /\ UNCHANGED << request, recent, history, exec, processVars, sent, withdrawn >>

RemoveHost(c, id) ==
    /\ Stands(c, "idle") /\ hostEdits < MaxHostEdits /\ hosts[id] # Absent
    /\ hosts' = [hosts EXCEPT ![id] = Absent]
    /\ hostEdits' = hostEdits + 1
    /\ UNCHANGED << request, recent, history, exec, processVars, sent, withdrawn >>

-----------------------------------------------------------------------------
(* execute and cancelAppleOperation, on a caller's thread *)

NoRequest == [tool |-> "none", keys |-> {}, preferred |-> ""]
Used == {op \in AppleOp : request[op] # NoRequest}

LoneRequests ==
    UNION {{[tool |-> tool, keys |-> keys, preferred |-> ""] : keys \in Requests(tool)} : tool \in RemoteTools}

\* Any request by itself, a shared one beside shared ones.
Startable ==
    IF Used = {} THEN LoneRequests \cup SharedRequests
    ELSE IF \A op \in Used : request[op] \in SharedRequests THEN SharedRequests ELSE {}

Unchanged(t) == UNCHANGED << hosts, hostEdits, processVars, sent, withdrawn >>

\* queueAppleOperation makes the record, whether or not there is a queue for it.
Execute(c, op, r) ==
    /\ Stands(c, "idle") /\ ~stopping /\ op \notin Used /\ \A o \in 1 .. op - 1 : o \in Used
    /\ request' = [request EXCEPT ![op] = r]
    /\ Persist(op, "queued")
    /\ exec' = [exec EXCEPT ![c].op = op,
                            ![c].pc = IF r.tool \in isQueuedAppleOperationalTool THEN "enqueue" ELSE "choose"]
    /\ Unchanged(c)

\* enqueueAppleOperation.  It refuses when the service is being destroyed, but
\* no call is left by then, see StopOperations.
Enqueue(c) ==
    /\ Stands(c, "enqueue")
    /\ queue' = Append(queue, exec[c].op)
    /\ exec' = [exec EXCEPT ![c] = FreeThread]
    /\ UNCHANGED << hostVars, request, recent, history, runningOp, stopping, lives, sent, withdrawn >>

\* (mutant) The record is canceled, the task stays in the queue.
CancelRecord(c, op) ==
    /\ Stands(c, "idle") /\ op \in Used /\ op \in Range(queue)
    /\ withdrawn' = withdrawn \cup {op}
    /\ exec' = [exec EXCEPT ![c].op = op, ![c].pc = "cancel"]
    /\ UNCHANGED << hostVars, request, recent, history, processVars, sent >>

\* An operation in the queue is taken out of it.
CancelQueued(c, op) ==
    /\ Stands(c, "idle") /\ op \in Used /\ op \in Range(queue)
    /\ queue' = RemoveAt(queue, CHOOSE i \in DOMAIN queue : queue[i] = op)
    /\ withdrawn' = withdrawn \cup {op}
    /\ exec' = [exec EXCEPT ![c].op = op, ![c].pc = "cancel"]
    /\ UNCHANGED << hostVars, request, recent, history, runningOp, stopping, lives, sent >>

\* One that is neither there nor known to run is taken for a queued one by its
\* record.  Every other cancellation is refused and changes nothing.
CancelLate(c, op) ==
    /\ "late" \in AppleFaults
    /\ Stands(c, "idle") /\ op \in Used /\ op \notin Range(queue)
    /\ runningOp # op /\ Recorded(op) = {"queued"}
    /\ exec' = [exec EXCEPT ![c].op = op, ![c].pc = "cancel"]
    /\ UNCHANGED << hostVars, request, recent, history, processVars, sent, withdrawn >>

markAppleOperationCanceled(c) ==
    /\ Stands(c, "cancel")
    /\ Persist(exec[c].op, "canceled")
    /\ exec' = [exec EXCEPT ![c] = FreeThread]
    /\ Unchanged(c) /\ UNCHANGED request

-----------------------------------------------------------------------------
(* appleWorkerLoop *)

\* (mutant) No new work once the service stops.
TakeUnlessStopping ==
    /\ Stands("worker", "idle") /\ queue # << >> /\ ~stopping
    /\ queue' = Tail(queue) /\ runningOp' = Head(queue)
    /\ exec' = [exec EXCEPT !["worker"].op = Head(queue), !["worker"].pc = "choose"]
    /\ UNCHANGED << hostVars, request, recent, history, stopping, lives, sent, withdrawn >>

Take ==
    /\ Stands("worker", "idle") /\ queue # << >>
    /\ queue' = Tail(queue) /\ runningOp' = Head(queue)
    /\ exec' = [exec EXCEPT !["worker"].op = Head(queue), !["worker"].pc = "choose"]
    /\ UNCHANGED << hostVars, request, recent, history, stopping, lives, sent, withdrawn >>

\* (mutant) The worker leaves the rest of the queue.
WorkerEndsAtOnce ==
    /\ Stands("worker", "idle") /\ stopping
    /\ exec' = [exec EXCEPT !["worker"].pc = "ended"]
    /\ UNCHANGED << hostVars, request, recent, history, processVars, sent, withdrawn >>

WorkerEnds ==
    /\ Stands("worker", "idle") /\ stopping /\ queue = << >>
    /\ exec' = [exec EXCEPT !["worker"].pc = "ended"]
    /\ UNCHANGED << hostVars, request, recent, history, processVars, sent, withdrawn >>

ResetRunning ==
    /\ Stands("worker", "reset")
    /\ runningOp' = 0
    /\ exec' = [exec EXCEPT !["worker"] = FreeThread]
    /\ UNCHANGED << hostVars, request, recent, history, queue, stopping, lives, sent, withdrawn >>

-----------------------------------------------------------------------------
(* executeAppleRemoteTool, on the worker or on a caller's thread *)

Req(t) == request[exec[t].op]
LaneAt(t) == LaneOf(Req(t).tool)
Outcome(t, status) == [exec EXCEPT ![t].pc = "complete", ![t].outcome = status]
Silent(t) == UNCHANGED << request, recent, history, processVars, sent, withdrawn, hostEdits >>

\* The hosts to inspect are copied under the lock; without one it is blocked.
ChooseHost(t) ==
    /\ Stands(t, "choose")
    /\ LET ids == IF Req(t).preferred # "" THEN {id \in {Req(t).preferred} : hosts[id] # Absent}
                  ELSE Candidates(LaneAt(t))
       IN  exec' = IF ids = {} THEN Outcome(t, "blocked")
                   ELSE [exec EXCEPT ![t].pc = "inspect", ![t].left = {hosts[id] : id \in ids},
                                     ![t].best = Absent]
    /\ UNCHANGED hosts /\ Silent(t)

\* The inspection writes the host as it was copied, with what it found.
InspectHost(t) ==
    /\ Stands(t, "inspect")
    /\ \E host \in exec[t].left : \E inspected \in Inspections(host) :
          /\ persistHost(inspected)
          /\ exec' = [exec EXCEPT
                ![t].pc = IF exec[t].left = {host} THEN "route" ELSE "inspect",
                ![t].left = exec[t].left \ {host},
                ![t].best = IF Better(inspected, exec[t].best, LaneAt(t)) THEN inspected ELSE exec[t].best]
    /\ Silent(t)

\* markAppleOperationRunning, when the host has the lane
RouteTool(t) ==
    /\ Stands(t, "route")
    /\ IF LaneAt(t) \notin exec[t].best.lanes
       THEN exec' = Outcome(t, "blocked") /\ UNCHANGED << recent, history >>
       ELSE exec' = [exec EXCEPT ![t].pc = "decide"] /\ Persist(exec[t].op, "running")
    /\ UNCHANGED << hostVars, request, processVars, sent, withdrawn >>

\* A route tool is answered from the inspection; an operational one goes on if
\* its command can be built; the others are for a later version.
DecideTool(t) ==
    /\ Stands(t, "decide")
    /\ exec' =
         IF Req(t).tool \in isAppleReplayValidationTool
         THEN Outcome(t, IF isReadyForPlatform(exec[t].best, LaneAt(t)) THEN "succeeded" ELSE "blocked")
         ELSE IF Req(t).tool \in isQueuedAppleOperationalTool
                 /\ buildAppleOperationalCommand(Req(t).tool, Req(t).keys, exec[t].best)
         THEN [exec EXCEPT ![t].pc = "lookup"]
         ELSE Outcome(t, "blocked")
    /\ UNCHANGED hosts /\ Silent(t)

\* executeCommand looks the host up again and inspects it again.
LookUpHost(t) ==
    /\ Stands(t, "lookup")
    /\ LET host == hosts[exec[t].best.id]
       IN  exec' = IF host = Absent THEN Outcome(t, "failed")
                   ELSE [exec EXCEPT ![t].pc = "probe", ![t].left = {host}]
    /\ UNCHANGED hosts /\ Silent(t)

\* A disabled host is refused; what is left of a moved one has no address.
ProbeHost(t) ==
    /\ Stands(t, "probe")
    /\ \E host \in exec[t].left : \E inspected \in Inspections(host) :
          /\ persistHost(inspected)
          /\ exec' = IF inspected.enabled /\ inspected.id # ""
                     THEN [exec EXCEPT ![t].pc = "send", ![t].left = {}]
                     ELSE [Outcome(t, "failed") EXCEPT ![t].left = {}]
    /\ Silent(t)

SendCommand(t) ==
    /\ Stands(t, "send")
    /\ sent' = [sent EXCEPT ![exec[t].op] = @ + 1]
    /\ \E status \in {"succeeded", "failed"} : exec' = Outcome(t, status)
    /\ UNCHANGED << hostVars, request, recent, history, processVars, withdrawn >>

Freed(t) == exec' = [exec EXCEPT ![t] = IF t = "worker" THEN [FreeThread EXCEPT !.pc = "reset"] ELSE FreeThread]

\* (mutant) A refusal leaves the record as it was.
CompleteIfSent(t) ==
    /\ Stands(t, "complete")
    /\ IF exec[t].outcome = "blocked" THEN UNCHANGED << recent, history >>
       ELSE Persist(exec[t].op, exec[t].outcome)
    /\ Freed(t) /\ Unchanged(t) /\ UNCHANGED request

completeAppleOperation(t) ==
    /\ Stands(t, "complete")
    /\ Persist(exec[t].op, exec[t].outcome)
    /\ Freed(t) /\ Unchanged(t) /\ UNCHANGED request

-----------------------------------------------------------------------------
(* The process *)

\* The destructor runs when the HTTP server and the gateway are gone, so that
\* no call is left.
StopOperations ==
    /\ Up /\ ~stopping /\ \A c \in AppleCaller : Stands(c, "idle")
    /\ stopping' = TRUE
    /\ UNCHANGED << hostVars, request, recent, history, queue, exec, runningOp, lives, sent, withdrawn >>

Down == [t \in Thread |-> [FreeThread EXCEPT !.pc = "down"]]
LeaveProcess ==
    /\ exec' = Down /\ queue' = << >> /\ runningOp' = 0 /\ stopping' = FALSE /\ recent' = << >>
    /\ UNCHANGED << hostVars, request, history, lives, sent, withdrawn >>

ExitProcess == Stands("worker", "ended") /\ LeaveProcess
CrashProcess == "crash" \in AppleFaults /\ Up /\ LeaveProcess

StartProcess ==
    /\ ~Up /\ lives < MaxLives
    /\ lives' = lives + 1
    /\ exec' = [t \in Thread |-> FreeThread]
    /\ history' = Reconciled(history) /\ recent' = history'
    /\ UNCHANGED << hostVars, request, queue, runningOp, stopping, sent, withdrawn >>

-----------------------------------------------------------------------------
(* Specification *)

AppleInit ==
    /\ \E first \in FirstHosts :
          hosts = [id \in HostKey |-> IF id \in DOMAIN first THEN Configured(first[id], id) ELSE Absent]
    /\ hostEdits = 0
    /\ request = [op \in AppleOp |-> NoRequest]
    /\ recent = << >> /\ history = << >> /\ queue = << >>
    /\ exec = [t \in Thread |-> FreeThread]
    /\ runningOp = 0 /\ stopping = FALSE /\ lives = 1
    /\ sent = [op \in AppleOp |-> 0] /\ withdrawn = {}

AppleStep(t) ==
    \/ ChooseHost(t) \/ InspectHost(t) \/ RouteTool(t) \/ DecideTool(t) \/ LookUpHost(t)
    \/ ProbeHost(t) \/ SendCommand(t) \/ completeAppleOperation(t)

WorkerStep == Take \/ WorkerEnds \/ ResetRunning \/ AppleStep("worker")
CallerStep(c) == Enqueue(c) \/ markAppleOperationCanceled(c) \/ AppleStep(c)

\* FirstHosts stands for edits before the first operation.
EditHosts ==
    /\ Used # {} /\ \A op \in Used : request[op] \in SharedRequests
    /\ ~stopping
    /\ \E c \in AppleCaller, id \in EditedHosts :
          RemoveHost(c, id) \/ \E form \in HostForms : UpsertHost(c, id, form)

AppleNext ==
    \/ \E c \in AppleCaller, op \in AppleOp :
          \/ \E r \in Startable : Execute(c, op, r)
          \/ ~stopping /\ (CancelQueued(c, op) \/ CancelLate(c, op))
    \/ \E c \in AppleCaller : CallerStep(c)
    \/ WorkerStep \/ EditHosts
    \/ StopOperations \/ ExitProcess \/ CrashProcess \/ StartProcess

\* Threads run, and every answer from the network is waited for with a limit.
AppleFairness == WF_appleVars(WorkerStep) /\ \A c \in AppleCaller : WF_appleVars(CallerStep(c))
AppleSpec == AppleInit /\ [][AppleNext]_appleVars /\ AppleFairness

-----------------------------------------------------------------------------
(* Properties *)

\* The state is well typed.
AppleTypeOK ==
    /\ \A id \in HostKey : hosts[id].found \subseteq Facility /\ hosts[id].id \in {id, "none"}
    /\ \A records \in {recent, history} :
          /\ Len(records) <= RecentLimit
          /\ \A i \in DOMAIN records : records[i].op \in AppleOp /\ records[i].status \in Status
    /\ \A i \in DOMAIN queue : queue[i] \in AppleOp
    /\ \A t \in Thread :
          exec[t].op \in AppleOp \cup {0} /\ \A a, b \in exec[t].left : a.id = b.id => a = b
    /\ runningOp \in AppleOp \cup {0} /\ stopping \in BOOLEAN /\ lives \in 1 .. MaxLives

Live(records, op) == StatusIn(records, op) \cap {"queued", "running"} # {}

\* A record that says queued or running has a thread or a place in the queue
\* that will finish it, also on disk while the process runs; a process that
\* ended in order left none (reconcilePersistedAppleOperations, the destructor).
RecordsAreLive ==
    \A op \in AppleOp :
        Up /\ (Live(recent, op) \/ Live(history, op)) =>
            op \in Range(queue) \/ \E t \in Thread : exec[t].op = op

\* The worker that ends leaves no operation unfinished.
EndsFinished ==
    Stands("worker", "ended") => \A op \in AppleOp : ~Live(recent, op) /\ ~Live(history, op)

\* An operation that a cancellation took out of the queue is never sent to a
\* host nor shown as run, and no operation is sent twice, restarts included.
CanceledNeverRuns ==
    \A op \in AppleOp :
        /\ sent[op] <= 1
        /\ op \in withdrawn =>
              sent[op] = 0 /\ (StatusIn(recent, op) \cup StatusIn(history, op))
                                 \cap {"running", "succeeded", "failed"} = {}

ScoresAgree ==
    \A form \in HostForms, found \in SUBSET Facility, lane \in Lane :
        LET host == [Configured(form, "") EXCEPT !.found = found]
        IN  replayScore(host, lane) = scoreHost(host, lane)

\* A command that could be built from options without credentials can be built
\* again from those the record keeps, on a host in the same state; and the
\* rerun is assessed for the host that would be selected, whatever the hosts.
\* The targetPath option of staple is the exception.
ReplayIsHonest ==
    /\ \A op \in Used :
          LET r == request[op]
          IN  \A id \in HostKey :
                 r.keys # {"targetPath"}
                    /\ buildAppleOperationalCommand(r.tool, r.keys \ secretKeys, hosts[id])
                    => buildAppleOperationalCommand(r.tool, persistedOptions(r.keys), hosts[id])
    /\ ScoresAgree

\* An operation that has a record does not stay queued or running.
OperationsFinish ==
    \A op \in AppleOp : (Up /\ Live(recent, op)) ~> (~Up \/ ~Live(recent, op))

\* A stop waits for what is queued, and ends.
ServiceStops == stopping ~> ~stopping \/ Stands("worker", "ended")

-----------------------------------------------------------------------------
(* What messages and comments say and the code does not do; see README *)

\* "Apple remote host requires a hostId": every configured host has one.
HostsAreValid == hosts[""] = Absent

\* A canceled operation stays canceled, and a finished one as it finished.
FinishedStaysFinished ==
    [][\A op \in AppleOp :
          Recorded(op) \cap Terminal # {} /\ Recorded(op)' # {} => Recorded(op)' = Recorded(op)]_appleVars

\* A host that an operator removed stays removed until one adds it.
RemovedStaysRemoved ==
    [][\A id \in AppleHostId :
          hosts[id] = Absent /\ hosts'[id] # Absent => hostEdits' > hostEdits]_appleVars
===============================================================================
