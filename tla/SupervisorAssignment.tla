-------------------------- MODULE SupervisorAssignment --------------------------
(***************************************************************************)
(* The assignment of an AI supervisor: SupervisorAssignmentService.cpp,    *)
(* its routes under /api/supervisor and the heartbeat watchdog of          *)
(* runInteractive (MasterControlRuntime.cpp).                              *)
(*                                                                         *)
(* The service has one record, under a mutex, written to                   *)
(* supervisor-assignment.json after every change without looking at the    *)
(* result.  A route that issues or confirms first computes the endpoint    *)
(* plan from the configuration and the gateway, hands it to the service,   *)
(* and only then makes the call: three steps between which other requests  *)
(* run.  The token and the fingerprint are part of the config id here:     *)
(* both are drawn afresh, or kept, together with it.                       *)
(***************************************************************************)
EXTENDS Naturals

CONSTANTS
    Admin,          \* administration threads
    Provider,       \* chatgpt, claude, grok
    NoProvider,
    Client,         \* client ids that supervisors claim
    NoClient,
    MaxConfigs,     \* bound on the config ids issued in a run
    Threshold,      \* heartbeat age that the watchdog tolerates
    SupRestarts,    \* bound on restarts
    SupFaults       \* "write": writeFileAtomic may fail

ASSUME SupervisorAssumption ==
    /\ NoProvider \notin Provider /\ NoClient \notin Client
    /\ MaxConfigs \in Nat /\ Threshold \in Nat /\ SupRestarts \in Nat
    /\ SupFaults \subseteq {"write"}

VARIABLES
    assignment,     \* assignment_
    saved,          \* supervisor-assignment.json
    plan,           \* context_.endpointPlan
    network,        \* the plan that configuration and gateway call for now
    admin,          \* each thread: its place, its request, its plan
    issued,         \* history: config ids issued; revoked ones are withdrawn
    withdrawn,
    claimed,        \* history: the config the connected client confirmed
    planIssued,     \* history: the plan in the last config file, and the plan
                    \* that held when its request began
    supRestarts

supVars == << assignment, saved, plan, network, admin, issued, withdrawn, claimed,
              planIssued, supRestarts >>

State == {"off", "config_generated", "connected", "disconnected", "revoked", "error"}
Plan == {"local", "lan"}
ConfigId == 1 .. MaxConfigs

Assignment == [state : State, provider : Provider \cup {NoProvider},
               config : 0 .. MaxConfigs, expired : BOOLEAN,
               client : Client \cup {NoClient}, age : 0 .. Threshold + 1]
NoAssignment == [state |-> "off", provider |-> NoProvider, config |-> 0,
                 expired |-> FALSE, client |-> NoClient, age |-> 0]

Op == {"select", "regenerate", "confirm"}
IdleAdmin == [pc |-> "idle", op |-> "select", plan |-> "local", seen |-> "local"]
AdminRecord == [pc : {"idle", "planned", "call"}, op : Op, plan : Plan, seen : Plan]

Active == assignment.state \notin {"off", "revoked"}

-----------------------------------------------------------------------------

\* (mutant) A revocation is not written.
PersistUnlessRevoked(record) ==
    /\ assignment' = record
    /\ saved' = IF record.state = "revoked" THEN saved ELSE record

\* persistLocked: whatever becomes of the write, memory keeps the new record.
Persist(record) ==
    /\ assignment' = record
    /\ saved' = record \/ ("write" \in SupFaults /\ saved' = saved)

\* refreshSupervisorEndpoints computes the plan, then hands it over.
ComputePlan(t, op) ==
    /\ admin[t].pc = "idle"
    /\ admin' = [admin EXCEPT ![t] = [pc |-> "planned", op |-> op, plan |-> network,
                                      seen |-> network]]
    /\ UNCHANGED << assignment, saved, plan, network, issued, withdrawn, claimed,
                    planIssued, supRestarts >>

SetEndpoints(t) ==
    /\ admin[t].pc = "planned"
    /\ plan' = admin[t].plan
    /\ admin' = [admin EXCEPT ![t].pc = "call"]
    /\ UNCHANGED << assignment, saved, network, issued, withdrawn, claimed, planIssued,
                    supRestarts >>

Calling(t, op) == admin[t].pc = "call" /\ admin[t].op = op
Return(t) == admin' = [admin EXCEPT ![t] = IdleAdmin]

\* The config file carries the plan of the service.
IssueFile(t) ==
    /\ issued' = issued + 1
    /\ planIssued' = [file |-> plan, seen |-> admin[t].seen]

FreshAssignment(p) == [NoAssignment EXCEPT !.state = "config_generated", !.provider = p,
                                  !.config = issued + 1]

\* selectAndIssue writes the revocation of the assignment in force before the
\* new one replaces it; a crash may come between the two writes.
Select(t, p) ==
    /\ Calling(t, "select") /\ issued < MaxConfigs
    /\ Persist(FreshAssignment(p))
    /\ withdrawn' = withdrawn \cup (IF Active THEN {assignment.config} ELSE {})
    /\ IssueFile(t) /\ Return(t)
    /\ UNCHANGED << plan, network, claimed, supRestarts >>

\* (mutant) A regenerated config leaves the connection as it is.
RegenerateConnected(t) ==
    /\ Calling(t, "regenerate") /\ Active /\ issued < MaxConfigs
    /\ Persist([assignment EXCEPT !.config = issued + 1, !.expired = FALSE])
    /\ withdrawn' = withdrawn \cup {assignment.config}
    /\ IssueFile(t) /\ Return(t)
    /\ UNCHANGED << plan, network, claimed, supRestarts >>

\* regenerateConfig: a new config id, expiry and token for the same assignment.
Regenerate(t) ==
    /\ Calling(t, "regenerate") /\ Active /\ issued < MaxConfigs
    /\ Persist([assignment EXCEPT !.state = "config_generated", !.config = issued + 1,
                                  !.expired = FALSE])
    /\ withdrawn' = withdrawn \cup {assignment.config}
    /\ IssueFile(t) /\ Return(t)
    /\ UNCHANGED << plan, network, claimed, supRestarts >>

\* (mutant) The claim is matched on the provider alone.
ClaimMatchesProvider(p, c) == p = assignment.provider

\* The provider, the config id and the token of a claim.
ClaimMatches(p, c) == p = assignment.provider /\ c = assignment.config

\* (mutant) The expiry is not looked at.
NeverExpired == FALSE

Expired == assignment.expired

\* confirmConnection; a claim that does not match, or asks for a forbidden
\* capability, leaves an error message only.
Confirm(t, p, c, cl) ==
    /\ Calling(t, "confirm") /\ Return(t)
    /\ IF Active /\ ClaimMatches(p, c)
       THEN IF Expired
            THEN Persist([assignment EXCEPT !.state = "error"]) /\ UNCHANGED claimed
            ELSE /\ Persist([assignment EXCEPT !.state = "connected", !.client = cl,
                                               !.age = 0])
                 /\ claimed' = c
       ELSE UNCHANGED << assignment, saved, claimed >>
    /\ UNCHANGED << plan, network, issued, withdrawn, planIssued, supRestarts >>

\* A refused select, regenerate or confirm.
RefuseCall(t) ==
    /\ admin[t].pc = "call" /\ Return(t)
    /\ UNCHANGED << assignment, saved, plan, network, issued, withdrawn, claimed,
                    planIssued, supRestarts >>

Revoke ==
    /\ Active
    /\ Persist([assignment EXCEPT !.state = "revoked", !.age = 0])
    /\ withdrawn' = withdrawn \cup {assignment.config}
    /\ UNCHANGED << plan, network, admin, issued, claimed, planIssued, supRestarts >>

\* recordHeartbeat: of the connected client alone.
Heartbeat(cl) ==
    /\ assignment.state = "connected" /\ cl = assignment.client /\ assignment.age > 0
    /\ Persist([assignment EXCEPT !.age = 0])
    /\ UNCHANGED << plan, network, admin, issued, withdrawn, claimed, planIssued,
                    supRestarts >>

-----------------------------------------------------------------------------
(* Time, the watchdog and the environment *)

\* Time passes: the heartbeat grows old, on disk as in memory.
Age(record) == [record EXCEPT !.age = IF record.state = "connected" /\ @ <= Threshold
                                      THEN @ + 1 ELSE @]
TimePasses ==
    /\ assignment.state = "connected" /\ assignment.age <= Threshold
    /\ assignment' = Age(assignment) /\ saved' = Age(saved)
    /\ UNCHANGED << plan, network, admin, issued, withdrawn, claimed, planIssued,
                    supRestarts >>

ConfigExpires ==
    /\ assignment.config > 0 /\ ~assignment.expired
    /\ assignment' = [assignment EXCEPT !.expired = TRUE]
    /\ saved' = [saved EXCEPT !.expired = (saved.config = assignment.config) \/ @]
    /\ UNCHANGED << plan, network, admin, issued, withdrawn, claimed, planIssued,
                    supRestarts >>

\* (mutant) A record loaded from disk is not watched.
OverdueIfClaimed == assignment.age > Threshold /\ supRestarts = 0

Overdue == assignment.age > Threshold

\* expireConnectionIfStale, every five seconds.
ExpireConnection ==
    /\ assignment.state = "connected" /\ Overdue
    /\ Persist([assignment EXCEPT !.state = "disconnected"])
    /\ UNCHANGED << plan, network, admin, issued, withdrawn, claimed, planIssued,
                    supRestarts >>

NetworkChanges ==
    /\ network' \in Plan \ {network}
    /\ UNCHANGED << assignment, saved, plan, admin, issued, withdrawn, claimed, planIssued,
                    supRestarts >>

\* loadFromDisk.
SupRestart ==
    /\ supRestarts < SupRestarts /\ supRestarts' = supRestarts + 1
    /\ assignment' = saved /\ saved' = saved
    /\ plan' = "local"
    /\ admin' = [t \in Admin |-> IdleAdmin]
    /\ UNCHANGED << network, issued, withdrawn, claimed, planIssued >>

\* The process stops inside selectAndIssue, after its first write.
CrashInSelect ==
    /\ supRestarts < SupRestarts /\ supRestarts' = supRestarts + 1
    /\ Active /\ \E t \in Admin : Calling(t, "select")
    /\ assignment' = [assignment EXCEPT !.state = "revoked"] /\ saved' = assignment'
    /\ withdrawn' = withdrawn \cup {assignment.config}
    /\ plan' = "local"
    /\ admin' = [t \in Admin |-> IdleAdmin]
    /\ UNCHANGED << network, issued, claimed, planIssued >>

-----------------------------------------------------------------------------

SupInit ==
    /\ assignment = NoAssignment /\ saved = NoAssignment
    /\ plan = "local" /\ network = "local"
    /\ admin = [t \in Admin |-> IdleAdmin]
    /\ issued = 0 /\ withdrawn = {} /\ claimed = 0
    /\ planIssued = [file |-> "local", seen |-> "local"]
    /\ supRestarts = 0

SupNext ==
    \/ \E t \in Admin :
        \/ \E op \in Op : ComputePlan(t, op)
        \/ SetEndpoints(t) \/ Regenerate(t) \/ RefuseCall(t)
        \/ \E p \in Provider : Select(t, p)
        \/ \E p \in Provider, c \in 1 .. issued, cl \in Client : Confirm(t, p, c, cl)
    \/ Revoke \/ (\E cl \in Client : Heartbeat(cl))
    \/ TimePasses \/ ConfigExpires \/ ExpireConnection \/ NetworkChanges
    \/ SupRestart \/ CrashInSelect

\* Time passes, and the main loop sweeps every five seconds.
SupFairness == WF_supVars(TimePasses) /\ WF_supVars(ExpireConnection)

SupSpec == SupInit /\ [][SupNext]_supVars /\ SupFairness

-----------------------------------------------------------------------------
(* Properties *)

AsgTypeOK ==
    /\ assignment \in Assignment /\ saved \in Assignment
    /\ plan \in Plan /\ network \in Plan
    /\ admin \in [Admin -> AdminRecord]
    /\ issued \in 0 .. MaxConfigs /\ withdrawn \in SUBSET ConfigId
    /\ claimed \in 0 .. MaxConfigs
    /\ planIssued \in [file : Plan, seen : Plan]
    /\ supRestarts \in 0 .. SupRestarts

\* A supervisor is connected only with the config in force: never with one that
\* was superseded, regenerated or revoked, also after a crash or restart.
ConnectedByTheConfigInForce ==
    assignment.state = "connected" =>
        claimed = assignment.config /\ claimed \notin withdrawn

\* A connection is confirmed only before its config expires.
ExpiredConfigsNeverConnect ==
    [][ assignment'.state = "connected" /\ assignment.state # "connected" /\ ~SupRestart =>
            ~assignment'.expired ]_supVars

\* The file is the record: what an operator revoked or replaced does not come
\* back with a restart.
SavedRecordIsCurrent == saved = assignment

\* A supervisor that stops its heartbeats is eventually marked disconnected,
\* also if the service restarts meanwhile.
SilentSupervisorsDisconnect ==
    assignment.state = "connected" /\ assignment.age > Threshold
        ~> assignment.state # "connected" \/ assignment.age = 0

\* A config file carries the endpoint plan that its own request computed
\* (the comment in select: refreshed "right before issuing the config").
ConfigCarriesItsPlan == planIssued.file = planIssued.seen

=============================================================================
