--------------------------- MODULE EndpointCatalogs ---------------------------
(***************************************************************************)
(* The catalogs of sub-agents, MCP servers and sub-agent groups, their     *)
(* administration routes with CLU's enforcement, the worker pools promoted *)
(* from sub-agents, and the inventory cache (MasterControlRuntime.cpp).    *)
(*                                                                         *)
(* The services change SharedState::configuration and write the whole      *)
(* document in one critical section of SharedState::mutex, except          *)
(* upsertGroup, which reads the sub-agents in one section and writes the   *)
(* group in another.  A route decides between create and modify on the     *)
(* inventory cache, asks CLU, and only then calls the service; promotion   *)
(* to a pool and its removal follow the service call without any lock.     *)
(***************************************************************************)
EXTENDS Naturals

CONSTANTS
    Caller,         \* administration threads, one request each at a time
    Autonomous,     \* callers in autonomous mode: they may create, no more
    Id,             \* ids of endpoints and groups, after trimCopy
    ReservedId,     \* planner, architect, coding-specialists
    SeededId,       \* endpoints that came with the configuration
    CatRequests,    \* bound on the requests of a run
    CatOps          \* the requests made in a run, see AllCatOps

AllCatOps == {"upsertAgent", "removeAgent", "upsertMcp", "removeMcp", "upsertGroup",
              "removeGroup", "envelope"}

ASSUME CatalogAssumption ==
    /\ Autonomous \subseteq Caller
    /\ Id # {} /\ ReservedId \subseteq Id /\ SeededId \subseteq Id
    /\ CatRequests \in Nat
    /\ CatOps \subseteq AllCatOps

VARIABLES
    kindOf,     \* activeProfile.seededEndpoints: each id's kind
    group,      \* subAgentGroups: each group's members
    onDisk,     \* both as last written to the configuration file
    written,    \* history: the last write of the file succeeded
    promoted,   \* the supervisor's pools that come from sub-agents
    inventory,  \* RuntimeInventoryService::endpoints_
    refresh,    \* the detached refresh thread; pending while it is not "none"
    blocked,    \* CLU's posture is "blocked" (an envelope of 0 per cent, ...)
    request,    \* each caller's request and its place
    requests    \* bound: requests begun

endpointVars == << kindOf, group, onDisk, written >>
ecVars == << kindOf, group, onDisk, written, promoted, inventory, refresh, blocked,
             request, requests >>

Kind == {"none", "agent", "mcp", "seeded"}
Group == [present : BOOLEAN, members : SUBSET Id]
NoGroup == [present |-> FALSE, members |-> {}]
NoRequest == [pc |-> "idle", op |-> "none", id |-> CHOOSE i \in Id : TRUE,
              padded |-> FALSE, command |-> FALSE, members |-> {}, underBlock |-> FALSE]
Request == [pc : {"idle", "apply", "collect", "promote", "unpool"},
            op : CatOps \cup {"none"}, id : Id, padded : BOOLEAN, command : BOOLEAN,
            members : SUBSET Id, underBlock : BOOLEAN]

Agents == {i \in Id : kindOf[i] = "agent"}

Applying(c, op) == request[c].pc = "apply" /\ request[c].op = op
\* (mutant) The request's fields outlive its answer.
AnswerInPlace(c) == request' = [request EXCEPT ![c].pc = "idle"]

Answer(c) == request' = [request EXCEPT ![c] = NoRequest]

Then(c, pc) == request' = [request EXCEPT ![c].pc = pc]

-----------------------------------------------------------------------------
(* The routes up to the service call *)

\* exists, as the upsert routes decide it.
Known(op, i) == CASE op = "upsertMcp" -> inventory[i] \in {"mcp", "seeded"}
                  [] op = "upsertAgent" -> inventory[i] = "agent"
                  [] OTHER -> TRUE

\* requirePrivilege: an autonomous caller holds no catalog privilege of its own
\* and is let through for a create.
Privileged(c, op, i) ==
    c \notin Autonomous \/ (op \in {"upsertAgent", "upsertMcp"} /\ ~Known(op, i))

\* enforceGovernance refuses every change of the catalogs while the posture is
\* blocked; it is skipped for an autonomous create and for groups.
Governed(c, op) == c \notin Autonomous /\ op \notin {"upsertGroup", "removeGroup"}

Begin(c, op, i, padded, command, ms) ==
    /\ request[c].pc = "idle" /\ requests < CatRequests
    /\ op \in CatOps \ {"envelope"}
    /\ op # "upsertAgent" => ~padded /\ ~command
    /\ op # "upsertGroup" => ms = {}
    /\ Privileged(c, op, i)
    /\ Governed(c, op) => ~blocked
    /\ request' = [request EXCEPT ![c] =
           [pc |-> IF op = "upsertGroup" THEN "collect" ELSE "apply", op |-> op, id |-> i,
            padded |-> padded, command |-> command, members |-> ms,
            underBlock |-> blocked]]
    /\ requests' = requests + 1
    /\ UNCHANGED << endpointVars, promoted, inventory, refresh, blocked >>

\* The operator changes the resource envelope, and with it the posture.
ChangeEnvelope ==
    /\ "envelope" \in CatOps /\ requests < CatRequests
    /\ blocked' = ~blocked
    /\ requests' = requests + 1
    /\ UNCHANGED << endpointVars, promoted, inventory, refresh, request >>

-----------------------------------------------------------------------------
(* The services *)

\* (mutant) Only the endpoints are written.
WriteEndpoints(ok) ==
    /\ written' = ok
    /\ onDisk' = IF ok THEN [onDisk EXCEPT !.kindOf = kindOf'] ELSE onDisk

\* writeJsonFile writes the whole document; a failure leaves memory changed.
WriteDocument(ok) ==
    /\ written' = ok
    /\ onDisk' = IF ok THEN [kindOf |-> kindOf', group |-> group'] ELSE onDisk

\* refreshAsync: the caller that finds the flag set leaves it to the refresh
\* under way.
RefreshAsync ==
    refresh' = IF refresh.pc = "none" THEN [refresh EXCEPT !.pc = "spawned"] ELSE refresh

\* (mutant) A seeded endpoint is replaced like any other.
AgentRefusedUnlessReserved(r) == r.id \in ReservedId \/ group[r.id].present

\* The refusals of upsertSubAgent.  The reserved ids are looked up before the
\* id is trimmed; the groups and the endpoints after.
AgentRefused(r) ==
    \/ r.id \in ReservedId /\ ~r.padded
    \/ group[r.id].present
    \/ kindOf[r.id] = "seeded"

\* After a success the route promotes a sub-agent with a command to a pool.
UpsertSubAgent(c, ok) ==
    LET r == request[c] IN
    /\ Applying(c, "upsertAgent")
    /\ ~AgentRefused(r)
    /\ kindOf' = [kindOf EXCEPT ![r.id] = "agent"]
    /\ UNCHANGED group
    /\ WriteDocument(ok)
    /\ IF ok THEN RefreshAsync ELSE UNCHANGED refresh
    /\ IF ok /\ r.command THEN Then(c, "promote") ELSE Answer(c)
    /\ UNCHANGED << promoted, inventory, blocked, requests >>

\* A group without the removed agent; it goes with its last member.
\* (mutant) A group that lost its last member stays.
WithoutKept(grp, i) == [grp EXCEPT !.members = @ \ {i}]

Without(grp, i) == IF grp.members \subseteq {i} THEN NoGroup
                   ELSE [grp EXCEPT !.members = @ \ {i}]

RemoveSubAgent(c, ok) ==
    LET i == request[c].id IN
    /\ Applying(c, "removeAgent")
    /\ kindOf[i] = "agent"
    /\ kindOf' = [kindOf EXCEPT ![i] = "none"]
    /\ group' = [g \in Id |-> Without(group[g], i)]
    /\ WriteDocument(ok)
    /\ IF ok THEN RefreshAsync /\ Then(c, "unpool") ELSE Answer(c) /\ UNCHANGED refresh
    /\ UNCHANGED << promoted, inventory, blocked, requests >>

\* upsertMcpServer replaces any user-defined endpoint and looks at no group.
UpsertMcpServer(c, ok) ==
    LET i == request[c].id IN
    /\ Applying(c, "upsertMcp")
    /\ kindOf[i] # "seeded"
    /\ kindOf' = [kindOf EXCEPT ![i] = "mcp"]
    /\ UNCHANGED group
    /\ WriteDocument(ok)
    /\ IF ok THEN RefreshAsync ELSE UNCHANGED refresh
    /\ Answer(c)
    /\ UNCHANGED << promoted, inventory, blocked, requests >>

RemoveMcpServer(c, ok) ==
    LET i == request[c].id IN
    /\ Applying(c, "removeMcp")
    /\ kindOf[i] = "mcp"
    /\ kindOf' = [kindOf EXCEPT ![i] = "none"]
    /\ UNCHANGED group
    /\ WriteDocument(ok)
    /\ IF ok THEN RefreshAsync ELSE UNCHANGED refresh
    /\ Answer(c)
    /\ UNCHANGED << promoted, inventory, blocked, requests >>

\* upsertGroup, first critical section: the members that are sub-agents now.
CollectMembers(c) ==
    LET r == request[c] ms == r.members \cap Agents IN
    /\ r.pc = "collect"
    /\ IF r.id \in ReservedId \cup Agents \/ ms = {}
       THEN Answer(c)
       ELSE request' = [request EXCEPT ![c].pc = "apply", ![c].members = ms]
    /\ UNCHANGED << endpointVars, promoted, inventory, refresh, blocked, requests >>

\* Second critical section: the group is added or replaced and the list sorted.
UpsertGroup(c, ok) ==
    LET r == request[c] IN
    /\ Applying(c, "upsertGroup")
    /\ group' = [group EXCEPT ![r.id] = [present |-> TRUE, members |-> r.members]]
    /\ UNCHANGED kindOf
    /\ WriteDocument(ok)
    /\ Answer(c)
    /\ UNCHANGED << promoted, inventory, refresh, blocked, requests >>

RemoveGroup(c, ok) ==
    LET i == request[c].id IN
    /\ Applying(c, "removeGroup")
    /\ group[i].present
    /\ group' = [group EXCEPT ![i] = NoGroup]
    /\ UNCHANGED kindOf
    /\ WriteDocument(ok)
    /\ Answer(c)
    /\ UNCHANGED << promoted, inventory, refresh, blocked, requests >>

\* The service refused: nothing changes.
Refuse(c) ==
    LET r == request[c] IN
    /\ r.pc = "apply"
    /\ \/ r.op = "upsertAgent" /\ AgentRefused(r)
       \/ r.op = "removeAgent" /\ kindOf[r.id] # "agent"
       \/ r.op = "upsertMcp" /\ kindOf[r.id] = "seeded"
       \/ r.op = "removeMcp" /\ kindOf[r.id] # "mcp"
       \/ r.op = "removeGroup" /\ ~group[r.id].present
    /\ Answer(c)
    /\ UNCHANGED << endpointVars, promoted, inventory, refresh, blocked, requests >>

-----------------------------------------------------------------------------
(* The routes after the service call *)

Promote(c) ==
    /\ request[c].pc = "promote"
    /\ promoted' = promoted \cup {request[c].id}
    /\ Answer(c)
    /\ UNCHANGED << endpointVars, inventory, refresh, blocked, requests >>

Unpool(c) ==
    /\ request[c].pc = "unpool"
    /\ promoted' = promoted \ {request[c].id}
    /\ Answer(c)
    /\ UNCHANGED << endpointVars, inventory, refresh, blocked, requests >>

-----------------------------------------------------------------------------
(* RuntimeInventoryService *)

\* Every dashboard snapshot asks for a refresh.
DashboardPoll ==
    /\ refresh.pc = "none" /\ RefreshAsync
    /\ UNCHANGED << endpointVars, promoted, inventory, blocked, request, requests >>

\* refresh copies the configuration, probes every endpoint without a lock, and
\* publishes its copy; a copy equal to the cache may be skipped.
CopyEndpoints ==
    /\ refresh.pc = "spawned"
    /\ refresh' = [pc |-> "probing", copy |-> kindOf]
    /\ UNCHANGED << endpointVars, promoted, inventory, blocked, request, requests >>

\* (mutant) The skip compares the number of endpoints alone.
PublishIfMore ==
    /\ refresh.pc = "probing"
    /\ refresh' = [refresh EXCEPT !.pc = "published"]
    /\ inventory' = IF \A i \in Id : refresh.copy[i] = "none" => inventory[i] = "none"
                    THEN refresh.copy ELSE inventory
    /\ UNCHANGED << endpointVars, promoted, blocked, request, requests >>

PublishInventory ==
    /\ refresh.pc = "probing"
    /\ refresh' = [refresh EXCEPT !.pc = "published"]
    /\ inventory' = refresh.copy
    /\ UNCHANGED << endpointVars, promoted, blocked, request, requests >>

ClearPending ==
    /\ refresh.pc = "published"
    /\ refresh' = [refresh EXCEPT !.pc = "none"]
    /\ UNCHANGED << endpointVars, promoted, inventory, blocked, request, requests >>

-----------------------------------------------------------------------------

Seeded == [i \in Id |-> IF i \in SeededId THEN "seeded" ELSE "none"]
Ungrouped == [i \in Id |-> NoGroup]

ECInit ==
    /\ kindOf = Seeded /\ group = Ungrouped
    /\ onDisk = [kindOf |-> Seeded, group |-> Ungrouped] /\ written = TRUE
    /\ promoted = {}
    /\ inventory = Seeded
    /\ refresh = [pc |-> "none", copy |-> Seeded]
    /\ blocked = FALSE
    /\ request = [c \in Caller |-> NoRequest]
    /\ requests = 0

Serve(c) ==
    \/ \E ok \in BOOLEAN :
        \/ UpsertSubAgent(c, ok) \/ RemoveSubAgent(c, ok)
        \/ UpsertMcpServer(c, ok) \/ RemoveMcpServer(c, ok)
        \/ UpsertGroup(c, ok) \/ RemoveGroup(c, ok)
    \/ CollectMembers(c) \/ Refuse(c) \/ Promote(c) \/ Unpool(c)

Refreshing == CopyEndpoints \/ PublishInventory \/ ClearPending

ECNext ==
    \/ \E c \in Caller :
        \/ \E op \in CatOps, i \in Id, padded, command \in BOOLEAN, ms \in SUBSET Id :
               Begin(c, op, i, padded, command, ms)
        \/ Serve(c)
    \/ ChangeEnvelope
    \/ DashboardPoll \/ Refreshing

\* A refresh thread runs to its end, and the dashboard keeps polling.
ECFairness == WF_ecVars(Refreshing) /\ WF_ecVars(DashboardPoll)

ECSpec == ECInit /\ [][ECNext]_ecVars /\ ECFairness

-----------------------------------------------------------------------------
(* Properties *)

ECTypeOK ==
    /\ kindOf \in [Id -> Kind] /\ inventory \in [Id -> Kind]
    /\ group \in [Id -> Group]
    /\ onDisk \in [kindOf : [Id -> Kind], group : [Id -> Group]]
    /\ written \in BOOLEAN /\ blocked \in BOOLEAN
    /\ promoted \in SUBSET Id
    /\ refresh \in [pc : {"none", "spawned", "probing", "published"}, copy : [Id -> Kind]]
    /\ request \in [Caller -> Request]
    /\ \A c \in Caller : request[c].op = "none" <=> request[c].pc = "idle"
    /\ requests \in 0 .. CatRequests

\* A group always has a member, whichever of its members are removed and
\* however that interleaves with a change of the group: removeSubAgent drops
\* the groups it empties.
NoEmptyGroup == \A g \in Id : group[g].present => group[g].members # {}

\* Requests never change an endpoint that is seeded: upsertSubAgent,
\* upsertMcpServer and the removals test userDefined in the critical section
\* in which they write.
SeededEndpointsStay == \A i \in SeededId : kindOf[i] = "seeded"

\* The file holds both catalogs as they are in memory, unless the last write
\* failed: every change writes the whole document under SharedState::mutex.
CatalogsOnDisk == written => onDisk = [kindOf |-> kindOf, group |-> group]

\* Once requests stop, the inventory comes to agree with the catalog, although
\* refreshAsync drops the calls made while a refresh is under way: the polls
\* of the dashboard make up for them.
InventoryCatchesUp == <>[](inventory = kindOf)

\* A create of an autonomous client still honours a blocked posture (the
\* comment in POST /api/runtime/mcp-servers: "CLU still runs to honor
\* posture-blocked enforcement").
AutonomousCreateHonoursPosture ==
    \A c \in Caller :
        request[c].op \in {"upsertAgent", "upsertMcp"} => ~request[c].underBlock

\* A pool promoted from a sub-agent goes with it (the comment in POST
\* /api/runtime/subagents/remove: "reaped together with its sub-agent").
PoolsFollowAgents ==
    (\A c \in Caller : request[c].pc = "idle") => promoted \subseteq Agents

\* The members of a group are sub-agents of the catalog.
GroupMembersExist == \A g \in Id : group[g].members \subseteq Agents

\* No sub-agent takes the id of an orchestration target.
ReservedIdsStayFree == \A i \in ReservedId : kindOf[i] # "agent"

=============================================================================
