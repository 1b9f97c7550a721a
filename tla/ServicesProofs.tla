----------------------------- MODULE ServicesProofs -----------------------------
(***************************************************************************)
(* The HTTP server of the admin API, the supervisor assignment and the     *)
(* activity feed: what MCServices composes, for any number of connections, *)
(* workers, clients, configs, readers and events.                          *)
(*                                                                         *)
(* A socket the server accepted is in one place at a time: in the hands of *)
(* the accept thread, in the queue, with a worker, or in the registry of   *)
(* streams.  Every place closes the sockets it gives up itself, so none is *)
(* closed twice and none is left when stop() has emptied the places one    *)
(* after the other.                                                        *)
(*                                                                         *)
(* The ring holds the last events, numbered without a gap, and while no    *)
(* append failed the file ends as the ring does: so a start reads the ring *)
(* back, and a reader's cursor still means what it meant.                  *)
(***************************************************************************)
EXTENDS MCServices, FiniteSetTheorems, SequenceTheorems, TLAPS

-----------------------------------------------------------------------------
(* The invariant of the HTTP server *)

Busy == {"handshake", "report", "refuse", "reading", "handling"}
Queued(c) == \E i \in 1 .. Len(connQueue) : connQueue[i] = c
Served(c) == \E w \in HttpWorker : crew[w].conn = c

\* How far start() and stop() are, and what runs then.
QueueIsShut == {"joinWorkers", "closeQueued", "shutStreams", "joinStreams", "stopped"}
CrewIsGone == QueueIsShut \ {"joinWorkers"}
Stages ==
    /\ isRunning => phase \in {"starting", "up"}
    /\ phase = "new" <=> acceptor = "none"
    /\ phase \in {"new", "shutStreams", "joinStreams", "stopped"} => connQueue = << >>
    /\ queueClosed <=> phase \in QueueIsShut
    /\ queueClosed => acceptor = "done"
    /\ acceptor = "done" => ~isRunning
    /\ phase = "stopped" => \A c \in Conn : streams[c] = "none"

CrewStages ==
    \A w \in HttpWorker :
        /\ crew[w].pc = "none" <=> phase = "new"
        /\ crew[w].pc = "done" => queueClosed
        /\ phase \in CrewIsGone => crew[w].pc = "done"
        /\ crew[w].conn # NoConn <=> crew[w].pc \in Busy

\* A socket is accepted as long as someone has it, and closed by him.
Accepted(c) == inHand = c \/ Queued(c) \/ Served(c) \/ streams[c] # "none"
SocketsKnown ==
    \A c \in Conn :
        /\ link[c].socket \in {"open", "shut"} <=> Accepted(c)
        /\ link[c].closes = IF link[c].socket = "closed" THEN 1 ELSE 0
        /\ link[c].socket = "backlog" => isRunning /\ acceptor # "binding"

\* One place at a time.
OnePlace ==
    /\ \A c \in Conn :
          /\ inHand = c => ~Queued(c) /\ ~Served(c) /\ streams[c] = "none"
          /\ Queued(c) => ~Served(c) /\ streams[c] = "none"
          /\ Served(c) => streams[c] = "none"
    /\ \A v, w \in HttpWorker : crew[v].conn # NoConn /\ crew[v].conn = crew[w].conn => v = w
    /\ \A i, j \in 1 .. Len(connQueue) : connQueue[i] = connQueue[j] => i = j

HttpInv == HttpTypeOK /\ Stages /\ CrewStages /\ SocketsKnown /\ OnePlace

-----------------------------------------------------------------------------
(* The invariant of the assignment *)

\* A config is withdrawn at most once it was issued, and an active assignment
\* has one that was issued and not withdrawn.
AsgKnown ==
    /\ saved = assignment
    /\ assignment.config <= issued /\ claimed <= issued
    /\ withdrawn \subseteq 1 .. issued
    /\ Active => assignment.config # 0 /\ assignment.config \notin withdrawn
    /\ assignment.state = "connected" => claimed = assignment.config

AsgInv == AsgTypeOK /\ AsgKnown

\* A record that is changed in one field keeps its type.  The provers find this
\* only while the set of flags is a name.
Records(States, Providers, Configs, Flags, Clients, Ages) ==
    [state : States, provider : Providers, config : Configs, expired : Flags,
     client : Clients, age : Ages]

LEMMA FieldsChange ==
    ASSUME NEW States, NEW Providers, NEW Configs, NEW Flags, NEW Clients, NEW Ages,
           NEW r \in Records(States, Providers, Configs, Flags, Clients, Ages)
    PROVE  LET R == Records(States, Providers, Configs, Flags, Clients, Ages) IN
           /\ r.state \in States /\ r.config \in Configs /\ r.age \in Ages
           /\ \A x \in States : [r EXCEPT !.state = x] \in R
           /\ \A x \in Providers : [r EXCEPT !.provider = x] \in R
           /\ \A x \in Configs : [r EXCEPT !.config = x] \in R
           /\ \A x \in Flags : [r EXCEPT !.expired = x] \in R
           /\ \A x \in Clients : [r EXCEPT !.client = x] \in R
           /\ \A x \in Ages : [r EXCEPT !.age = x] \in R
  BY DEF Records

LEMMA AssignmentFields ==
    ASSUME NEW r \in Assignment
    PROVE  /\ r.state \in State /\ r.config \in 0 .. MaxConfigs /\ r.age \in 0 .. Threshold + 1
           /\ \A x \in State : [r EXCEPT !.state = x] \in Assignment
           /\ \A x \in Provider : [r EXCEPT !.provider = x] \in Assignment
           /\ \A x \in 0 .. MaxConfigs : [r EXCEPT !.config = x] \in Assignment
           /\ \A x \in BOOLEAN : [r EXCEPT !.expired = x] \in Assignment
           /\ \A x \in Client \cup {NoClient} : [r EXCEPT !.client = x] \in Assignment
           /\ \A x \in 0 .. Threshold + 1 : [r EXCEPT !.age = x] \in Assignment
<1>1. Assignment = Records(State, Provider \cup {NoProvider}, 0 .. MaxConfigs, BOOLEAN,
                           Client \cup {NoClient}, 0 .. Threshold + 1)
  BY DEF Assignment, Records
<1>2. r \in Records(State, Provider \cup {NoProvider}, 0 .. MaxConfigs, BOOLEAN,
                    Client \cup {NoClient}, 0 .. Threshold + 1)
  BY <1>1
<1> QED
  BY <1>1, <1>2, FieldsChange

LEMMA StateAndAge ==
    ASSUME NEW r \in Assignment, NEW x \in State
    PROVE  /\ [r EXCEPT !.state = x, !.age = 0] \in Assignment
           /\ [r EXCEPT !.state = x, !.age = 0].state = x
           /\ [r EXCEPT !.state = x, !.age = 0].config = r.config
<1> DEFINE r1 == [r EXCEPT !.state = x]
<1>1. r1 \in Assignment /\ r1.state = x /\ r1.config = r.config
  BY AssignmentFields DEF Assignment
<1>2. [r EXCEPT !.state = x, !.age = 0] = [r1 EXCEPT !.age = 0]
  BY DEF Assignment
<1>3. 0 \in 0 .. Threshold + 1
  BY SupervisorAssumption
<1> HIDE DEF r1
<1>4. /\ [r1 EXCEPT !.age = 0] \in Assignment
      /\ [r1 EXCEPT !.age = 0].state = x /\ [r1 EXCEPT !.age = 0].config = r.config
  BY <1>1, <1>3, AssignmentFields DEF Assignment
<1> QED
  BY <1>2, <1>4

\* While every write succeeds the file is the record.
LEMMA Written ==
    ASSUME "write" \notin SupFaults, NEW r \in Assignment, Persist(r)
    PROVE  assignment' = r /\ saved' = r
  BY DEF Persist

LEMMA NothingAssigned == NoAssignment \in Assignment
  BY SupervisorAssumption DEF NoAssignment, Assignment, State

LEMMA AsgStarts == SupInit => AsgInv
<1> SUFFICES ASSUME SupInit PROVE AsgInv
  OBVIOUS
<1>1. NoAssignment \in Assignment
  BY NothingAssigned
<1>2. IdleAdmin \in AdminRecord
  BY DEF IdleAdmin, AdminRecord, Op, Plan
<1>3. AsgTypeOK
  BY <1>1, <1>2, SupervisorAssumption DEF SupInit, AsgTypeOK, Plan, ConfigId
<1>4. AsgKnown
  BY DEF SupInit, AsgKnown, Active, NoAssignment
<1> QED
  BY <1>3, <1>4 DEF AsgInv

\* The steps that leave the record and the history of its configs alone.
LEMMA AsgIdles ==
    ASSUME AsgInv,
           admin' \in [Admin -> AdminRecord], plan' \in Plan, network' \in Plan,
           supRestarts' \in 0 .. SupRestarts,
           UNCHANGED << assignment, saved, issued, withdrawn, claimed, planIssued >>
    PROVE  AsgInv'
  BY DEF AsgInv, AsgTypeOK, AsgKnown, Active

\* A new config, for the record r that takes the place of the assignment.
LEMMA AsgIssues ==
    ASSUME AsgInv, "write" \notin SupFaults, NEW t \in Admin, NEW r \in Assignment, Persist(r),
           r.state = "config_generated", r.config = issued + 1, issued < MaxConfigs,
           withdrawn' \subseteq withdrawn \cup (IF Active THEN {assignment.config} ELSE {}),
           IssueFile(t), Return(t), UNCHANGED << plan, network, claimed, supRestarts >>
    PROVE  AsgInv'
<1>1. assignment' = r /\ saved' = r
  BY Written
<1>2. issued \in 0 .. MaxConfigs /\ issued' = issued + 1 /\ MaxConfigs \in Nat
      /\ assignment.config \in 0 .. MaxConfigs /\ claimed \in 0 .. MaxConfigs
  BY SupervisorAssumption, AssignmentFields DEF AsgInv, AsgTypeOK, IssueFile
<1>3. withdrawn' \subseteq 1 .. issued
  BY <1>2 DEF AsgInv, AsgKnown
<1>4. AsgKnown'
  BY <1>1, <1>2, <1>3 DEF AsgKnown, AsgInv, Active
<1>5. admin' \in [Admin -> AdminRecord]
  BY DEF AsgInv, AsgTypeOK, Return, IdleAdmin, AdminRecord, Op, Plan
<1>6. planIssued' \in [file : Plan, seen : Plan]
  BY DEF AsgInv, AsgTypeOK, IssueFile, AdminRecord
<1>7. AsgTypeOK'
  BY <1>1, <1>2, <1>3, <1>5, <1>6 DEF AsgTypeOK, AsgInv, ConfigId
<1> QED
  BY <1>4, <1>7 DEF AsgInv

\* The record r keeps the config of the assignment.
LEMMA AsgChanges ==
    ASSUME AsgInv, NEW r \in Assignment, assignment' = r, saved' = r,
           r.config = assignment.config,
           r.state = "connected" => Active /\ claimed' = r.config,
           r.state \notin {"off", "revoked"} => Active /\ withdrawn' = withdrawn,
           claimed' \in {claimed, assignment.config},
           withdrawn' = withdrawn \/ (Active /\ withdrawn' = withdrawn \cup {assignment.config}),
           admin' \in [Admin -> AdminRecord], plan' \in Plan, supRestarts' \in 0 .. SupRestarts,
           UNCHANGED << network, issued, planIssued >>
    PROVE  AsgInv'
<1>1. /\ issued \in 0 .. MaxConfigs /\ MaxConfigs \in Nat /\ assignment.config \in 0 .. MaxConfigs
      /\ assignment.config <= issued /\ claimed <= issued /\ claimed \in 0 .. MaxConfigs
      /\ withdrawn \subseteq 1 .. issued
      /\ Active => assignment.config # 0 /\ assignment.config \notin withdrawn
  BY SupervisorAssumption, AssignmentFields DEF AsgInv, AsgTypeOK, AsgKnown
<1>2. withdrawn' \subseteq 1 .. issued
  <2>1. CASE withdrawn' = withdrawn
    BY <1>1, <2>1
  <2>2. CASE Active /\ withdrawn' = withdrawn \cup {assignment.config}
    <3>1. assignment.config \in 1 .. issued
      BY <1>1, <2>2
    <3> QED
      BY <1>1, <2>2, <3>1
  <2> QED
    BY <2>1, <2>2
<1>3. AsgKnown'
  BY <1>1, <1>2 DEF AsgKnown, Active
<1>4. AsgTypeOK'
  BY <1>1, <1>2 DEF AsgTypeOK, AsgInv, ConfigId
<1> QED
  BY <1>3, <1>4 DEF AsgInv

LEMMA AsgStep ==
    ASSUME "write" \notin SupFaults, AsgInv, [SupNext]_supVars
    PROVE  AsgInv'
<1>1. /\ assignment \in Assignment /\ saved = assignment /\ plan \in Plan /\ network \in Plan
      /\ admin \in [Admin -> AdminRecord] /\ supRestarts \in 0 .. SupRestarts /\ SupRestarts \in Nat
      /\ issued \in 0 .. MaxConfigs /\ MaxConfigs \in Nat
      /\ assignment.state = "connected" => claimed = assignment.config
  BY SupervisorAssumption DEF AsgInv, AsgTypeOK, AsgKnown
<1>2. /\ IdleAdmin \in AdminRecord /\ [t \in Admin |-> IdleAdmin] \in [Admin -> AdminRecord]
      /\ \A t \in Admin : [admin EXCEPT ![t] = IdleAdmin] \in [Admin -> AdminRecord]
  BY <1>1 DEF IdleAdmin, AdminRecord, Op, Plan
<1>3. ASSUME NEW t \in Admin, NEW op \in Op, ComputePlan(t, op) PROVE AsgInv'
  <2>1. [pc |-> "planned", op |-> op, plan |-> network, seen |-> network] \in AdminRecord
    BY <1>1 DEF AdminRecord
  <2> QED
    BY <1>1, <1>3, <2>1, AsgIdles DEF ComputePlan
<1>4. ASSUME NEW t \in Admin, SetEndpoints(t) PROVE AsgInv'
  <2>1. admin[t] \in AdminRecord
    BY <1>1
  <2>2. admin[t].plan \in Plan /\ [admin[t] EXCEPT !.pc = "call"] \in AdminRecord
    BY <2>1 DEF AdminRecord
  <2> QED
    BY <1>1, <1>4, <2>2, AsgIdles DEF SetEndpoints
<1>5. ASSUME NEW t \in Admin, Regenerate(t) PROVE AsgInv'
  <2> DEFINE r == [assignment EXCEPT !.state = "config_generated", !.config = issued + 1,
                                     !.expired = FALSE]
  <2>1. r \in Assignment /\ r.state = "config_generated" /\ r.config = issued + 1
    <3> DEFINE r1 == [assignment EXCEPT !.state = "config_generated"]
               r2 == [r1 EXCEPT !.config = issued + 1]
    <3>1. r1 \in Assignment /\ r1.state = "config_generated"
      BY <1>1, AssignmentFields DEF State, Assignment
    <3>2. issued + 1 \in 0 .. MaxConfigs
      BY <1>1, <1>5 DEF Regenerate
    <3>3. r2 \in Assignment /\ r2.state = "config_generated" /\ r2.config = issued + 1
      BY <3>1, <3>2, AssignmentFields DEF Assignment
    <3>4. r = [r2 EXCEPT !.expired = FALSE]
      BY <1>1 DEF Assignment
    <3> HIDE DEF r, r2
    <3> QED
      BY <3>3, <3>4, AssignmentFields DEF Assignment
  <2> HIDE DEF r
  <2>2. Persist(r)
    BY <1>5 DEF Regenerate, r
  <2> QED
    BY <1>5, <2>1, <2>2, AsgIssues DEF Regenerate
<1>6. ASSUME NEW t \in Admin, RefuseCall(t) PROVE AsgInv'
  BY <1>1, <1>2, <1>6, AsgIdles DEF RefuseCall, Return
<1>7. ASSUME NEW t \in Admin, NEW p \in Provider, Select(t, p) PROVE AsgInv'
  <2> DEFINE r == FreshAssignment(p)
  <2>1. r \in Assignment /\ r.state = "config_generated" /\ r.config = issued + 1
    <3> DEFINE r1 == [NoAssignment EXCEPT !.state = "config_generated"]
               r2 == [r1 EXCEPT !.provider = p]
    <3>1. NoAssignment \in Assignment
      BY NothingAssigned
    <3>2. r1 \in Assignment /\ r1.state = "config_generated"
      BY <3>1, AssignmentFields DEF State, Assignment
    <3>3. r2 \in Assignment /\ r2.state = "config_generated"
      BY <3>2, AssignmentFields DEF Assignment
    <3>4. r = [r2 EXCEPT !.config = issued + 1]
      BY <3>1 DEF FreshAssignment, Assignment
    <3>5. issued + 1 \in 0 .. MaxConfigs
      BY <1>1, <1>7 DEF Select
    <3> HIDE DEF r, r2
    <3> QED
      BY <3>3, <3>4, <3>5, AssignmentFields DEF Assignment
  <2> HIDE DEF r
  <2>2. Persist(r)
    BY <1>7 DEF Select, r
  <2> QED
    BY <1>7, <2>1, <2>2, AsgIssues DEF Select
<1>8. ASSUME NEW t \in Admin, NEW p \in Provider, NEW c \in 1 .. issued, NEW cl \in Client,
             Confirm(t, p, c, cl)
      PROVE  AsgInv'
  <2>1. /\ admin' \in [Admin -> AdminRecord]
        /\ UNCHANGED << plan, network, issued, withdrawn, planIssued, supRestarts >>
    BY <1>2, <1>8 DEF Confirm, Return
  <2>2. CASE ~(Active /\ ClaimMatches(p, c))
    BY <1>1, <1>8, <2>1, <2>2, AsgIdles DEF Confirm
  <2>3. CASE Active /\ ClaimMatches(p, c) /\ Expired
    <3> DEFINE r == [assignment EXCEPT !.state = "error"]
    <3>1. r \in Assignment /\ r.state = "error" /\ r.config = assignment.config
      BY <1>1 DEF Assignment, State
    <3> HIDE DEF r
    <3>2. Persist(r) /\ claimed' = claimed
      BY <1>8, <2>3 DEF Confirm, r
    <3>3. assignment' = r /\ saved' = r
      BY <3>1, <3>2, Written
    <3> QED
      BY <1>1, <2>1, <2>3, <3>1, <3>2, <3>3, AsgChanges
  <2>4. CASE Active /\ ClaimMatches(p, c) /\ ~Expired
    <3> DEFINE r == [assignment EXCEPT !.state = "connected", !.client = cl, !.age = 0]
    <3>1. r \in Assignment /\ r.state = "connected" /\ r.config = assignment.config
      <4> DEFINE r1 == [assignment EXCEPT !.client = cl]
      <4>1. r1 \in Assignment /\ r1.config = assignment.config
        BY <1>1, AssignmentFields DEF Assignment
      <4>2. r = [r1 EXCEPT !.state = "connected", !.age = 0]
        BY <1>1 DEF Assignment
      <4> HIDE DEF r, r1
      <4> QED
        BY <4>1, <4>2, StateAndAge DEF State
    <3> HIDE DEF r
    <3>2. Persist(r) /\ claimed' = assignment.config
      BY <1>8, <2>4 DEF Confirm, ClaimMatches, r
    <3>3. assignment' = r /\ saved' = r
      BY <3>1, <3>2, Written
    <3> QED
      BY <1>1, <2>1, <2>4, <3>1, <3>2, <3>3, AsgChanges
  <2> QED
    BY <2>2, <2>3, <2>4
<1>9. CASE Revoke
  <2> DEFINE r == [assignment EXCEPT !.state = "revoked", !.age = 0]
  <2>1. r \in Assignment /\ r.state = "revoked" /\ r.config = assignment.config
    BY <1>1, StateAndAge DEF State
  <2> HIDE DEF r
  <2>2. assignment' = r /\ saved' = r
    BY <1>9, <2>1, Written DEF Revoke, r
  <2> QED
    BY <1>1, <1>9, <2>1, <2>2, AsgChanges DEF Revoke
<1>10. ASSUME NEW cl \in Client, Heartbeat(cl) PROVE AsgInv'
  <2> DEFINE r == [assignment EXCEPT !.age = 0]
  <2>1. r \in Assignment /\ r.state = assignment.state /\ r.config = assignment.config
    BY <1>1, SupervisorAssumption DEF Assignment
  <2> HIDE DEF r
  <2>2. assignment' = r /\ saved' = r
    BY <1>10, <2>1, Written DEF Heartbeat, r
  <2> QED
    BY <1>1, <1>10, <2>1, <2>2, AsgChanges DEF Heartbeat, Active
<1>11. CASE TimePasses
  <2> DEFINE r == Age(assignment)
  <2>1. r \in Assignment /\ r.state = assignment.state /\ r.config = assignment.config
    BY <1>1, SupervisorAssumption DEF Assignment, Age
  <2>2. assignment' = r /\ saved' = r
    BY <1>1, <1>11 DEF TimePasses
  <2> HIDE DEF r
  <2> QED
    BY <1>1, <1>11, <2>1, <2>2, AsgChanges DEF TimePasses, Active
<1>12. CASE ConfigExpires
  <2> DEFINE r == [assignment EXCEPT !.expired = TRUE]
  <2>1. r \in Assignment /\ r.state = assignment.state /\ r.config = assignment.config
    BY <1>1 DEF Assignment
  <2>2. assignment' = r /\ saved' = r
    BY <1>1, <1>12 DEF ConfigExpires
  <2> HIDE DEF r
  <2> QED
    BY <1>1, <1>12, <2>1, <2>2, AsgChanges DEF ConfigExpires, Active
<1>13. CASE ExpireConnection
  <2> DEFINE r == [assignment EXCEPT !.state = "disconnected"]
  <2>1. r \in Assignment /\ r.state = "disconnected" /\ r.config = assignment.config
    BY <1>1 DEF Assignment, State
  <2> HIDE DEF r
  <2>2. assignment' = r /\ saved' = r
    BY <1>13, <2>1, Written DEF ExpireConnection, r
  <2> QED
    BY <1>1, <1>13, <2>1, <2>2, AsgChanges DEF ExpireConnection, Active
<1>14. CASE NetworkChanges
  BY <1>1, <1>14, AsgIdles DEF NetworkChanges
<1>15. CASE SupRestart
  <2>1. supRestarts' \in 0 .. SupRestarts /\ plan' \in Plan
    BY <1>1, <1>15 DEF SupRestart, Plan
  <2> QED
    BY <1>1, <1>2, <1>15, <2>1, AsgIdles DEF SupRestart
<1>16. CASE CrashInSelect
  <2> DEFINE r == [assignment EXCEPT !.state = "revoked"]
  <2>1. r \in Assignment /\ r.state = "revoked" /\ r.config = assignment.config
    BY <1>1 DEF Assignment, State
  <2>2. assignment' = r /\ saved' = r
    BY <1>16 DEF CrashInSelect
  <2> HIDE DEF r
  <2>3. supRestarts' \in 0 .. SupRestarts /\ plan' \in Plan
    BY <1>1, <1>16 DEF CrashInSelect, Plan
  <2> QED
    BY <1>1, <1>2, <1>16, <2>1, <2>2, <2>3, AsgChanges DEF CrashInSelect
<1>17. CASE UNCHANGED supVars
  BY <1>1, <1>17, AsgIdles DEF supVars
<1> QED
  BY <1>3, <1>4, <1>5, <1>6, <1>7, <1>8, <1>9, <1>10, <1>11, <1>12, <1>13, <1>14, <1>15,
     <1>16, <1>17 DEF SupNext

-----------------------------------------------------------------------------
(* The types of the HTTP server *)

Answers == {"none", "saturated", "rejected", "preflight", "unsupported", "answer", "stream"}
LinkRecord == [socket : {"none", "backlog", "open", "shut", "closed"},
               peer : {"away", "silent", "sent", "gone"}, kind : AllHttpKinds,
               closes : Nat, answer : Answers]
CrewRecord == [pc : {"none", "waiting", "done"} \cup Busy, conn : Conn \cup {NoConn}]

\* The types that the steps below need, one by one.
LEMMA HttpTypes ==
    ASSUME HttpTypeOK
    PROVE  /\ link \in [Conn -> LinkRecord] /\ crew \in [HttpWorker -> CrewRecord]
           /\ streams \in [Conn -> {"none", "running", "finished"}]
           /\ connQueue \in Seq(Conn) /\ Len(connQueue) <= HttpDepth /\ Len(connQueue) \in Nat
           /\ inHand \in Conn \cup {NoConn} /\ (inHand # NoConn <=> acceptor = "holding")
           /\ acceptor \in {"none", "binding", "accepting", "holding", "done"}
           /\ phase \in Phases
<1>1. link \in [Conn -> LinkRecord]
  BY DEF HttpTypeOK, LinkRecord, Answers
<1>2. {"none", "waiting", "done"} \cup Busy = {"none", "waiting", "handshake", "report", "refuse",
                                               "reading", "handling", "done"}
  BY DEF Busy
<1>3. crew \in [HttpWorker -> CrewRecord]
  BY <1>2 DEF HttpTypeOK, CrewRecord
<1> QED
  BY <1>1, <1>3, LenProperties DEF HttpTypeOK

\* The same, put together again.
LEMMA TypesTogether ==
    ASSUME link \in [Conn -> LinkRecord], crew \in [HttpWorker -> CrewRecord],
           streams \in [Conn -> {"none", "running", "finished"}],
           connQueue \in Seq(Conn), Len(connQueue) <= HttpDepth,
           inHand \in Conn \cup {NoConn}, inHand # NoConn <=> acceptor = "holding",
           acceptor \in {"none", "binding", "accepting", "holding", "done"},
           phase \in Phases, reports \in Nat,
           isRunning \in BOOLEAN, queueClosed \in BOOLEAN, tls \in BOOLEAN, latched \in BOOLEAN
    PROVE  HttpTypeOK
<1>1. {"none", "waiting", "done"} \cup Busy = {"none", "waiting", "handshake", "report", "refuse",
                                               "reading", "handling", "done"}
  BY DEF Busy
<1>2. crew \in [HttpWorker -> [pc : {"none", "waiting", "handshake", "report", "refuse",
                                     "reading", "handling", "done"}, conn : Conn \cup {NoConn}]]
  BY <1>1 DEF CrewRecord
<1> QED
  BY <1>2 DEF HttpTypeOK, LinkRecord, Answers

\* What closing a socket does to its record.
LEMMA ClosedRecord ==
    ASSUME NEW l \in LinkRecord
    PROVE  /\ Closed(l) \in LinkRecord
           /\ Closed(l).socket = "closed" /\ Closed(l).closes = l.closes + 1
           /\ \A a \in Answers : /\ ClosedWith(l, a) \in LinkRecord
                                 /\ ClosedWith(l, a).socket = "closed"
                                 /\ ClosedWith(l, a).closes = l.closes + 1
<1>1. /\ Closed(l) \in LinkRecord
      /\ Closed(l).socket = "closed" /\ Closed(l).closes = l.closes + 1
  <2> DEFINE k == [l EXCEPT !.closes = l.closes + 1]
  <2>1. k \in LinkRecord /\ k.closes = l.closes + 1
    BY DEF LinkRecord
  <2>2. Closed(l) = [k EXCEPT !.socket = "closed"]
    BY DEF Closed, LinkRecord
  <2> HIDE DEF k
  <2> QED
    BY <2>1, <2>2 DEF LinkRecord
<1>2. \A a \in Answers : /\ [Closed(l) EXCEPT !.answer = a] \in LinkRecord
                         /\ [Closed(l) EXCEPT !.answer = a].socket = "closed"
                         /\ [Closed(l) EXCEPT !.answer = a].closes = l.closes + 1
  BY <1>1 DEF LinkRecord
<1> QED
  BY <1>1, <1>2 DEF ClosedWith

LEMMA SocketRecord ==
    ASSUME NEW l \in LinkRecord, NEW st \in {"none", "backlog", "open", "shut", "closed"}
    PROVE  /\ [l EXCEPT !.socket = st] \in LinkRecord
           /\ [l EXCEPT !.socket = st].socket = st /\ [l EXCEPT !.socket = st].closes = l.closes
  BY DEF LinkRecord

LEMMA AnswerRecord ==
    ASSUME NEW l \in LinkRecord
    PROVE  /\ [l EXCEPT !.answer = "stream"] \in LinkRecord
           /\ [l EXCEPT !.answer = "stream"].socket = l.socket
           /\ [l EXCEPT !.answer = "stream"].closes = l.closes
  BY DEF LinkRecord, Answers

LEMMA CrewRecords ==
    ASSUME crew \in [HttpWorker -> CrewRecord], NEW w \in HttpWorker
    PROVE  /\ \A pc \in {"none", "waiting", "done"} \cup Busy :
                 Goes(w, pc) => /\ crew' \in [HttpWorker -> CrewRecord]
                                /\ crew'[w].pc = pc /\ crew'[w].conn = crew[w].conn
                                /\ \A v \in HttpWorker \ {w} : crew'[v] = crew[v]
           /\ Freed(w) => /\ crew' \in [HttpWorker -> CrewRecord]
                          /\ crew'[w].pc = "waiting" /\ crew'[w].conn = NoConn
                          /\ \A v \in HttpWorker \ {w} : crew'[v] = crew[v]
<1>1. ASSUME NEW pc \in {"none", "waiting", "done"} \cup Busy, Goes(w, pc)
      PROVE  /\ crew' \in [HttpWorker -> CrewRecord]
             /\ crew'[w].pc = pc /\ crew'[w].conn = crew[w].conn
             /\ \A v \in HttpWorker \ {w} : crew'[v] = crew[v]
  <2>1. crew[w] \in CrewRecord
    OBVIOUS
  <2>2. /\ [crew[w] EXCEPT !.pc = pc] \in CrewRecord
        /\ [crew[w] EXCEPT !.pc = pc].pc = pc /\ [crew[w] EXCEPT !.pc = pc].conn = crew[w].conn
    BY <2>1 DEF CrewRecord
  <2> QED
    BY <1>1, <2>2 DEF Goes
<1>2. ASSUME Freed(w)
      PROVE  /\ crew' \in [HttpWorker -> CrewRecord]
             /\ crew'[w].pc = "waiting" /\ crew'[w].conn = NoConn
             /\ \A v \in HttpWorker \ {w} : crew'[v] = crew[v]
  <2>1. /\ [OffDuty EXCEPT !.pc = "waiting"] \in CrewRecord
        /\ [OffDuty EXCEPT !.pc = "waiting"].pc = "waiting"
        /\ [OffDuty EXCEPT !.pc = "waiting"].conn = NoConn
    BY DEF OffDuty, CrewRecord
  <2> QED
    BY <1>2, <2>1 DEF Freed
<1> QED
  BY <1>1, <1>2

LEMMA HttpStarts == HttpInit => HttpInv
<1> SUFFICES ASSUME HttpInit PROVE HttpInv
  OBVIOUS
<1>1. NewLink \in LinkRecord /\ NewLink.socket = "none" /\ NewLink.closes = 0
  BY DEF NewLink, LinkRecord, AllHttpKinds, Answers
<1>2. OffDuty \in CrewRecord /\ OffDuty.pc = "none" /\ OffDuty.conn = NoConn
  BY DEF OffDuty, CrewRecord
<1>3. connQueue \in Seq(Conn) /\ Len(connQueue) = 0 /\ Len(connQueue) <= HttpDepth
  BY HttpAssumption, EmptySeq DEF HttpInit
<1>4. link \in [Conn -> LinkRecord] /\ crew \in [HttpWorker -> CrewRecord]
      /\ streams \in [Conn -> {"none", "running", "finished"}]
  BY <1>1, <1>2 DEF HttpInit
<1>5. inHand \in Conn \cup {NoConn} /\ (inHand # NoConn <=> acceptor = "holding") /\ phase \in Phases
      /\ acceptor \in {"none", "binding", "accepting", "holding", "done"} /\ reports \in Nat
  BY DEF HttpInit, Phases
<1>6. isRunning \in BOOLEAN /\ queueClosed \in BOOLEAN /\ tls \in BOOLEAN /\ latched \in BOOLEAN
  BY DEF HttpInit
<1>7. HttpTypeOK
  BY <1>3, <1>4, <1>5, <1>6, TypesTogether
<1>8. Stages
  BY DEF HttpInit, Stages, QueueIsShut
<1>9. CrewStages
  BY <1>2 DEF HttpInit, CrewStages, CrewIsGone, QueueIsShut, Busy
<1>10. \A c \in Conn : ~Accepted(c) /\ ~Queued(c) /\ ~Served(c)
  BY <1>2, <1>3, HttpAssumption DEF HttpInit, Accepted, Queued, Served
<1>11. SocketsKnown
  BY <1>1, <1>10 DEF HttpInit, SocketsKnown
<1>12. OnePlace
  BY <1>2, <1>3, <1>10, HttpAssumption DEF HttpInit, OnePlace
<1> QED
  BY <1>7, <1>8, <1>9, <1>11, <1>12 DEF HttpInv

-----------------------------------------------------------------------------
(* The places of a socket *)

\* No socket changes its place, and none is accepted or closed.
LEMMA PlacesKept ==
    ASSUME HttpInv, UNCHANGED << inHand, connQueue >>,
           \A w \in HttpWorker : crew'[w].conn = crew[w].conn,
           \A c \in Conn : /\ streams'[c] = "none" <=> streams[c] = "none"
                           /\ link'[c].socket \in {"open", "shut"} <=> link[c].socket \in {"open", "shut"}
                           /\ link'[c].socket = "closed" <=> link[c].socket = "closed"
                           /\ link'[c].closes = link[c].closes
                           /\ link'[c].socket = "backlog" => isRunning' /\ acceptor' # "binding"
    PROVE  SocketsKnown' /\ OnePlace'
<1>1. \A c \in Conn : /\ Queued(c)' <=> Queued(c)
                      /\ Served(c)' <=> Served(c)
  BY DEF Queued, Served
<1>2. \A c \in Conn : Accepted(c)' <=> Accepted(c)
  BY <1>1 DEF Accepted
<1>3. SocketsKnown'
  BY <1>2 DEF HttpInv, SocketsKnown
<1>4. OnePlace'
  BY <1>1 DEF HttpInv, OnePlace
<1> QED
  BY <1>3, <1>4

\* What a place holds stands in no other.
LEMMA OneHolder ==
    ASSUME HttpInv
    PROVE  /\ NoConn \notin Conn
           /\ \A c \in Conn : link[c].socket \in {"none", "backlog", "closed"} => ~Accepted(c)
           /\ \A w \in HttpWorker : crew[w].conn # NoConn =>
                 /\ crew[w].conn \in Conn /\ Accepted(crew[w].conn)
                 /\ link[crew[w].conn].socket \in {"open", "shut"} /\ link[crew[w].conn].closes = 0
                 /\ inHand # crew[w].conn /\ ~Queued(crew[w].conn) /\ streams[crew[w].conn] = "none"
                 /\ \A v \in HttpWorker : crew[v].conn = crew[w].conn => v = w
           /\ inHand # NoConn =>
                 /\ inHand \in Conn /\ Accepted(inHand)
                 /\ link[inHand].socket \in {"open", "shut"} /\ link[inHand].closes = 0
                 /\ ~Queued(inHand) /\ ~Served(inHand) /\ streams[inHand] = "none"
           /\ connQueue # << >> =>
                 /\ Head(connQueue) \in Conn /\ Queued(Head(connQueue))
                 /\ inHand # Head(connQueue) /\ ~Served(Head(connQueue))
                 /\ streams[Head(connQueue)] = "none"
<1>1. HttpTypeOK /\ SocketsKnown /\ OnePlace
  BY DEF HttpInv
<1>2. /\ crew \in [HttpWorker -> CrewRecord] /\ inHand \in Conn \cup {NoConn}
      /\ link \in [Conn -> LinkRecord] /\ connQueue \in Seq(Conn)
  BY <1>1, HttpTypes
<1>3. \A c \in Conn : link[c].socket \in {"none", "backlog", "closed"} => ~Accepted(c)
  BY <1>1, <1>2 DEF SocketsKnown
<1>4. \A c \in Conn : Accepted(c) => link[c].socket \in {"open", "shut"} /\ link[c].closes = 0
  BY <1>1, <1>2 DEF SocketsKnown
<1>5. ASSUME NEW w \in HttpWorker, crew[w].conn # NoConn
      PROVE  /\ crew[w].conn \in Conn /\ Accepted(crew[w].conn)
             /\ inHand # crew[w].conn /\ ~Queued(crew[w].conn) /\ streams[crew[w].conn] = "none"
             /\ \A v \in HttpWorker : crew[v].conn = crew[w].conn => v = w
  <2>1. crew[w].conn \in Conn
    BY <1>2, <1>5 DEF CrewRecord
  <2>2. Served(crew[w].conn)
    BY DEF Served
  <2> QED
    BY <1>1, <1>5, <2>1, <2>2 DEF OnePlace, Accepted
<1>6. ASSUME inHand # NoConn
      PROVE  /\ inHand \in Conn /\ Accepted(inHand)
             /\ ~Queued(inHand) /\ ~Served(inHand) /\ streams[inHand] = "none"
  BY <1>1, <1>2, <1>6 DEF OnePlace, Accepted
<1>7. ASSUME connQueue # << >>
      PROVE  /\ Head(connQueue) \in Conn /\ Queued(Head(connQueue))
             /\ inHand # Head(connQueue) /\ ~Served(Head(connQueue))
             /\ streams[Head(connQueue)] = "none"
  <2>1. Head(connQueue) \in Conn /\ Head(connQueue) = connQueue[1] /\ 1 \in 1 .. Len(connQueue)
    BY <1>2, <1>7, EmptySeq, HeadTailProperties, LenProperties
  <2>2. Queued(Head(connQueue))
    BY <2>1 DEF Queued
  <2> QED
    BY <1>1, <2>1, <2>2 DEF OnePlace
<1> QED
  BY <1>3, <1>4, <1>5, <1>6, <1>7, HttpAssumption

\* A worker closes the socket it serves, and is free.
LEMMA WorkerCloses ==
    ASSUME HttpInv, NEW w \in HttpWorker, crew[w].conn # NoConn, Freed(w),
           UNCHANGED << inHand, connQueue, streams, isRunning, acceptor >>,
           NEW l \in LinkRecord, l.socket = "closed", l.closes = link[crew[w].conn].closes + 1,
           link' = [link EXCEPT ![crew[w].conn] = l]
    PROVE  /\ link' \in [Conn -> LinkRecord]
           /\ SocketsKnown' /\ OnePlace'
<1> DEFINE c == crew[w].conn
<1>1. /\ link \in [Conn -> LinkRecord] /\ crew \in [HttpWorker -> CrewRecord]
  BY HttpTypes DEF HttpInv
<1>2. /\ c \in Conn /\ Accepted(c) /\ link[c].closes = 0 /\ NoConn \notin Conn
      /\ inHand # c /\ ~Queued(c) /\ streams[c] = "none"
      /\ \A v \in HttpWorker : crew[v].conn = c => v = w
  BY OneHolder
<1>3. crew'[w].conn = NoConn /\ \A v \in HttpWorker \ {w} : crew'[v] = crew[v]
  BY <1>1, CrewRecords
<1>4. /\ link' \in [Conn -> LinkRecord] /\ link'[c].socket = "closed" /\ link'[c].closes = 1
      /\ \A d \in Conn \ {c} : link'[d] = link[d]
  BY <1>1, <1>2
<1> HIDE DEF c
<1>5. \A d \in Conn : /\ Queued(d)' <=> Queued(d)
                      /\ Served(d)' <=> Served(d) /\ d # c
  <2>1. \A d \in Conn : Queued(d)' <=> Queued(d)
    BY DEF Queued
  <2>2. \A d \in Conn : Served(d)' <=> Served(d) /\ d # c
    BY <1>2, <1>3 DEF Served, c
  <2> QED
    BY <2>1, <2>2
<1>6. \A d \in Conn : Accepted(d)' <=> Accepted(d) /\ d # c
  BY <1>2, <1>5 DEF Accepted
<1>7. SocketsKnown'
  <2>1. SocketsKnown
    BY DEF HttpInv
  <2> QED
    BY <1>4, <1>6, <2>1 DEF SocketsKnown
<1>8. OnePlace'
  <2>1. OnePlace
    BY DEF HttpInv
  <2>2. \A v, u \in HttpWorker : crew'[v].conn # NoConn /\ crew'[v].conn = crew'[u].conn => v = u
    BY <1>3, <2>1 DEF OnePlace
  <2> QED
    BY <1>5, <2>1, <2>2 DEF OnePlace
<1> QED
  BY <1>4, <1>7, <1>8

-----------------------------------------------------------------------------
(* What most steps leave alone *)

LEMMA StepTyped ==
    ASSUME link' \in [Conn -> LinkRecord], crew' \in [HttpWorker -> CrewRecord],
           streams' \in [Conn -> {"none", "running", "finished"}],
           connQueue' \in Seq(Conn), Len(connQueue') <= HttpDepth,
           inHand' \in Conn \cup {NoConn}, inHand' # NoConn <=> acceptor' = "holding",
           acceptor' \in {"none", "binding", "accepting", "holding", "done"},
           phase' \in Phases, reports' \in Nat,
           isRunning' \in BOOLEAN, queueClosed' \in BOOLEAN, tls' \in BOOLEAN, latched' \in BOOLEAN
    PROVE  HttpTypeOK'
<1>1. {"none", "waiting", "done"} \cup Busy = {"none", "waiting", "handshake", "report", "refuse",
                                               "reading", "handling", "done"}
  BY DEF Busy
<1>2. crew' \in [HttpWorker -> [pc : {"none", "waiting", "handshake", "report", "refuse",
                                      "reading", "handling", "done"}, conn : Conn \cup {NoConn}]]
  BY <1>1 DEF CrewRecord
<1>3. link' \in [Conn -> [socket : {"none", "backlog", "open", "shut", "closed"},
                          peer : {"away", "silent", "sent", "gone"}, kind : AllHttpKinds,
                          closes : Nat,
                          answer : {"none", "saturated", "rejected", "preflight",
                                    "unsupported", "answer", "stream"}]]
  BY DEF LinkRecord, Answers
<1> QED
  BY <1>2, <1>3 DEF HttpTypeOK

LEMMA Flags ==
    ASSUME HttpTypeOK
    PROVE  /\ isRunning \in BOOLEAN /\ queueClosed \in BOOLEAN
           /\ tls \in BOOLEAN /\ latched \in BOOLEAN /\ reports \in Nat
  BY DEF HttpTypeOK

\* A step of a worker, a stream or a client.
LEMMA ThreadTyped ==
    ASSUME HttpTypeOK, UNCHANGED << phase, isRunning, acceptor, inHand, queueClosed, tls >>,
           connQueue' \in Seq(Conn), Len(connQueue') <= HttpDepth,
           latched' \in BOOLEAN, reports' \in Nat,
           link' \in [Conn -> LinkRecord], crew' \in [HttpWorker -> CrewRecord],
           streams' \in [Conn -> {"none", "running", "finished"}]
    PROVE  HttpTypeOK'
  BY HttpTypes, Flags, StepTyped

\* A step that leaves the connections alone.
LEMMA ControlTyped ==
    ASSUME HttpTypeOK, UNCHANGED << connQueue, inHand, streams, link, latched, reports >>,
           phase' \in Phases, acceptor' \in {"none", "binding", "accepting", "done"},
           acceptor # "holding" \/ acceptor' = acceptor,
           crew' \in [HttpWorker -> CrewRecord],
           isRunning' \in BOOLEAN, queueClosed' \in BOOLEAN, tls' \in BOOLEAN
    PROVE  HttpTypeOK'
<1>1. inHand' # NoConn <=> acceptor' = "holding"
  BY HttpTypes
<1> QED
  BY <1>1, HttpTypes, Flags, StepTyped

LEMMA StagesKept ==
    ASSUME HttpInv, UNCHANGED << phase, isRunning, acceptor, queueClosed >>,
           connQueue' = connQueue \/ phase \in {"joinWorkers", "closeQueued"} \/ connQueue # << >>,
           phase = "stopped" => streams' = streams
    PROVE  Stages'
  BY DEF HttpInv, Stages

\* One worker moves to another place in its loop.
LEMMA CrewMoves ==
    ASSUME HttpInv, NEW w \in HttpWorker, UNCHANGED << phase, queueClosed >>,
           crew' \in [HttpWorker -> CrewRecord], \A v \in HttpWorker \ {w} : crew'[v] = crew[v],
           crew[w].pc \notin {"none", "done"}, crew'[w].pc # "none",
           crew'[w].pc = "done" => queueClosed,
           crew'[w].conn # NoConn <=> crew'[w].pc \in Busy
    PROVE  CrewStages'
  BY DEF HttpInv, CrewStages

LEMMA CrewKept ==
    ASSUME HttpInv, UNCHANGED << phase, queueClosed, crew >>
    PROVE  CrewStages'
  BY DEF HttpInv, CrewStages

-----------------------------------------------------------------------------
(* The owner: start() and stop() *)

LEMMA OwnerKeeps ==
    ASSUME HttpInv, Start \/ Stop \/ OwnerStep
    PROVE  HttpInv'
<1>1. HttpTypeOK /\ Stages /\ CrewStages /\ SocketsKnown /\ OnePlace
  BY DEF HttpInv
<1>2. /\ link \in [Conn -> LinkRecord] /\ crew \in [HttpWorker -> CrewRecord]
      /\ streams \in [Conn -> {"none", "running", "finished"}] /\ phase \in Phases
      /\ connQueue \in Seq(Conn) /\ inHand \in Conn \cup {NoConn}
      /\ acceptor \in {"none", "binding", "accepting", "holding", "done"}
  BY <1>1, HttpTypes
<1>3. CASE Start
  <2>1. \A w \in HttpWorker : crew'[w].conn = NoConn /\ crew'[w].pc = "waiting"
    BY <1>3 DEF Start, OffDuty
  <2>2. crew' \in [HttpWorker -> CrewRecord]
    BY <1>3 DEF Start, OffDuty, CrewRecord
  <2>3. phase' \in Phases /\ acceptor' = "binding" /\ acceptor = "none"
    BY <1>1, <1>3 DEF Start, Phases, Stages
  <2>4. HttpTypeOK'
    BY <1>1, <1>3, <2>2, <2>3, Flags, ControlTyped DEF Start
  <2>5. Stages'
    BY <1>1, <1>3 DEF Start, Stages, QueueIsShut
  <2>6. CrewStages'
    BY <1>3, <2>1 DEF Start, CrewStages, CrewIsGone, QueueIsShut, Busy
  <2>7. \A w \in HttpWorker : crew[w].conn = NoConn
    BY <1>1, <1>3 DEF Start, CrewStages, Busy
  <2>8. \A c \in Conn : link[c].socket # "backlog"
    BY <1>1, <1>3 DEF Start, Stages, SocketsKnown
  <2>9. SocketsKnown' /\ OnePlace'
    BY <1>3, <2>1, <2>7, <2>8, PlacesKept DEF Start
  <2> QED
    BY <2>4, <2>5, <2>6, <2>9 DEF HttpInv
<1>4. CASE Stop
  <2>1. \A c \in Conn : [link[c] EXCEPT !.socket = "none"] \in LinkRecord
                        /\ [link[c] EXCEPT !.socket = "none"].socket = "none"
                        /\ [link[c] EXCEPT !.socket = "none"].closes = link[c].closes
    BY <1>2, SocketRecord
  <2>2. /\ link' \in [Conn -> LinkRecord]
        /\ \A c \in Conn : /\ link'[c].socket = IF link[c].socket = "backlog" THEN "none" ELSE link[c].socket
                           /\ link'[c].closes = link[c].closes
    BY <1>2, <1>4, <2>1 DEF Stop
  <2>3. phase' \in Phases /\ UNCHANGED << inHand, acceptor, connQueue, streams, crew >>
    BY <1>4 DEF Stop, Phases
  <2>4. HttpTypeOK'
    BY <1>1, <1>4, <2>2, <2>3, HttpTypes, Flags, StepTyped DEF Stop
  <2>5. Stages'
    BY <1>1, <1>4 DEF Stop, Stages, QueueIsShut
  <2>6. CrewStages'
    BY <1>1, <1>4 DEF Stop, CrewStages, CrewIsGone, QueueIsShut
  <2>7. SocketsKnown' /\ OnePlace'
    BY <2>2, <2>3, PlacesKept
  <2> QED
    BY <2>4, <2>5, <2>6, <2>7 DEF HttpInv
<1>5. CASE Started
  <2>1. phase' \in Phases
    BY <1>5 DEF Started, Phases
  <2>2. HttpTypeOK'
    BY <1>1, <1>2, <1>5, <2>1, HttpTypes, Flags, StepTyped DEF Started
  <2>3. Stages'
    BY <1>1, <1>5 DEF Started, Stages, QueueIsShut
  <2>4. CrewStages'
    BY <1>1, <1>5 DEF Started, CrewStages, CrewIsGone, QueueIsShut
  <2>5. SocketsKnown' /\ OnePlace'
    BY <1>1, <1>5, PlacesKept DEF Started, SocketsKnown
  <2> QED
    BY <2>2, <2>3, <2>4, <2>5 DEF HttpInv
<1>6. CASE AcceptJoined
  <2>1. phase' \in Phases
    BY <1>6 DEF AcceptJoined, Phases
  <2>2. HttpTypeOK'
    BY <1>1, <1>2, <1>6, <2>1, HttpTypes, Flags, StepTyped DEF AcceptJoined
  <2>3. Stages'
    BY <1>1, <1>6 DEF AcceptJoined, Stages, QueueIsShut
  <2>4. CrewStages'
    BY <1>1, <1>6 DEF AcceptJoined, CrewStages, CrewIsGone, QueueIsShut
  <2>5. SocketsKnown' /\ OnePlace'
    BY <1>1, <1>6, PlacesKept DEF AcceptJoined, SocketsKnown
  <2> QED
    BY <2>2, <2>3, <2>4, <2>5 DEF HttpInv
<1>7. CASE WorkersJoined
  <2>1. phase' \in Phases
    BY <1>7 DEF WorkersJoined, Phases
  <2>2. HttpTypeOK'
    BY <1>1, <1>2, <1>7, <2>1, HttpTypes, Flags, StepTyped DEF WorkersJoined
  <2>3. Stages'
    BY <1>1, <1>7 DEF WorkersJoined, Stages, QueueIsShut
  <2>4. CrewStages'
    BY <1>1, <1>7 DEF WorkersJoined, CrewStages, CrewIsGone, QueueIsShut
  <2>5. SocketsKnown' /\ OnePlace'
    BY <1>1, <1>7, PlacesKept DEF WorkersJoined, SocketsKnown
  <2> QED
    BY <2>2, <2>3, <2>4, <2>5 DEF HttpInv
<1>8. CASE ShutStreams
  <2>1. \A c \in Conn : /\ [link[c] EXCEPT !.socket = "shut"] \in LinkRecord
                        /\ [link[c] EXCEPT !.socket = "shut"].socket = "shut"
                        /\ [link[c] EXCEPT !.socket = "shut"].closes = link[c].closes
    BY <1>2, SocketRecord
  <2>2. link' \in [Conn -> LinkRecord]
    BY <1>2, <1>8, <2>1 DEF ShutStreams
  <2>3. \A c \in Conn : streams[c] = "running" => link[c].socket \in {"open", "shut"}
    BY <1>1 DEF SocketsKnown, Accepted
  <2>4. \A c \in Conn : /\ link'[c].closes = link[c].closes
                        /\ link'[c].socket = link[c].socket
                           \/ (link'[c].socket = "shut" /\ link[c].socket \in {"open", "shut"})
    BY <1>2, <1>8, <2>1, <2>3 DEF ShutStreams
  <2>5. phase' \in Phases /\ UNCHANGED << isRunning, acceptor, inHand, connQueue, queueClosed,
                                          crew, streams, tls, latched, reports >>
    BY <1>8 DEF ShutStreams, Phases
  <2>6. HttpTypeOK'
    BY <1>1, <1>2, <2>2, <2>5, HttpTypes, Flags, StepTyped
  <2>7. Stages'
    BY <1>1, <1>8 DEF ShutStreams, Stages, QueueIsShut
  <2>8. CrewStages'
    BY <1>1, <1>8 DEF ShutStreams, CrewStages, CrewIsGone, QueueIsShut
  <2>9. SocketsKnown' /\ OnePlace'
    BY <1>1, <2>4, <2>5, PlacesKept DEF SocketsKnown
  <2> QED
    BY <2>6, <2>7, <2>8, <2>9 DEF HttpInv
<1>9. CASE CloseQueued
  <2>1. UNCHANGED << isRunning, acceptor, inHand, queueClosed, crew, streams, tls, latched, reports >>
        /\ phase = "closeQueued" /\ phase' = "shutStreams" /\ phase' \in Phases
    BY <1>9 DEF CloseQueued, Phases
  <2>2. connQueue' \in Seq(Conn) /\ Len(connQueue') = 0 /\ Len(connQueue') <= HttpDepth
        /\ connQueue' = << >>
    BY <1>9, EmptySeq, HttpAssumption DEF CloseQueued
  <2>3. \A c \in Conn : c \in ToSet(connQueue) <=> Queued(c)
    BY <1>2 DEF ToSet, Queued
  <2>4. \A c \in Conn : /\ Closed(link[c]) \in LinkRecord
                        /\ Closed(link[c]).socket = "closed"
                        /\ Closed(link[c]).closes = link[c].closes + 1
    BY <1>2, ClosedRecord
  <2>5. link' = [c \in Conn |-> IF Queued(c) THEN Closed(link[c]) ELSE link[c]]
    BY <1>9, <2>3 DEF CloseQueued
  <2>6. link' \in [Conn -> LinkRecord]
    BY <1>2, <2>4, <2>5
  <2>7. HttpTypeOK'
    BY <1>1, <1>2, <2>1, <2>2, <2>6, HttpTypes, Flags, StepTyped
  <2>8. Stages'
    BY <1>1, <2>1, <2>2 DEF Stages, QueueIsShut
  <2>9. CrewStages'
    BY <1>1, <2>1 DEF CrewStages, CrewIsGone, QueueIsShut
  <2>10. \A c \in Conn : ~Queued(c)' /\ (Served(c)' <=> Served(c))
    BY <2>1, <2>2 DEF Queued, Served
  <2>11. OnePlace'
    BY <1>1, <2>1, <2>2, <2>10 DEF OnePlace
  <2>12. \A c \in Conn : Accepted(c)' <=> Accepted(c) /\ ~Queued(c)
    BY <1>1, <2>1, <2>10 DEF Accepted, OnePlace
  <2>13. \A c \in Conn : Queued(c) => link[c].closes = 0
    BY <1>1 DEF SocketsKnown, Accepted
  <2>14. SocketsKnown'
    <3> SUFFICES ASSUME NEW c \in Conn
                 PROVE  /\ link'[c].socket \in {"open", "shut"} <=> Accepted(c)'
                        /\ link'[c].closes = IF link'[c].socket = "closed" THEN 1 ELSE 0
                        /\ link'[c].socket = "backlog" => isRunning' /\ acceptor' # "binding"
      BY DEF SocketsKnown
    <3>1. CASE Queued(c)
      BY <2>4, <2>5, <2>12, <2>13, <3>1
    <3>2. CASE ~Queued(c)
      BY <1>1, <2>1, <2>5, <2>12, <3>2 DEF SocketsKnown
    <3> QED
      BY <3>1, <3>2
  <2> QED
    BY <2>7, <2>8, <2>9, <2>11, <2>14 DEF HttpInv
<1>10. CASE StreamsJoined
  <2>1. UNCHANGED << isRunning, acceptor, inHand, connQueue, queueClosed, crew, latched, reports >>
        /\ phase = "joinStreams" /\ phase' = "stopped" /\ phase' \in Phases
    BY <1>10 DEF StreamsJoined, Phases
  <2>2. streams' \in [Conn -> {"none", "running", "finished"}] /\ \A c \in Conn : streams'[c] = "none"
    BY <1>10 DEF StreamsJoined
  <2>3. \A c \in Conn : streams[c] \in {"none", "finished"}
    BY <1>2, <1>10 DEF StreamsJoined
  <2>4. \A c \in Conn : /\ Closed(link[c]) \in LinkRecord
                        /\ Closed(link[c]).socket = "closed"
                        /\ Closed(link[c]).closes = link[c].closes + 1
    BY <1>2, ClosedRecord
  <2>5. /\ link' = [c \in Conn |-> IF streams[c] = "finished" THEN Closed(link[c]) ELSE link[c]]
        /\ tls' \in BOOLEAN
    BY <1>10 DEF StreamsJoined
  <2>6. link' \in [Conn -> LinkRecord]
    BY <1>2, <2>4, <2>5
  <2>7. HttpTypeOK'
    BY <1>1, <1>2, <2>1, <2>2, <2>5, <2>6, HttpTypes, Flags, StepTyped
  <2>8. Stages'
    BY <1>1, <2>1, <2>2 DEF Stages, QueueIsShut
  <2>9. CrewStages'
    BY <1>1, <2>1 DEF CrewStages, CrewIsGone, QueueIsShut
  <2>10. \A c \in Conn : (Queued(c)' <=> Queued(c)) /\ (Served(c)' <=> Served(c))
    BY <2>1 DEF Queued, Served
  <2>11. OnePlace'
    BY <1>1, <2>1, <2>2, <2>10 DEF OnePlace
  <2>12. \A c \in Conn : Accepted(c)' <=> Accepted(c) /\ streams[c] = "none"
    BY <1>1, <2>1, <2>2, <2>10 DEF Accepted, OnePlace
  <2>13. \A c \in Conn : streams[c] # "none" => link[c].closes = 0
    BY <1>1 DEF SocketsKnown, Accepted
  <2>14. SocketsKnown'
    <3> SUFFICES ASSUME NEW c \in Conn
                 PROVE  /\ link'[c].socket \in {"open", "shut"} <=> Accepted(c)'
                        /\ link'[c].closes = IF link'[c].socket = "closed" THEN 1 ELSE 0
                        /\ link'[c].socket = "backlog" => isRunning' /\ acceptor' # "binding"
      BY DEF SocketsKnown
    <3>1. CASE streams[c] = "finished"
      BY <2>4, <2>5, <2>12, <2>13, <3>1
    <3>2. CASE streams[c] = "none"
      BY <1>1, <2>1, <2>5, <2>12, <3>2 DEF SocketsKnown
    <3> QED
      BY <2>3, <3>1, <3>2
  <2> QED
    BY <2>7, <2>8, <2>9, <2>11, <2>14 DEF HttpInv
<1> QED
  BY <1>3, <1>4, <1>5, <1>6, <1>7, <1>8, <1>9, <1>10 DEF OwnerStep

-----------------------------------------------------------------------------
(* The accept thread *)

LEMMA AcceptThreadKeeps ==
    ASSUME HttpInv, AcceptThread
    PROVE  HttpInv'
<1>1. HttpTypeOK /\ Stages /\ CrewStages /\ SocketsKnown /\ OnePlace
  BY DEF HttpInv
<1>2. /\ link \in [Conn -> LinkRecord] /\ crew \in [HttpWorker -> CrewRecord]
      /\ streams \in [Conn -> {"none", "running", "finished"}] /\ phase \in Phases
      /\ connQueue \in Seq(Conn) /\ Len(connQueue) \in Nat /\ inHand \in Conn \cup {NoConn}
      /\ inHand # NoConn <=> acceptor = "holding"
      /\ NoConn \notin Conn
  BY <1>1, HttpTypes, HttpAssumption
<1>3. CASE Bind \/ LeaveAcceptLoop
  <2>1. UNCHANGED << phase, inHand, connQueue, queueClosed, crew, streams, tls, latched, reports, link >>
        /\ acceptor \in {"binding", "accepting"} /\ acceptor' \in {"accepting", "done"}
    BY <1>3 DEF Bind, LeaveAcceptLoop
  <2>2. isRunning' \in BOOLEAN
    BY <1>1, <1>3, Flags DEF Bind, LeaveAcceptLoop
  <2>3. HttpTypeOK'
    BY <1>1, <2>1, <2>2, HttpTypes, Flags, ControlTyped
  <2>4. Stages'
    <3>1. CASE Bind
      BY <1>1, <3>1 DEF Bind, Stages, QueueIsShut
    <3>2. CASE LeaveAcceptLoop
      BY <1>1, <3>2 DEF LeaveAcceptLoop, Stages, QueueIsShut
    <3> QED
      BY <1>3, <3>1, <3>2
  <2>5. CrewStages'
    BY <2>1, CrewKept
  <2>6. \A c \in Conn : link[c].socket = "backlog" => isRunning' /\ acceptor' # "binding"
    <3>1. CASE acceptor = "binding"
      BY <1>1, <3>1 DEF SocketsKnown
    <3>2. CASE acceptor = "accepting"
      BY <1>1, <1>3, <3>2 DEF Bind, LeaveAcceptLoop, SocketsKnown
    <3> QED
      BY <2>1, <3>1, <3>2
  <2>7. SocketsKnown' /\ OnePlace'
    BY <2>1, <2>6, PlacesKept
  <2> QED
    BY <2>3, <2>4, <2>5, <2>7 DEF HttpInv
<1>4. CASE DispatchClient
  <2>1. /\ acceptor = "holding" /\ acceptor' = "accepting" /\ inHand' = NoConn
        /\ UNCHANGED << phase, isRunning, queueClosed, crew, streams, tls, latched, reports >>
    BY <1>4 DEF DispatchClient
  <2>2. /\ inHand \in Conn /\ Accepted(inHand) /\ link[inHand].closes = 0
        /\ link[inHand].socket \in {"open", "shut"}
        /\ ~Queued(inHand) /\ ~Served(inHand) /\ streams[inHand] = "none"
    BY <1>2, <2>1, OneHolder
  <2>3. \A c \in Conn : Served(c)' <=> Served(c)
    BY <2>1 DEF Served
  <2>4. CrewStages'
    BY <2>1, CrewKept
  <2>5. CASE ~queueClosed /\ Len(connQueue) < HttpDepth
    <3>1. connQueue' = Append(connQueue, inHand) /\ link' = link
      BY <1>4, <2>5 DEF DispatchClient
    <3>2. /\ connQueue' \in Seq(Conn) /\ Len(connQueue') = Len(connQueue) + 1
          /\ connQueue'[Len(connQueue) + 1] = inHand
          /\ \A i \in 1 .. Len(connQueue) : connQueue'[i] = connQueue[i]
      BY <1>2, <2>2, <3>1, AppendProperties
    <3>3. Len(connQueue') <= HttpDepth
      BY <1>2, <2>5, <3>2, HttpAssumption
    <3>4. HttpTypeOK'
      BY <1>1, <1>2, <2>1, <3>1, <3>2, <3>3, HttpTypes, Flags, StepTyped
    <3>5. Stages'
      BY <1>1, <2>1, <2>5 DEF Stages, QueueIsShut
    <3>6. \A c \in Conn : Queued(c)' <=> Queued(c) \/ c = inHand
      <4> SUFFICES ASSUME NEW c \in Conn PROVE Queued(c)' <=> Queued(c) \/ c = inHand
        OBVIOUS
      <4>1. Queued(c)' => Queued(c) \/ c = inHand
        BY <1>2, <3>2 DEF Queued
      <4>2. Queued(c) => Queued(c)'
        BY <1>2, <3>2 DEF Queued
      <4>3. c = inHand => Queued(c)'
        <5>1. Len(connQueue) + 1 \in 1 .. Len(connQueue')
          BY <1>2, <3>2
        <5> QED
          BY <3>2, <5>1 DEF Queued
      <4> QED
        BY <4>1, <4>2, <4>3
    <3>7. \A c \in Conn : Accepted(c)' <=> Accepted(c)
      BY <1>2, <2>1, <2>3, <3>6 DEF Accepted
    <3>8. SocketsKnown'
      BY <1>1, <2>1, <3>1, <3>7 DEF SocketsKnown
    <3>9. \A i, j \in 1 .. Len(connQueue') : connQueue'[i] = connQueue'[j] => i = j
      <4>1. \A i \in 1 .. Len(connQueue) : connQueue[i] # inHand
        BY <2>2 DEF Queued
      <4>2. \A i, j \in 1 .. Len(connQueue) : connQueue[i] = connQueue[j] => i = j
        BY <1>1 DEF OnePlace
      <4>3. \A i \in 1 .. Len(connQueue') : i \in 1 .. Len(connQueue) \/ i = Len(connQueue) + 1
        BY <1>2, <3>2
      <4> QED
        BY <3>2, <4>1, <4>2, <4>3
    <3>10. OnePlace'
      <4>1. \A c \in Conn : /\ Queued(c)' => ~Served(c)' /\ streams'[c] = "none"
                            /\ Served(c)' => streams'[c] = "none"
                            /\ inHand' # c
        BY <1>1, <1>2, <2>1, <2>2, <2>3, <3>6 DEF OnePlace
      <4>2. \A v, w \in HttpWorker : crew'[v].conn # NoConn /\ crew'[v].conn = crew'[w].conn => v = w
        BY <1>1, <2>1 DEF OnePlace
      <4> QED
        BY <3>9, <4>1, <4>2 DEF OnePlace
    <3> QED
      BY <2>4, <3>4, <3>5, <3>8, <3>10 DEF HttpInv
  <2>6. CASE ~(~queueClosed /\ Len(connQueue) < HttpDepth)
    <3>1. connQueue' = connQueue
          /\ link' = [link EXCEPT ![inHand] = ClosedWith(link[inHand], "saturated")]
      BY <1>4, <2>6 DEF DispatchClient
    <3>2. link[inHand] \in LinkRecord /\ "saturated" \in Answers
      BY <1>2, <2>2 DEF Answers
    <3>3. ClosedWith(link[inHand], "saturated") \in LinkRecord
          /\ ClosedWith(link[inHand], "saturated").socket = "closed"
          /\ ClosedWith(link[inHand], "saturated").closes = 1
      BY <2>2, <3>2, ClosedRecord
    <3>4. /\ link' \in [Conn -> LinkRecord]
          /\ link'[inHand].socket = "closed" /\ link'[inHand].closes = 1
          /\ \A c \in Conn \ {inHand} : link'[c] = link[c]
      BY <1>2, <2>2, <3>1, <3>3
    <3>5. HttpTypeOK'
      BY <1>1, <1>2, <2>1, <3>1, <3>4, HttpTypes, Flags, StepTyped
    <3>6. Stages'
      BY <1>1, <2>1, <3>1 DEF Stages, QueueIsShut
    <3>7. \A c \in Conn : Queued(c)' <=> Queued(c)
      BY <3>1 DEF Queued
    <3>8. \A c \in Conn : Accepted(c)' <=> Accepted(c) /\ c # inHand
      BY <1>2, <2>1, <2>2, <2>3, <3>7 DEF Accepted
    <3>9. SocketsKnown'
      BY <1>1, <2>1, <2>2, <3>4, <3>8 DEF SocketsKnown
    <3>10. OnePlace'
      <4>1. \A c \in Conn : /\ Queued(c)' => ~Served(c)' /\ streams'[c] = "none"
                            /\ Served(c)' => streams'[c] = "none"
                            /\ inHand' # c
        BY <1>1, <1>2, <2>1, <2>3, <3>7 DEF OnePlace
      <4>2. /\ \A v, w \in HttpWorker : crew'[v].conn # NoConn /\ crew'[v].conn = crew'[w].conn => v = w
            /\ \A i, j \in 1 .. Len(connQueue') : connQueue'[i] = connQueue'[j] => i = j
        BY <1>1, <2>1, <3>1 DEF OnePlace
      <4> QED
        BY <4>1, <4>2 DEF OnePlace
    <3> QED
      BY <2>4, <3>5, <3>6, <3>9, <3>10 DEF HttpInv
  <2> QED
    BY <2>5, <2>6
<1>5. ASSUME NEW c \in Conn, Accept(c) PROVE HttpInv'
  <2>1. /\ acceptor = "accepting" /\ acceptor' = "holding" /\ inHand = NoConn /\ inHand' = c
        /\ link[c].socket = "backlog"
        /\ UNCHANGED << phase, isRunning, connQueue, queueClosed, crew, streams, tls, latched, reports >>
    BY <1>2, <1>5 DEF Accept
  <2>2. ~Accepted(c)
    BY <2>1, OneHolder
  <2>3. link[c] \in LinkRecord
    BY <1>2
  <2>4. /\ link' \in [Conn -> LinkRecord]
        /\ link'[c].socket = "open" /\ link'[c].closes = link[c].closes
        /\ \A d \in Conn \ {c} : link'[d] = link[d]
    <3>1. /\ [link[c] EXCEPT !.socket = "open"] \in LinkRecord
          /\ [link[c] EXCEPT !.socket = "open"].socket = "open"
          /\ [link[c] EXCEPT !.socket = "open"].closes = link[c].closes
      BY <2>3, SocketRecord
    <3>2. link' = [link EXCEPT ![c] = [link[c] EXCEPT !.socket = "open"]]
      BY <1>2, <1>5 DEF Accept
    <3> QED
      BY <1>2, <3>1, <3>2
  <2>5. HttpTypeOK'
    BY <1>1, <1>2, <2>1, <2>4, HttpTypes, Flags, StepTyped
  <2>6. Stages'
    BY <1>1, <2>1 DEF Stages, QueueIsShut
  <2>7. CrewStages'
    BY <2>1, CrewKept
  <2>8. \A d \in Conn : (Queued(d)' <=> Queued(d)) /\ (Served(d)' <=> Served(d))
    BY <2>1 DEF Queued, Served
  <2>9. \A d \in Conn : Accepted(d)' <=> Accepted(d) \/ d = c
    BY <1>2, <2>1, <2>8 DEF Accepted
  <2>10. SocketsKnown'
    BY <1>1, <2>1, <2>4, <2>9 DEF SocketsKnown
  <2>11. OnePlace'
    <3>1. \A d \in Conn : /\ inHand' = d => ~Queued(d)' /\ ~Served(d)' /\ streams'[d] = "none"
                          /\ Queued(d)' => ~Served(d)' /\ streams'[d] = "none"
                          /\ Served(d)' => streams'[d] = "none"
      BY <1>1, <2>1, <2>2, <2>8 DEF OnePlace, Accepted
    <3>2. /\ \A v, w \in HttpWorker : crew'[v].conn # NoConn /\ crew'[v].conn = crew'[w].conn => v = w
          /\ \A i, j \in 1 .. Len(connQueue') : connQueue'[i] = connQueue'[j] => i = j
      BY <1>1, <2>1 DEF OnePlace
    <3> QED
      BY <3>1, <3>2 DEF OnePlace
  <2> QED
    BY <2>5, <2>6, <2>7, <2>10, <2>11 DEF HttpInv
<1> QED
  BY <1>3, <1>4, <1>5 DEF AcceptThread

-----------------------------------------------------------------------------
(* The workers *)

\* The worker takes the oldest socket of the queue.
LEMMA WorkerTakes ==
    ASSUME HttpInv, NEW w \in HttpWorker, TakeConnection(w), ~queueClosed
    PROVE  HttpInv'
<1>1. HttpTypeOK /\ Stages /\ CrewStages /\ SocketsKnown /\ OnePlace
  BY DEF HttpInv
<1>2. /\ link \in [Conn -> LinkRecord] /\ crew \in [HttpWorker -> CrewRecord]
      /\ connQueue \in Seq(Conn) /\ Len(connQueue) \in Nat /\ Len(connQueue) <= HttpDepth
      /\ NoConn \notin Conn /\ HttpDepth \in Nat
  BY <1>1, HttpTypes, HttpAssumption
<1>3. /\ crew[w].pc = "waiting" /\ connQueue # << >> /\ connQueue' = Tail(connQueue)
      /\ UNCHANGED << phase, isRunning, acceptor, inHand, queueClosed, streams, tls, latched,
                      reports, link >>
  BY DEF TakeConnection
<1>4. PICK pc \in Busy : crew' = [crew EXCEPT ![w] = [pc |-> pc, conn |-> Head(connQueue)]]
  <2>1. crew' = [crew EXCEPT ![w] = [pc |-> IF tls THEN "handshake" ELSE "reading",
                                     conn |-> Head(connQueue)]]
    BY DEF TakeConnection
  <2>2. CASE tls
    BY <2>1, <2>2 DEF Busy
  <2>3. CASE ~tls
    BY <2>1, <2>3 DEF Busy
  <2> QED
    BY <2>2, <2>3
<1>5. PICK c \in Conn : c = Head(connQueue)
  BY <1>3, OneHolder
<1>6. Queued(c) /\ inHand # c /\ ~Served(c) /\ streams[c] = "none"
  BY <1>3, <1>5, OneHolder
<1>7. /\ crew' \in [HttpWorker -> CrewRecord] /\ crew'[w].pc = pc /\ crew'[w].conn = c
      /\ \A v \in HttpWorker \ {w} : crew'[v] = crew[v]
  <2>1. [pc |-> pc, conn |-> c] \in CrewRecord
    BY DEF CrewRecord
  <2> QED
    BY <1>2, <1>4, <1>5, <2>1
<1>8. crew[w].conn = NoConn
  BY <1>1, <1>3 DEF CrewStages, Busy
<1>9. /\ Len(connQueue) # 0 /\ connQueue' \in Seq(Conn) /\ Len(connQueue') = Len(connQueue) - 1
      /\ c = connQueue[1] /\ \A i \in 1 .. Len(connQueue') : connQueue'[i] = connQueue[i + 1]
  <2>1. Len(connQueue) # 0 /\ connQueue' \in Seq(Conn) /\ Len(connQueue') = Len(connQueue) - 1
    BY <1>2, <1>3, EmptySeq, HeadTailProperties
  <2>2. \A i \in 1 .. Len(connQueue') : connQueue'[i] = connQueue[i + 1]
    BY <1>2, <1>3, HeadTailProperties
  <2>3. c = connQueue[1]
    BY <1>2, <1>3, <1>5
  <2> QED
    BY <2>1, <2>2, <2>3
<1>10. \A i, j \in 1 .. Len(connQueue) : connQueue[i] = connQueue[j] => i = j
  BY <1>1 DEF OnePlace
<1>11. \A d \in Conn : Queued(d)' <=> Queued(d) /\ d # c
  <2> SUFFICES ASSUME NEW d \in Conn PROVE Queued(d)' <=> Queued(d) /\ d # c
    OBVIOUS
  <2>1. ASSUME NEW i \in 1 .. Len(connQueue'), connQueue'[i] = d PROVE Queued(d) /\ d # c
    <3>1. i + 1 \in 1 .. Len(connQueue) /\ i + 1 # 1 /\ 1 \in 1 .. Len(connQueue)
      BY <1>2, <1>9
    <3> QED
      BY <1>9, <1>10, <2>1, <3>1 DEF Queued
  <2>2. ASSUME NEW i \in 1 .. Len(connQueue), connQueue[i] = d, d # c PROVE Queued(d)'
    <3>1. i - 1 \in 1 .. Len(connQueue') /\ (i - 1) + 1 = i
      BY <1>2, <1>9, <2>2
    <3>2. connQueue'[i - 1] = d
      BY <1>9, <2>2, <3>1
    <3> QED
      BY <3>1, <3>2 DEF Queued
  <2> QED
    BY <2>1, <2>2 DEF Queued
<1>12. \A d \in Conn : Served(d)' <=> Served(d) \/ d = c
  BY <1>2, <1>7, <1>8 DEF Served
<1>13. \A d \in Conn : Accepted(d)' <=> Accepted(d)
  BY <1>3, <1>6, <1>11, <1>12 DEF Accepted
<1>14. SocketsKnown'
  BY <1>1, <1>3, <1>13 DEF SocketsKnown
<1>15. \A i, j \in 1 .. Len(connQueue') : connQueue'[i] = connQueue'[j] => i = j
  <2> SUFFICES ASSUME NEW i \in 1 .. Len(connQueue'), NEW j \in 1 .. Len(connQueue'),
                      connQueue'[i] = connQueue'[j]
               PROVE  i = j
    OBVIOUS
  <2>1. i + 1 \in 1 .. Len(connQueue) /\ j + 1 \in 1 .. Len(connQueue)
    BY <1>2, <1>9
  <2>2. i + 1 = j + 1
    BY <1>9, <1>10, <2>1
  <2> QED
    BY <2>2
<1>16. OnePlace'
  <2>1. \A d \in Conn : /\ inHand' = d => ~Queued(d)' /\ ~Served(d)' /\ streams'[d] = "none"
                        /\ Queued(d)' => ~Served(d)' /\ streams'[d] = "none"
                        /\ Served(d)' => streams'[d] = "none"
    BY <1>1, <1>3, <1>6, <1>11, <1>12 DEF OnePlace
  <2>2. \A v \in HttpWorker : crew[v].conn # c
    BY <1>6 DEF Served
  <2>3. \A u, v \in HttpWorker : crew'[u].conn # NoConn /\ crew'[u].conn = crew'[v].conn => u = v
    BY <1>1, <1>7, <2>2 DEF OnePlace
  <2> QED
    BY <1>15, <2>1, <2>3 DEF OnePlace
<1>17. CrewStages'
  <2>1. crew'[w].pc # "none" /\ crew'[w].pc # "done" /\ crew'[w].pc \in Busy /\ crew'[w].conn # NoConn
    BY <1>2, <1>7 DEF Busy
  <2> QED
    BY <1>3, <1>7, <2>1, CrewMoves
<1>18. Stages'
  BY <1>1, <1>3 DEF Stages, QueueIsShut
<1>19. HttpTypeOK'
  <2>1. Len(connQueue') <= HttpDepth
    BY <1>2, <1>9
  <2> QED
    BY <1>1, <1>3, <1>7, <1>9, <2>1, HttpTypes, Flags, ThreadTyped
<1> QED
  BY <1>14, <1>16, <1>17, <1>18, <1>19 DEF HttpInv

\* The steps of a worker that close the socket it serves.
LEMMA WorkerFinishes ==
    ASSUME HttpInv, NEW w \in HttpWorker, crew[w].pc \in Busy, Freed(w),
           UNCHANGED << phase, isRunning, acceptor, inHand, connQueue, queueClosed, streams,
                        tls, latched, reports >>,
           NEW l \in LinkRecord, l.socket = "closed", l.closes = link[crew[w].conn].closes + 1,
           link' = [link EXCEPT ![crew[w].conn] = l]
    PROVE  HttpInv'
<1>1. HttpTypeOK /\ CrewStages /\ crew \in [HttpWorker -> CrewRecord]
      /\ crew[w].pc \notin {"none", "done"} /\ crew[w].conn # NoConn
  BY HttpTypes DEF HttpInv, CrewStages, Busy
<1>2. link' \in [Conn -> LinkRecord] /\ SocketsKnown' /\ OnePlace'
  BY <1>1, WorkerCloses
<1>3. /\ crew' \in [HttpWorker -> CrewRecord]
      /\ crew'[w].pc = "waiting" /\ crew'[w].conn = NoConn
      /\ \A v \in HttpWorker \ {w} : crew'[v] = crew[v]
  BY <1>1, CrewRecords
<1>4. HttpTypeOK'
  BY <1>1, <1>2, <1>3, HttpTypes, Flags, ThreadTyped
<1>5. CrewStages'
  <2>1. crew'[w].pc # "none" /\ crew'[w].pc # "done"
        /\ crew'[w].pc \notin Busy /\ crew'[w].conn = NoConn
    BY <1>3 DEF Busy
  <2> QED
    BY <1>1, <1>3, <2>1, CrewMoves
<1>6. Stages'
  BY StagesKept
<1> QED
  BY <1>2, <1>4, <1>5, <1>6 DEF HttpInv

\* A step of a worker within its connection.
LEMMA WorkerContinues ==
    ASSUME HttpInv, NEW w \in HttpWorker, crew[w].pc \in Busy, NEW pc \in Busy, Goes(w, pc),
           UNCHANGED << phase, isRunning, acceptor, inHand, connQueue, queueClosed, streams,
                        tls, link >>,
           latched' \in BOOLEAN, reports' \in Nat
    PROVE  HttpInv'
<1>1. HttpTypeOK /\ CrewStages /\ SocketsKnown /\ crew \in [HttpWorker -> CrewRecord]
      /\ crew[w].pc \notin {"none", "done"} /\ crew[w].conn # NoConn /\ pc \notin {"none", "done"}
  BY HttpTypes DEF HttpInv, CrewStages, Busy
<1>2. /\ crew' \in [HttpWorker -> CrewRecord]
      /\ crew'[w].pc = pc /\ crew'[w].conn = crew[w].conn
      /\ \A v \in HttpWorker \ {w} : crew'[v] = crew[v]
  BY <1>1, CrewRecords
<1>3. HttpTypeOK'
  BY <1>1, <1>2, HttpTypes, Flags, ThreadTyped
<1>4. CrewStages'
  BY <1>1, <1>2, CrewMoves
<1>5. Stages'
  BY StagesKept
<1>6. SocketsKnown' /\ OnePlace'
  <2>1. \A v \in HttpWorker : crew'[v].conn = crew[v].conn
    BY <1>2
  <2> QED
    BY <1>1, <2>1, PlacesKept DEF SocketsKnown
<1> QED
  BY <1>3, <1>4, <1>5, <1>6 DEF HttpInv

\* A stream moves from its worker to the registry, which closes the sockets of
\* the streams that have ended.
LEMMA StreamRegistered ==
    ASSUME HttpInv, NEW w \in HttpWorker, RegisterStream(w)
    PROVE  HttpInv'
<1> DEFINE s == crew[w].conn
<1>1. HttpTypeOK /\ Stages /\ CrewStages /\ SocketsKnown /\ OnePlace
  BY DEF HttpInv
<1>2. /\ link \in [Conn -> LinkRecord] /\ crew \in [HttpWorker -> CrewRecord]
      /\ streams \in [Conn -> {"none", "running", "finished"}]
      /\ connQueue \in Seq(Conn) /\ Len(connQueue) <= HttpDepth
  BY <1>1, HttpTypes
<1>3. crew[w].pc = "handling" /\ Freed(w)
      /\ UNCHANGED << phase, isRunning, acceptor, inHand, connQueue, queueClosed, tls,
                      latched, reports >>
  BY DEF RegisterStream, Serving
<1>4. /\ s \in Conn /\ Accepted(s) /\ inHand # s /\ ~Queued(s) /\ streams[s] = "none"
      /\ crew[w].conn # NoConn /\ NoConn \notin Conn
      /\ \A v \in HttpWorker : crew[v].conn = s => v = w
  <2>1. crew[w].conn # NoConn
    BY <1>1, <1>3 DEF CrewStages, Busy
  <2> QED
    BY <2>1, OneHolder
<1>5. PICK c \in Conn : c = s
  BY <1>4
<1>6. /\ streams' = [d \in Conn |-> IF d = c THEN "running"
                                    ELSE IF d \in Ended THEN "none" ELSE streams[d]]
      /\ link' = [d \in Conn |-> CASE d = c      -> [link[d] EXCEPT !.answer = "stream"]
                                   [] d \in Ended -> Closed(link[d])
                                   [] OTHER       -> link[d]]
  BY <1>5 DEF RegisterStream
<1>7. /\ inHand # c /\ ~Queued(c) /\ streams[c] = "none" /\ Accepted(c) /\ crew[w].conn = c
      /\ \A v \in HttpWorker : crew[v].conn = c => v = w
  BY <1>4, <1>5
<1> HIDE DEF s
<1>8. c \notin Ended /\ \A d \in Conn : d \in Ended <=> streams[d] = "finished"
  BY <1>7 DEF Ended
<1>9. /\ streams' \in [Conn -> {"none", "running", "finished"}] /\ streams'[c] = "running"
      /\ \A d \in Conn \ {c} : streams'[d] = IF streams[d] = "finished" THEN "none" ELSE streams[d]
  BY <1>2, <1>6, <1>8
<1>10. \A d \in Conn : /\ [link[d] EXCEPT !.answer = "stream"] \in LinkRecord
                       /\ [link[d] EXCEPT !.answer = "stream"].socket = link[d].socket
                       /\ [link[d] EXCEPT !.answer = "stream"].closes = link[d].closes
  BY <1>2, AnswerRecord
<1>11. \A d \in Conn : /\ Closed(link[d]) \in LinkRecord /\ Closed(link[d]).socket = "closed"
                       /\ Closed(link[d]).closes = link[d].closes + 1
  BY <1>2, ClosedRecord
<1>12. link' \in [Conn -> LinkRecord]
  <2>1. \A d \in Conn : link[d] \in LinkRecord
    BY <1>2
  <2> QED
    BY <1>6, <1>10, <1>11, <2>1
<1>13. /\ link'[c].socket = link[c].socket /\ link'[c].closes = link[c].closes
       /\ \A d \in Conn \ {c} :
             IF streams[d] = "finished"
             THEN link'[d].socket = "closed" /\ link'[d].closes = link[d].closes + 1
             ELSE link'[d] = link[d]
  BY <1>6, <1>8, <1>10, <1>11
<1>14. /\ crew' \in [HttpWorker -> CrewRecord]
       /\ crew'[w].pc = "waiting" /\ crew'[w].conn = NoConn
       /\ \A v \in HttpWorker \ {w} : crew'[v] = crew[v]
  BY <1>2, <1>3, CrewRecords
<1>15. \A d \in Conn : /\ Queued(d)' <=> Queued(d)
                       /\ Served(d)' <=> Served(d) /\ d # c
  <2>1. \A d \in Conn : Queued(d)' <=> Queued(d)
    BY <1>3 DEF Queued
  <2>2. \A d \in Conn : Served(d)' <=> Served(d) /\ d # c
    BY <1>4, <1>7, <1>14 DEF Served
  <2> QED
    BY <2>1, <2>2
<1>16. \A d \in Conn : streams[d] = "finished" =>
          Accepted(d) /\ link[d].closes = 0 /\ inHand # d /\ ~Queued(d) /\ ~Served(d)
  BY <1>1 DEF SocketsKnown, OnePlace, Accepted
<1>17. \A d \in Conn : Accepted(d)' <=> Accepted(d) /\ (d = c \/ streams[d] # "finished")
  <2> SUFFICES ASSUME NEW d \in Conn
               PROVE  Accepted(d)' <=> Accepted(d) /\ (d = c \/ streams[d] # "finished")
    OBVIOUS
  <2>1. CASE d = c
    BY <1>7, <1>9, <2>1 DEF Accepted
  <2>2. CASE d # c
    BY <1>3, <1>9, <1>15, <1>16, <2>2 DEF Accepted
  <2> QED
    BY <2>1, <2>2
<1>18. SocketsKnown'
  <2> SUFFICES ASSUME NEW d \in Conn
               PROVE  /\ link'[d].socket \in {"open", "shut"} <=> Accepted(d)'
                      /\ link'[d].closes = IF link'[d].socket = "closed" THEN 1 ELSE 0
                      /\ link'[d].socket = "backlog" => isRunning' /\ acceptor' # "binding"
    BY DEF SocketsKnown
  <2>1. CASE d # c /\ streams[d] = "finished"
    BY <1>13, <1>16, <1>17, <2>1
  <2>2. CASE d # c /\ streams[d] # "finished"
    BY <1>1, <1>3, <1>13, <1>17, <2>2 DEF SocketsKnown
  <2>3. CASE d = c
    BY <1>1, <1>3, <1>13, <1>17, <2>3 DEF SocketsKnown
  <2> QED
    BY <2>1, <2>2, <2>3
<1>19. OnePlace'
  <2>1. \A d \in Conn : /\ inHand' = d => ~Queued(d)' /\ ~Served(d)' /\ streams'[d] = "none"
                        /\ Queued(d)' => ~Served(d)' /\ streams'[d] = "none"
                        /\ Served(d)' => streams'[d] = "none"
    BY <1>1, <1>3, <1>7, <1>9, <1>15 DEF OnePlace
  <2>2. /\ \A u, v \in HttpWorker : crew'[u].conn # NoConn /\ crew'[u].conn = crew'[v].conn => u = v
        /\ \A i, j \in 1 .. Len(connQueue') : connQueue'[i] = connQueue'[j] => i = j
    BY <1>1, <1>3, <1>14 DEF OnePlace
  <2> QED
    BY <2>1, <2>2 DEF OnePlace
<1>20. CrewStages'
  <2>1. crew'[w].pc # "none" /\ crew'[w].pc # "done"
        /\ crew'[w].pc \notin Busy /\ crew'[w].conn = NoConn
    BY <1>14 DEF Busy
  <2> QED
    BY <1>3, <1>14, <2>1, CrewMoves
<1>21. Stages'
  <2>1. phase # "stopped"
    BY <1>1, <1>3 DEF CrewStages, CrewIsGone, QueueIsShut
  <2> QED
    BY <1>3, <2>1, StagesKept
<1>22. HttpTypeOK'
  BY <1>1, <1>2, <1>3, <1>9, <1>12, <1>14, Flags, ThreadTyped
<1> QED
  BY <1>18, <1>19, <1>20, <1>21, <1>22 DEF HttpInv

LEMMA CrewKeeps ==
    ASSUME HttpInv, NEW w \in HttpWorker, CrewStep(w)
    PROVE  HttpInv'
<1>1. HttpTypeOK /\ Stages /\ CrewStages /\ SocketsKnown /\ OnePlace
  BY DEF HttpInv
<1>2. /\ link \in [Conn -> LinkRecord] /\ crew \in [HttpWorker -> CrewRecord]
      /\ latched \in BOOLEAN /\ reports \in Nat
  BY <1>1, HttpTypes, Flags
<1>3. crew[w].pc \in Busy =>
         /\ crew[w].conn \in Conn /\ link[crew[w].conn] \in LinkRecord
         /\ link[crew[w].conn].kind \in AllHttpKinds
  <2>1. crew[w].pc \in Busy => crew[w].conn # NoConn
    BY <1>1 DEF CrewStages
  <2> QED
    BY <1>2, <2>1, OneHolder DEF LinkRecord
<1>4. CASE TakeConnection(w)
  <2>1. CASE ~queueClosed
    BY <1>4, <2>1, WorkerTakes
  <2>2. CASE queueClosed
    <3>1. /\ crew[w].pc = "waiting" /\ crew' = [crew EXCEPT ![w].pc = "done"] /\ connQueue' = connQueue
          /\ UNCHANGED << phase, isRunning, acceptor, inHand, queueClosed, streams, tls, latched,
                          reports, link >>
      BY <1>4, <2>2 DEF TakeConnection
    <3>2. Goes(w, "done")
      BY <3>1 DEF Goes
    <3>3. /\ crew' \in [HttpWorker -> CrewRecord]
          /\ crew'[w].pc = "done" /\ crew'[w].conn = crew[w].conn
          /\ \A v \in HttpWorker \ {w} : crew'[v] = crew[v]
      BY <1>2, <3>2, CrewRecords
    <3>4. crew[w].conn = NoConn
      BY <1>1, <3>1 DEF CrewStages, Busy
    <3>5. CrewStages'
      BY <2>2, <3>1, <3>3, <3>4, CrewMoves DEF Busy
    <3>6. Stages'
      BY <3>1, StagesKept
    <3>7. HttpTypeOK'
      BY <1>1, <1>2, <3>1, <3>3, HttpTypes, Flags, ThreadTyped
    <3>8. SocketsKnown' /\ OnePlace'
      <4>1. \A v \in HttpWorker : crew'[v].conn = crew[v].conn
        BY <3>3
      <4> QED
        BY <1>1, <3>1, <4>1, PlacesKept DEF SocketsKnown
    <3> QED
      BY <3>5, <3>6, <3>7, <3>8 DEF HttpInv
  <2> QED
    BY <2>1, <2>2
<1>5. CASE Handshake(w)
  <2>1. crew[w].pc \in Busy /\ latched' \in BOOLEAN /\ reports' \in Nat
        /\ UNCHANGED << phase, isRunning, acceptor, inHand, connQueue, queueClosed, streams,
                        tls, link >>
    BY <1>2, <1>5 DEF Handshake, Serving, Busy
  <2>2. {"reading", "refuse", "report"} \subseteq Busy
    BY DEF Busy
  <2>3. Goes(w, "reading") \/ Goes(w, "refuse") \/ Goes(w, "report")
    BY <1>5 DEF Handshake
  <2> QED
    BY <2>1, <2>2, <2>3, WorkerContinues
<1>6. CASE Report(w)
  <2>1. crew[w].pc \in Busy /\ "refuse" \in Busy /\ latched' \in BOOLEAN /\ reports' \in Nat
    BY <1>2, <1>6 DEF Report, Serving, Busy
  <2> QED
    BY <1>6, <2>1, WorkerContinues DEF Report
<1>7. CASE RefuseHandshake(w)
  <2>1. crew[w].pc \in Busy
    BY <1>7 DEF RefuseHandshake, Serving, Busy
  <2>2. link' = [link EXCEPT ![crew[w].conn] = Closed(link[crew[w].conn])]
    BY <1>7 DEF RefuseHandshake
  <2> QED
    BY <1>3, <1>7, <2>1, <2>2, ClosedRecord, WorkerFinishes DEF RefuseHandshake
<1>8. CASE ReadRequest(w)
  <2>1. crew[w].pc \in Busy /\ "handling" \in Busy
    BY <1>8 DEF ReadRequest, Serving, Busy
  <2>2. CASE link[crew[w].conn].kind \in {"rejected", "preflight"}
    <3>1. Freed(w)
          /\ link' = [link EXCEPT ![crew[w].conn] =
                         ClosedWith(link[crew[w].conn], link[crew[w].conn].kind)]
      BY <1>8, <2>2 DEF ReadRequest
    <3>2. link[crew[w].conn].kind \in Answers
      BY <2>2 DEF Answers
    <3> QED
      BY <1>3, <1>8, <2>1, <3>1, <3>2, ClosedRecord, WorkerFinishes DEF ReadRequest
  <2>3. CASE link[crew[w].conn].kind \notin {"rejected", "preflight"}
    <3>1. Goes(w, "handling") /\ link' = link
      BY <1>8, <2>3 DEF ReadRequest
    <3> QED
      BY <1>2, <1>8, <2>1, <3>1, WorkerContinues DEF ReadRequest
  <2> QED
    BY <2>2, <2>3
<1>9. CASE Respond(w)
  <2>1. crew[w].pc \in Busy
    BY <1>9 DEF Respond, Serving, Busy
  <2>2. PICK a \in Answers : link' = [link EXCEPT ![crew[w].conn] = ClosedWith(link[crew[w].conn], a)]
    <3>1. CASE link[crew[w].conn].kind = "stream"
      BY <1>9, <3>1 DEF Respond, Answers
    <3>2. CASE link[crew[w].conn].kind # "stream"
      BY <1>9, <3>2 DEF Respond, Answers
    <3> QED
      BY <3>1, <3>2
  <2> DEFINE l == ClosedWith(link[crew[w].conn], a)
  <2>3. l \in LinkRecord /\ l.socket = "closed" /\ l.closes = link[crew[w].conn].closes + 1
    BY <1>3, <2>1, ClosedRecord
  <2>4. Freed(w) /\ UNCHANGED << phase, isRunning, acceptor, inHand, connQueue, queueClosed,
                                 streams, tls, latched, reports >>
    BY <1>9 DEF Respond
  <2> HIDE DEF l
  <2>5. link' = [link EXCEPT ![crew[w].conn] = l]
    BY <2>2 DEF l
  <2> QED
    BY <2>1, <2>3, <2>4, <2>5, WorkerFinishes
<1>10. CASE RegisterStream(w)
  BY <1>10, StreamRegistered
<1> QED
  BY <1>4, <1>5, <1>6, <1>7, <1>8, <1>9, <1>10 DEF CrewStep

-----------------------------------------------------------------------------
(* The threads of the streams, and the clients *)

LEMMA ClientsKeep ==
    ASSUME HttpInv, NEW c \in Conn, StreamEnds(c) \/ Connect(c) \/ Sends(c) \/ Leaves(c)
    PROVE  HttpInv'
<1>1. HttpTypeOK /\ Stages /\ CrewStages /\ SocketsKnown /\ OnePlace
  BY DEF HttpInv
<1>2. /\ link \in [Conn -> LinkRecord] /\ streams \in [Conn -> {"none", "running", "finished"}]
      /\ link[c] \in LinkRecord
  BY <1>1, HttpTypes
<1>3. UNCHANGED << phase, isRunning, acceptor, inHand, connQueue, queueClosed, crew, tls,
                   latched, reports >>
  BY DEF StreamEnds, Connect, Sends, Leaves
<1>4. CrewStages'
  BY <1>3, CrewKept
<1>5. CASE StreamEnds(c)
  <2>1. /\ streams[c] = "running" /\ streams' = [streams EXCEPT ![c] = "finished"]
        /\ link' = [link EXCEPT ![c] = [link[c] EXCEPT
                       !.socket = IF link[c].socket = "open" THEN "shut" ELSE link[c].socket]]
    BY <1>2, <1>5 DEF StreamEnds
  <2>2. link[c].socket \in {"open", "shut"}
    BY <1>1, <2>1 DEF SocketsKnown, Accepted
  <2>3. /\ [link[c] EXCEPT !.socket = "shut"] \in LinkRecord
        /\ [link[c] EXCEPT !.socket = "shut"].socket = "shut"
        /\ [link[c] EXCEPT !.socket = "shut"].closes = link[c].closes
    BY <1>2, SocketRecord
  <2>4. link' = [link EXCEPT ![c] = [link[c] EXCEPT !.socket = "shut"]]
    BY <2>1, <2>2
  <2>5. /\ link' \in [Conn -> LinkRecord]
        /\ link'[c].socket = "shut" /\ link'[c].closes = link[c].closes
        /\ \A d \in Conn \ {c} : link'[d] = link[d]
    BY <1>2, <2>3, <2>4
  <2>6. /\ streams' \in [Conn -> {"none", "running", "finished"}] /\ streams'[c] = "finished"
        /\ \A d \in Conn \ {c} : streams'[d] = streams[d]
    BY <1>2, <2>1
  <2>7. SocketsKnown' /\ OnePlace'
    BY <1>1, <1>3, <2>1, <2>2, <2>5, <2>6, PlacesKept DEF SocketsKnown
  <2>8. Stages'
    BY <1>1, <1>3, <2>1, StagesKept DEF Stages
  <2>9. HttpTypeOK'
    BY <1>1, <1>3, <2>5, <2>6, HttpTypes, Flags, ThreadTyped
  <2> QED
    BY <1>4, <2>7, <2>8, <2>9 DEF HttpInv
<1>6. CASE Connect(c) \/ Sends(c) \/ Leaves(c)
  <2>1. /\ streams' = streams /\ link' \in [Conn -> LinkRecord]
        /\ \A d \in Conn \ {c} : link'[d] = link[d]
        /\ link'[c].closes = link[c].closes
        /\ \/ link'[c].socket = link[c].socket
           \/ /\ link'[c].socket = "backlog" /\ link[c].socket = "none"
              /\ isRunning /\ acceptor # "binding"
    <3>1. CASE Connect(c)
      <4>1. PICK k \in HttpKinds :
               link' = [link EXCEPT ![c] = [link[c] EXCEPT !.socket = "backlog", !.peer = "silent", !.kind = k]]
        BY <1>2, <3>1 DEF Connect
      <4>2. link[c].socket = "none" /\ isRunning /\ acceptor # "binding" /\ streams' = streams
        BY <3>1 DEF Connect, NewLink
      <4>3. k \in AllHttpKinds
        BY HttpAssumption
      <4> DEFINE l == [link[c] EXCEPT !.socket = "backlog", !.peer = "silent", !.kind = k]
      <4>4. l \in LinkRecord /\ l.socket = "backlog" /\ l.closes = link[c].closes
        BY <1>2, <4>3 DEF LinkRecord
      <4> HIDE DEF l
      <4> QED
        BY <1>2, <4>1, <4>2, <4>4 DEF l
    <3>2. CASE Sends(c) \/ Leaves(c)
      <4>1. PICK p \in {"sent", "gone"} :
               streams' = streams /\ link' = [link EXCEPT ![c] = [link[c] EXCEPT !.peer = p]]
        BY <1>2, <3>2 DEF Sends, Leaves
      <4>2. /\ [link[c] EXCEPT !.peer = p] \in LinkRecord
            /\ [link[c] EXCEPT !.peer = p].socket = link[c].socket
            /\ [link[c] EXCEPT !.peer = p].closes = link[c].closes
        BY <1>2 DEF LinkRecord
      <4> QED
        BY <1>2, <4>1, <4>2
    <3> QED
      BY <1>6, <3>1, <3>2
  <2>2. SocketsKnown' /\ OnePlace'
    BY <1>1, <1>3, <2>1, PlacesKept DEF SocketsKnown
  <2>3. Stages'
    BY <1>3, <2>1, StagesKept
  <2>4. HttpTypeOK'
    BY <1>1, <1>2, <1>3, <2>1, HttpTypes, Flags, ThreadTyped
  <2> QED
    BY <1>4, <2>2, <2>3, <2>4 DEF HttpInv
<1> QED
  BY <1>5, <1>6

LEMMA HttpStep == HttpInv /\ [HttpNext]_httpVars => HttpInv'
<1> SUFFICES ASSUME HttpInv, [HttpNext]_httpVars PROVE HttpInv'
  OBVIOUS
<1>1. CASE UNCHANGED httpVars
  BY <1>1 DEF httpVars, HttpInv, HttpTypeOK, Stages, CrewStages, SocketsKnown, OnePlace,
     Accepted, Queued, Served
<1>2. CASE HttpNext
  BY <1>2, OwnerKeeps, AcceptThreadKeeps, CrewKeeps, ClientsKeep DEF HttpNext
<1> QED
  BY <1>1, <1>2

-----------------------------------------------------------------------------
(* What the invariants say *)

\* Each place holds a socket once, so that the places that hold it are one
\* exactly when it is accepted.
LEMMA PlacesCounted ==
    ASSUME HttpInv, NEW c \in Conn
    PROVE  Accepted(c) <=>
             Cardinality({w \in HttpWorker : crew[w].conn = c}) +
             Cardinality({i \in DOMAIN connQueue : connQueue[i] = c}) +
             (IF inHand = c THEN 1 ELSE 0) + (IF streams[c] # "none" THEN 1 ELSE 0) = 1
<1> DEFINE W == {w \in HttpWorker : crew[w].conn = c}
           Q == {i \in DOMAIN connQueue : connQueue[i] = c}
<1>1. OnePlace /\ DOMAIN connQueue = 1 .. Len(connQueue) /\ NoConn # c
  BY HttpTypes, LenProperties, HttpAssumption DEF HttpInv
<1>2. Cardinality(W) = IF Served(c) THEN 1 ELSE 0
  <2>1. CASE ~Served(c)
    <3>1. W = {}
      BY <2>1 DEF Served
    <3> QED
      BY <2>1, <3>1, FS_EmptySet
  <2>2. CASE Served(c)
    <3>1. PICK w \in HttpWorker : crew[w].conn = c
      BY <2>2 DEF Served
    <3>2. W = {w}
      BY <1>1, <3>1 DEF OnePlace
    <3> QED
      BY <2>2, <3>2, FS_Singleton
  <2> QED
    BY <2>1, <2>2
<1>3. Cardinality(Q) = IF Queued(c) THEN 1 ELSE 0
  <2>1. CASE ~Queued(c)
    <3>1. Q = {}
      BY <1>1, <2>1 DEF Queued
    <3> QED
      BY <2>1, <3>1, FS_EmptySet
  <2>2. CASE Queued(c)
    <3>1. PICK i \in 1 .. Len(connQueue) : connQueue[i] = c
      BY <2>2 DEF Queued
    <3>2. Q = {i}
      BY <1>1, <3>1 DEF OnePlace
    <3> QED
      BY <2>2, <3>2, FS_Singleton
  <2> QED
    BY <2>1, <2>2
<1> HIDE DEF W, Q
<1>4. Accepted(c) <=> Cardinality(W) + Cardinality(Q)
                      + (IF inHand = c THEN 1 ELSE 0) + (IF streams[c] # "none" THEN 1 ELSE 0) = 1
  <2>1. /\ inHand = c => ~Queued(c) /\ ~Served(c) /\ streams[c] = "none"
        /\ Queued(c) => ~Served(c) /\ streams[c] = "none"
        /\ Served(c) => streams[c] = "none"
    BY <1>1 DEF OnePlace
  <2> QED
    BY <1>2, <1>3, <2>1 DEF Accepted
<1> QED
  BY <1>4 DEF W, Q

LEMMA SocketsClosed == HttpInv => SocketsCloseOnce
<1> SUFFICES ASSUME HttpInv, NEW c \in Conn
             PROVE  /\ link[c].closes <= 1
                    /\ link[c].socket \in {"open", "shut"} <=>
                         Cardinality({w \in HttpWorker : crew[w].conn = c}) +
                         Cardinality({i \in DOMAIN connQueue : connQueue[i] = c}) +
                         (IF inHand = c THEN 1 ELSE 0) + (IF streams[c] # "none" THEN 1 ELSE 0) = 1
  BY DEF SocketsCloseOnce
<1>1. (link[c].socket \in {"open", "shut"} <=> Accepted(c))
      /\ link[c].closes = IF link[c].socket = "closed" THEN 1 ELSE 0
  BY DEF HttpInv, SocketsKnown
<1>2. link[c].closes <= 1
  BY <1>1
<1> QED
  BY <1>1, <1>2, PlacesCounted

LEMMA NothingLeft == HttpInv => NothingOutlivesStop
<1> SUFFICES ASSUME HttpInv, phase = "stopped"
             PROVE  /\ acceptor = "done" /\ \A w \in HttpWorker : crew[w].pc = "done"
                    /\ \A c \in Conn : streams[c] = "none" /\ link[c].socket \in {"none", "closed"}
  BY DEF NothingOutlivesStop
<1>1. /\ HttpTypeOK /\ acceptor = "done" /\ ~isRunning /\ connQueue = << >>
      /\ \A c \in Conn : streams[c] = "none"
  BY DEF HttpInv, Stages, QueueIsShut
<1>2. \A w \in HttpWorker : crew[w].pc = "done" /\ crew[w].conn = NoConn
  BY DEF HttpInv, CrewStages, CrewIsGone, QueueIsShut, Busy
<1>3. \A c \in Conn : ~Queued(c) /\ ~Served(c) /\ inHand # c
  <2>1. Len(connQueue) = 0
    BY <1>1, EmptySeq
  <2> QED
    BY <1>1, <1>2, <2>1, HttpTypes, HttpAssumption DEF Queued, Served
<1>4. \A c \in Conn : ~Accepted(c)
  BY <1>1, <1>3 DEF Accepted
<1>5. \A c \in Conn : link[c].socket \notin {"open", "shut", "backlog"}
  BY <1>1, <1>4 DEF HttpInv, SocketsKnown
<1>6. \A c \in Conn : link[c].socket \in {"none", "backlog", "open", "shut", "closed"}
  BY <1>1, HttpTypes DEF LinkRecord
<1> QED
  BY <1>1, <1>2, <1>5, <1>6

-----------------------------------------------------------------------------
(* Lists of the activity feed *)

LEMMA FeedConstants ==
    /\ Capacity \in Nat \ {0} /\ FileMax \in Nat /\ ActEvents \in Nat /\ Fresh \notin Nat
    /\ Filtered \cap Stream = {} /\ \A r \in Reader : MaxCount[r] \in 1 .. Capacity
  BY ActivityAssumption

LEMMA UpTo ==
    ASSUME NEW n \in Nat
    PROVE  IsFiniteSet(1 .. n) /\ Cardinality(1 .. n) = n
<1>1. 1 \in Int /\ n \in Int /\ (1 > n => n = 0)
  OBVIOUS
<1>2. Cardinality(1 .. n) = IF 1 > n THEN 0 ELSE n - 1 + 1
  BY <1>1, FS_Interval
<1> QED
  BY <1>1, <1>2, FS_Interval

Rank(places, i) == Cardinality({j \in places : j <= i})

\* The places of a list in order: the k-th is the one of rank k.
LEMMA Ranked ==
    ASSUME NEW places \in SUBSET Nat, IsFiniteSet(places)
    PROVE  /\ Cardinality(places) \in Nat
           /\ \A k \in 1 .. Cardinality(places) : Nth(places, k) \in places /\ Rank(places, Nth(places, k)) = k
           /\ \A i \in places : Rank(places, i) \in 1 .. Cardinality(places) /\ Nth(places, Rank(places, i)) = i
           /\ \A i, j \in places : i < j => Rank(places, i) < Rank(places, j)
<1> DEFINE n == Cardinality(places)
           upTo(i) == {j \in places : j <= i}
           f == [i \in places |-> Cardinality(upTo(i))]
<1>1. n \in Nat
  BY FS_CardinalityType
<1>2. ASSUME NEW i \in places
      PROVE  IsFiniteSet(upTo(i)) /\ Cardinality(upTo(i)) \in 1 .. n
  <2>1. upTo(i) \in SUBSET places /\ i \in upTo(i)
    OBVIOUS
  <2>2. IsFiniteSet(upTo(i)) /\ Cardinality(upTo(i)) <= n
    BY <2>1, FS_Subset
  <2>3. Cardinality(upTo(i)) \in Nat /\ Cardinality(upTo(i)) # 0
    BY <2>1, <2>2, FS_CardinalityType, FS_EmptySet
  <2> QED
    BY <1>1, <2>2, <2>3
<1>3. ASSUME NEW i \in places, NEW j \in places, i < j
      PROVE  Cardinality(upTo(i)) < Cardinality(upTo(j))
  <2>1. upTo(i) \in SUBSET upTo(j) /\ upTo(i) # upTo(j)
    <3>1. i \in Nat /\ j \in Nat /\ places \subseteq Nat
      OBVIOUS
    <3>2. j \in upTo(j) /\ j \notin upTo(i)
      BY <1>3, <3>1
    <3>3. \A k \in places : k <= i => k <= j
      BY <1>3, <3>1
    <3> QED
      BY <3>2, <3>3
  <2>2. Cardinality(upTo(i)) <= Cardinality(upTo(j)) /\ Cardinality(upTo(i)) # Cardinality(upTo(j))
    BY <1>2, <2>1, FS_Subset
  <2> QED
    BY <1>2, <2>2
<1> HIDE DEF n, upTo
<1>4. f \in Injection(places, 1 .. n)
  <2>1. f \in [places -> 1 .. n]
    BY <1>2
  <2>2. ASSUME NEW i \in places, NEW j \in places, f[i] = f[j] PROVE i = j
    <3>1. Cardinality(upTo(i)) = Cardinality(upTo(j)) /\ Cardinality(upTo(i)) \in Int
      BY <1>2, <2>2
    <3>2. ~(i < j) /\ ~(j < i)
      BY <1>2, <1>3, <3>1
    <3> QED
      BY <3>2
  <2> QED
    BY <2>1, <2>2 DEF Injection, IsInjective
<1>5. f \in Surjection(places, 1 .. n)
  <2>1. IsFiniteSet(1 .. n) /\ Cardinality(1 .. n) = n
    BY <1>1, UpTo
  <2> QED
    BY <1>4, <2>1, FS_Injection DEF n
<1>6. \A k \in 1 .. n : \E i \in places : Cardinality(upTo(i)) = k
  BY <1>5 DEF Surjection
<1>7. \A i, j \in places : Cardinality(upTo(i)) = Cardinality(upTo(j)) => i = j
  BY <1>4 DEF Injection, IsInjective
<1>8. \A i \in places : Rank(places, i) = Cardinality(upTo(i))
  BY DEF Rank, upTo
<1>9. \A k \in 1 .. n : Nth(places, k) \in places /\ Cardinality(upTo(Nth(places, k))) = k
  BY <1>6 DEF Nth, upTo
<1>10. \A i \in places : Cardinality(upTo(i)) \in 1 .. n /\ Nth(places, Cardinality(upTo(i))) = i
  BY <1>2, <1>7, <1>9
<1>11. \A k \in 1 .. n : Nth(places, k) \in places /\ Rank(places, Nth(places, k)) = k
  BY <1>8, <1>9
<1>12. \A i \in places : Rank(places, i) \in 1 .. n /\ Nth(places, Rank(places, i)) = i
  BY <1>8, <1>10
<1>13. \A i, j \in places : i < j => Rank(places, i) < Rank(places, j)
  BY <1>3, <1>8
<1> QED
  BY <1>1, <1>11, <1>12, <1>13 DEF n

\* t has elements of s in their order.
IsPart(t, s) ==
    \E f \in [DOMAIN t -> DOMAIN s] : /\ \A i \in DOMAIN t : t[i] = s[f[i]]
                                      /\ \A i, j \in DOMAIN t : i < j => f[i] < f[j]

LEMMA ThoseProperties ==
    ASSUME NEW S, NEW s \in Seq(S), NEW places \in SUBSET DOMAIN s
    PROVE  /\ Those(s, places) \in Seq(S) /\ Len(Those(s, places)) <= Len(s)
           /\ IsPart(Those(s, places), s)
           /\ \A k \in DOMAIN Those(s, places) : \E i \in places : Those(s, places)[k] = s[i]
           /\ \A i \in places : \E k \in DOMAIN Those(s, places) : Those(s, places)[k] = s[i]
<1> DEFINE n == Cardinality(places)
           t == Those(s, places)
<1>1. Len(s) \in Nat /\ DOMAIN s = 1 .. Len(s) /\ \A i \in DOMAIN s : s[i] \in S
  BY LenProperties, ElementOfSeq
<1>2. places \in SUBSET Nat /\ IsFiniteSet(places) /\ n <= Len(s)
  <2>1. IsFiniteSet(DOMAIN s) /\ Cardinality(DOMAIN s) = Len(s)
    BY <1>1, UpTo
  <2> QED
    BY <1>1, <2>1, FS_Subset
<1>3. /\ n \in Nat
      /\ \A k \in 1 .. n : Nth(places, k) \in places /\ Rank(places, Nth(places, k)) = k
      /\ \A i \in places : Rank(places, i) \in 1 .. n /\ Nth(places, Rank(places, i)) = i
      /\ \A i, j \in places : i < j => Rank(places, i) < Rank(places, j)
  BY <1>2, Ranked
<1>4. t = [k \in 1 .. n |-> s[Nth(places, k)]]
  BY DEF Those
<1> HIDE DEF n, t
<1>5. DOMAIN t = 1 .. n /\ \A k \in 1 .. n : t[k] = s[Nth(places, k)] /\ t[k] \in S
  BY <1>1, <1>3, <1>4
<1>6. t \in Seq(S) /\ Len(t) = n
  BY <1>3, <1>4, <1>5
<1>7. IsPart(t, s)
  <2> DEFINE f == [k \in 1 .. n |-> Nth(places, k)]
  <2>1. f \in [DOMAIN t -> DOMAIN s] /\ \A i \in DOMAIN t : t[i] = s[f[i]]
    BY <1>3, <1>5
  <2>2. ASSUME NEW i \in DOMAIN t, NEW j \in DOMAIN t, i < j PROVE f[i] < f[j]
    <3>1. f[i] \in places /\ f[j] \in places /\ Rank(places, f[i]) = i /\ Rank(places, f[j]) = j
      BY <1>3, <1>5
    <3>2. ~(f[j] < f[i]) /\ f[i] # f[j] /\ f[i] \in Nat /\ f[j] \in Nat
      BY <1>2, <1>3, <1>5, <2>2, <3>1
    <3> QED
      BY <3>2
  <2> QED
    BY <2>1, <2>2 DEF IsPart
<1>8. \A i \in places : \E k \in DOMAIN t : t[k] = s[i]
  BY <1>3, <1>5
<1> QED
  BY <1>2, <1>3, <1>5, <1>6, <1>7, <1>8 DEF n, t

\* A list is what it has at all its places.
LEMMA ThoseAll ==
    ASSUME NEW S, NEW s \in Seq(S)
    PROVE  Those(s, DOMAIN s) = s
<1>1. Len(s) \in Nat /\ DOMAIN s = 1 .. Len(s) /\ s = [i \in DOMAIN s |-> s[i]]
  BY LenProperties
<1>2. \A i \in DOMAIN s : Rank(DOMAIN s, i) = i
  <2> SUFFICES ASSUME NEW i \in DOMAIN s PROVE Rank(DOMAIN s, i) = i
    OBVIOUS
  <2>1. {j \in DOMAIN s : j <= i} = 1 .. i /\ i \in Nat \ {0}
    BY <1>1
  <2>2. Cardinality(1 .. i) = i
    BY <2>1, UpTo
  <2> QED
    BY <2>1, <2>2 DEF Rank
<1>3. IsFiniteSet(DOMAIN s) /\ Cardinality(DOMAIN s) = Len(s) /\ DOMAIN s \in SUBSET Nat
  BY <1>1, UpTo
<1>4. \A k \in DOMAIN s : Nth(DOMAIN s, k) = k
  <2>1. \A i \in DOMAIN s : Nth(DOMAIN s, Rank(DOMAIN s, i)) = i
    BY <1>3, Ranked
  <2> QED
    BY <1>2, <2>1
<1> QED
  BY <1>1, <1>3, <1>4 DEF Those

\* What the elements of a list t are is what those of a part of it are.
LEMMA PartOfPart ==
    ASSUME NEW s, NEW t, NEW u, IsPart(s, t), IsPart(t, u)
    PROVE  IsPart(s, u)
<1>1. PICK f \in [DOMAIN s -> DOMAIN t] : /\ \A i \in DOMAIN s : s[i] = t[f[i]]
                                          /\ \A i, j \in DOMAIN s : i < j => f[i] < f[j]
  BY DEF IsPart
<1>2. PICK g \in [DOMAIN t -> DOMAIN u] : /\ \A i \in DOMAIN t : t[i] = u[g[i]]
                                          /\ \A i, j \in DOMAIN t : i < j => g[i] < g[j]
  BY DEF IsPart
<1> DEFINE h == [i \in DOMAIN s |-> g[f[i]]]
<1>3. h \in [DOMAIN s -> DOMAIN u] /\ \A i \in DOMAIN s : s[i] = u[h[i]]
  BY <1>1, <1>2
<1>4. \A i, j \in DOMAIN s : i < j => h[i] < h[j]
  BY <1>1, <1>2
<1> QED
  BY <1>3, <1>4 DEF IsPart

LEMMA Newest ==
    ASSUME NEW S, NEW s \in Seq(S), NEW n \in Nat
    PROVE  LET t == NewestOf(s, n) IN
           /\ t \in Seq(S) /\ Len(t) = IF Len(s) > n THEN n ELSE Len(s)
           /\ \A i \in DOMAIN t : Len(s) - Len(t) + i \in DOMAIN s /\ t[i] = s[Len(s) - Len(t) + i]
           /\ IsPart(t, s)
<1> DEFINE t == NewestOf(s, n)
           m == IF Len(s) > n THEN Len(s) - n + 1 ELSE 1
           l == IF Len(s) > n THEN n ELSE Len(s)
<1>1. Len(s) \in Nat /\ DOMAIN s = 1 .. Len(s) /\ \A i \in DOMAIN s : s[i] \in S
  BY LenProperties, ElementOfSeq
<1>2. m \in Int /\ m >= 1 /\ Len(s) - m + 1 = l /\ l \in Nat
  BY <1>1
<1>3. t = SubSeq(s, m, Len(s))
  BY DEF NewestOf
<1> HIDE DEF t, m, l
<1>4. \A i \in m .. Len(s) : s[i] \in S
  BY <1>1, <1>2
<1>5. Len(s) \in Int
  BY <1>1
<1>6. /\ SubSeq(s, m, Len(s)) \in Seq(S)
      /\ Len(SubSeq(s, m, Len(s))) = IF m <= Len(s) THEN Len(s) - m + 1 ELSE 0
      /\ \A i \in 1 .. Len(s) - m + 1 : SubSeq(s, m, Len(s))[i] = s[m + i - 1]
  BY <1>2, <1>4, <1>5, SubSeqProperties
<1>7. t \in Seq(S) /\ Len(t) = l
  BY <1>1, <1>2, <1>3, <1>6
<1>8. DOMAIN t = 1 .. l
  BY <1>7, LenProperties
<1>9. \A i \in DOMAIN t : Len(s) - l + i \in DOMAIN s /\ t[i] = s[Len(s) - l + i]
  <2> SUFFICES ASSUME NEW i \in 1 .. l PROVE Len(s) - l + i \in DOMAIN s /\ t[i] = s[Len(s) - l + i]
    BY <1>8
  <2>1. i \in 1 .. Len(s) - m + 1 /\ m + i - 1 = Len(s) - l + i /\ m + i - 1 \in 1 .. Len(s)
    BY <1>1, <1>2
  <2> QED
    BY <1>1, <1>3, <1>6, <2>1
<1>10. IsPart(t, s)
  <2> DEFINE f == [i \in DOMAIN t |-> Len(s) - l + i]
  <2>1. f \in [DOMAIN t -> DOMAIN s] /\ \A i \in DOMAIN t : t[i] = s[f[i]]
    BY <1>9
  <2>2. \A i, j \in DOMAIN t : i < j => f[i] < f[j]
    BY <1>1, <1>2, <1>8
  <2> QED
    BY <2>1, <2>2 DEF IsPart
<1> QED
  BY <1>7, <1>9, <1>10 DEF t, l

LEMMA Oldest ==
    ASSUME NEW S, NEW s \in Seq(S), NEW n \in Nat
    PROVE  LET t == OldestOf(s, n) IN
           /\ t \in Seq(S) /\ Len(t) = IF Len(s) > n THEN n ELSE Len(s)
           /\ \A i \in DOMAIN t : i \in DOMAIN s /\ t[i] = s[i]
           /\ IsPart(t, s)
<1> DEFINE t == OldestOf(s, n)
           l == IF Len(s) > n THEN n ELSE Len(s)
<1>1. Len(s) \in Nat /\ DOMAIN s = 1 .. Len(s) /\ \A i \in DOMAIN s : s[i] \in S
  BY LenProperties, ElementOfSeq
<1>2. l \in Nat /\ l <= Len(s) /\ l \in Int /\ 1 \in Int
  BY <1>1
<1>3. t = SubSeq(s, 1, l)
  BY DEF OldestOf
<1> HIDE DEF t, l
<1>4. \A i \in 1 .. l : s[i] \in S
  BY <1>1, <1>2
<1>5. /\ SubSeq(s, 1, l) \in Seq(S)
      /\ Len(SubSeq(s, 1, l)) = IF 1 <= l THEN l - 1 + 1 ELSE 0
      /\ \A i \in 1 .. l - 1 + 1 : SubSeq(s, 1, l)[i] = s[1 + i - 1]
  BY <1>2, <1>4, SubSeqProperties
<1>6. t \in Seq(S) /\ Len(t) = l
  BY <1>2, <1>3, <1>5
<1>7. DOMAIN t = 1 .. l
  BY <1>6, LenProperties
<1>8. \A i \in DOMAIN t : i \in DOMAIN s /\ t[i] = s[i]
  <2> SUFFICES ASSUME NEW i \in 1 .. l PROVE i \in DOMAIN s /\ t[i] = s[i]
    BY <1>7
  <2>1. i \in 1 .. l - 1 + 1 /\ 1 + i - 1 = i /\ i \in 1 .. Len(s)
    BY <1>1, <1>2
  <2> QED
    BY <1>1, <1>3, <1>5, <2>1
<1>9. IsPart(t, s)
  <2> DEFINE f == [i \in DOMAIN t |-> i]
  <2>1. f \in [DOMAIN t -> DOMAIN s] /\ \A i \in DOMAIN t : t[i] = s[f[i]]
    BY <1>8
  <2>2. \A i, j \in DOMAIN t : i < j => f[i] < f[j]
    OBVIOUS
  <2> QED
    BY <2>1, <2>2 DEF IsPart
<1> QED
  BY <1>6, <1>8, <1>9 DEF t, l

LEMMA Maximum ==
    ASSUME NEW S \in SUBSET Nat, IsFiniteSet(S), S # {}
    PROVE  Max(S) \in S /\ \A x \in S : x <= Max(S)
<1> DEFINE n == Cardinality(S)
           m == Nth(S, n)
<1>1. /\ n \in Nat
      /\ \A k \in 1 .. n : Nth(S, k) \in S /\ Rank(S, Nth(S, k)) = k
      /\ \A i \in S : Rank(S, i) \in 1 .. n
      /\ \A i, j \in S : i < j => Rank(S, i) < Rank(S, j)
  BY Ranked
<1>2. n \in 1 .. n
  BY <1>1, FS_EmptySet
<1>3. m \in S /\ Rank(S, m) = n
  BY <1>1, <1>2
<1> HIDE DEF n, m
<1>4. \A y \in S : m >= y
  <2> SUFFICES ASSUME NEW y \in S, m < y PROVE FALSE
    BY <1>3
  <2>1. Rank(S, m) < Rank(S, y) /\ Rank(S, y) \in 1 .. n
    BY <1>1, <1>3
  <2> QED
    BY <1>1, <1>3, <2>1
<1>5. \E x \in S : \A y \in S : x >= y
  BY <1>3, <1>4
<1>6. Max(S) \in S /\ \A y \in S : Max(S) >= y
  BY <1>5 DEF Max
<1> QED
  BY <1>6

-----------------------------------------------------------------------------
(* The types of the activity feed *)

\* The numbers on the lines of a list.
Numbered(s, n) == \A i \in DOMAIN s : s[i].id <= n

\* A torn line is glued to the next one, so that it takes no line of its own.
LinesBounded ==
    \/ "rewrite" \in ActFaults
    \/ Len(file) <= FileMax + Capacity + 1
    \/ EndsTorn(file)

\* No number is used that was not given to an event.
IdsBounded == nextSequence <= appended /\ Numbered(ring, appended) /\ Numbered(file, appended)

FeedTypes == ActTypeOK /\ LinesBounded /\ IdsBounded

LEMMA LineIds ==
    /\ TornLine \in Line /\ GarbledLine \in Line /\ TornLine \notin Entry /\ GarbledLine \notin Entry
    /\ TornLine.id = 0 /\ GarbledLine.id = 0 /\ GarbledLine # TornLine
    /\ Entry \subseteq Line /\ \A l \in Line : l.id \in Nat /\ l.id \in 0 .. ActEvents
  BY FeedConstants DEF Line, Entry, TornLine, GarbledLine

LEMMA EntriesAreLines == ASSUME NEW s \in Seq(Entry) PROVE s \in Seq(Line)
<1>1. Len(s) \in Nat /\ DOMAIN s = 1 .. Len(s) /\ (\A i \in DOMAIN s : s[i] \in Line)
      /\ s = [i \in 1 .. Len(s) |-> s[i]]
  BY LenProperties, ElementOfSeq, LineIds
<1> QED
  BY <1>1

LEMMA LastChanged ==
    ASSUME NEW S, NEW s \in Seq(S), s # << >>, NEW x \in S
    PROVE  LET t == [s EXCEPT ![Len(s)] = x] IN
           /\ Len(s) \in DOMAIN s
           /\ t \in Seq(S) /\ Len(t) = Len(s)
           /\ \A i \in DOMAIN t : t[i] = IF i = Len(s) THEN x ELSE s[i]
<1> DEFINE t == [s EXCEPT ![Len(s)] = x]
<1>1. Len(s) \in Nat /\ DOMAIN s = 1 .. Len(s) /\ \A i \in DOMAIN s : s[i] \in S
  BY LenProperties, ElementOfSeq
<1>2. Len(s) # 0
  BY EmptySeq
<1>3. Len(s) \in DOMAIN s
  BY <1>1, <1>2
<1>4. t \in [1 .. Len(s) -> S] /\ \A i \in 1 .. Len(s) : t[i] = IF i = Len(s) THEN x ELSE s[i]
  BY <1>1, <1>3, LenProperties
<1> HIDE DEF t
<1>5. t \in Seq(S) /\ Len(t) = Len(s) /\ DOMAIN t = 1 .. Len(s)
  <2>1. ASSUME NEW n \in Nat, t \in [1 .. n -> S] PROVE t \in Seq(S) /\ Len(t) = n /\ DOMAIN t = 1 .. n
    BY <2>1
  <2> QED
    BY <1>1, <1>4, <2>1
<1> QED
  BY <1>3, <1>4, <1>5 DEF t

LEMMA LineAdded ==
    ASSUME NEW s \in Seq(Line), NEW line \in Entry
    PROVE  LET t == AddLine(s, line) IN
           /\ t \in Seq(Line) /\ Len(t) <= Len(s) + 1
           /\ \A n \in Nat : Numbered(s, n) /\ line.id <= n => Numbered(t, n)
           /\ ~EndsTorn(s) => t = Append(s, line)
<1> DEFINE t == AddLine(s, line)
<1>1. Len(s) \in Nat /\ line \in Line /\ DOMAIN s = 1 .. Len(s)
  BY LineIds, LenProperties
<1>2. CASE EndsTorn(s)
  <2>1. t = [s EXCEPT ![Len(s)] = GarbledLine] /\ s # << >>
    BY <1>2 DEF AddLine, EndsTorn
  <2> HIDE DEF t
  <2>2. t \in Seq(Line) /\ Len(t) = Len(s) /\ \A i \in DOMAIN t : t[i] = IF i = Len(s) THEN GarbledLine ELSE s[i]
    BY <2>1, LineIds, LastChanged
  <2>3. DOMAIN t = DOMAIN s
    BY <2>2, LenProperties
  <2>4. \A n \in Nat : Numbered(s, n) => Numbered(t, n)
    BY <2>2, <2>3, LineIds DEF Numbered
  <2> QED
    BY <1>1, <1>2, <2>2, <2>4 DEF t
<1>3. CASE ~EndsTorn(s)
  <2>1. t = Append(s, line)
    BY <1>3 DEF AddLine
  <2> HIDE DEF t
  <2>2. /\ t \in Seq(Line) /\ Len(t) = Len(s) + 1
        /\ (\A i \in 1 .. Len(s) : t[i] = s[i]) /\ t[Len(s) + 1] = line
    BY <1>1, <2>1, AppendProperties
  <2>3. DOMAIN t = 1 .. Len(s) + 1
    BY <2>2, LenProperties
  <2>4. ASSUME NEW n \in Nat, Numbered(s, n), line.id <= n PROVE Numbered(t, n)
    <3>1. \A i \in 1 .. Len(s) + 1 : i \in 1 .. Len(s) \/ i = Len(s) + 1
      BY <1>1
    <3> QED
      BY <1>1, <2>2, <2>3, <2>4, <3>1 DEF Numbered
  <2> QED
    BY <1>1, <2>1, <2>2, <2>4 DEF t
<1> QED
  BY <1>2, <1>3

LEMMA LineCut ==
    ASSUME NEW s \in Seq(Line)
    PROVE  LET t == CutLine(s) IN
           /\ t \in Seq(Line) /\ EndsTorn(t)
           /\ Len(t) <= Len(s) + 1
           /\ EndsTorn(s) => t = s
           /\ \A n \in Nat : Numbered(s, n) => Numbered(t, n)
<1> DEFINE t == CutLine(s)
<1>1. Len(s) \in Nat /\ DOMAIN s = 1 .. Len(s)
  BY LenProperties
<1>2. CASE EndsTorn(s)
  <2>1. t = s
    BY <1>2 DEF CutLine
  <2> HIDE DEF t
  <2> QED
    BY <1>1, <1>2, <2>1 DEF t
<1>3. CASE ~EndsTorn(s)
  <2>1. t = Append(s, TornLine)
    BY <1>3 DEF CutLine
  <2> HIDE DEF t
  <2>2. /\ t \in Seq(Line) /\ t # << >> /\ Len(t) = Len(s) + 1
        /\ (\A i \in 1 .. Len(s) : t[i] = s[i]) /\ t[Len(s) + 1] = TornLine
    BY <1>1, <2>1, LineIds, AppendProperties
  <2>3. DOMAIN t = 1 .. Len(s) + 1
    BY <2>2, LenProperties
  <2>4. EndsTorn(t)
    BY <2>2 DEF EndsTorn
  <2>5. ASSUME NEW n \in Nat, Numbered(s, n) PROVE Numbered(t, n)
    <3>1. \A i \in 1 .. Len(s) + 1 : i \in 1 .. Len(s) \/ i = Len(s) + 1
      BY <1>1
    <3> QED
      BY <1>1, <2>2, <2>3, <2>5, <3>1, LineIds DEF Numbered
  <2> QED
    BY <1>1, <1>3, <2>2, <2>4, <2>5 DEF t
<1> QED
  BY <1>2, <1>3

LEMMA PartNumbered ==
    ASSUME NEW s, NEW t, IsPart(t, s), NEW n, Numbered(s, n)
    PROVE  Numbered(t, n)
  BY DEF IsPart, Numbered

\* The lines that an append goes behind.
LEMMA BeforeTyped ==
    ASSUME FeedTypes, NEW before \in LinesBefore
    PROVE  /\ before \in Seq(Line) /\ Numbered(before, appended)
           /\ "rewrite" \in ActFaults \/ Len(before) <= FileMax + Capacity
<1>1. /\ ring \in Seq(Entry) /\ ring \in Seq(Line) /\ Len(ring) <= Capacity /\ appended \in Nat
      /\ file \in Seq(Line) /\ Numbered(ring, appended) /\ Numbered(file, appended)
  BY EntriesAreLines DEF FeedTypes, ActTypeOK, IdsBounded
<1>2. Len(ring) \in Nat /\ Len(file) \in Nat /\ FileMax \in Nat /\ Capacity \in Nat
  BY <1>1, LenProperties, FeedConstants
<1>3. CASE before = file /\ (Len(file) > FileMax => "rewrite" \in ActFaults)
  BY <1>1, <1>2, <1>3
<1>4. CASE before = ring
  BY <1>1, <1>2, <1>4
<1>5. ASSUME "rewrite" \in ActFaults, NEW n \in 0 .. Len(ring),
             before \in {OldestOf(ring, n), CutLine(OldestOf(ring, n))}
      PROVE  before \in Seq(Line) /\ Numbered(before, appended)
  <2>1. OldestOf(ring, n) \in Seq(Line) /\ IsPart(OldestOf(ring, n), ring)
    BY <1>1, <1>2, Oldest
  <2>2. Numbered(OldestOf(ring, n), appended)
    BY <1>1, <2>1, PartNumbered
  <2> QED
    BY <1>1, <1>5, <2>1, <2>2, LineCut
<1> QED
  BY <1>1, <1>2, <1>3, <1>4, <1>5 DEF LinesBefore, Rewritten

\* What a reader is sent is a part of the ring, behind its cursor.
LEMMA ReadPart ==
    ASSUME ring \in Seq(Entry), NEW since, NEW n \in Nat
    PROVE  /\ Read(since, n) \in Seq(Entry) /\ IsPart(Read(since, n), ring)
           /\ since # Fresh => \A i \in DOMAIN Read(since, n) : Read(since, n)[i].id > since
<1>1. CASE since = Fresh
  <2>1. Read(since, n) = NewestOf(ring, n)
    BY <1>1 DEF Read
  <2> QED
    BY <1>1, <2>1, Newest
<1>2. CASE since # Fresh
  <2> DEFINE new == {i \in DOMAIN ring : ring[i].id > since}
             t == Those(ring, new)
             u == OldestOf(t, n)
  <2>1. Read(since, n) = u
    BY <1>2 DEF Read
  <2>2. /\ t \in Seq(Entry) /\ IsPart(t, ring)
        /\ \A k \in DOMAIN t : \E i \in new : t[k] = ring[i]
    <3>1. new \in SUBSET DOMAIN ring
      OBVIOUS
    <3> HIDE DEF new
    <3> QED
      BY <3>1, ThoseProperties
  <2>3. \A k \in DOMAIN t : t[k].id > since
    BY <2>2
  <2> HIDE DEF t, new
  <2>4. u \in Seq(Entry) /\ IsPart(u, t) /\ \A i \in DOMAIN u : i \in DOMAIN t /\ u[i] = t[i]
    BY <2>2, Oldest
  <2> HIDE DEF u
  <2>5. IsPart(u, ring)
    BY <2>2, <2>4, PartOfPart
  <2> QED
    BY <1>2, <2>1, <2>3, <2>4, <2>5
<1> QED
  BY <1>1, <1>2

LEMMA AnswerPart ==
    ASSUME ring \in Seq(Entry), NEW r \in Reader
    PROVE  /\ Answered(r) \in Seq(Entry) /\ IsPart(Answered(r), ring)
           /\ cursor[r] # Fresh => \A i \in DOMAIN Answered(r) : Answered(r)[i].id > cursor[r]
<1>1. MaxCount[r] \in Nat /\ Capacity \in Nat
  BY FeedConstants
<1>2. CASE r \notin Filtered
  BY <1>1, <1>2, ReadPart DEF Answered
<1>3. CASE r \in Filtered
  <2> DEFINE s == Read(cursor[r], Times4(MaxCount[r]))
             t == Matches(s)
             u == OldestOf(t, MaxCount[r])
  <2>1. Times4(MaxCount[r]) \in Nat
    BY <1>1 DEF Times4
  <2>2. /\ s \in Seq(Entry) /\ IsPart(s, ring)
        /\ cursor[r] # Fresh => \A i \in DOMAIN s : s[i].id > cursor[r]
    BY <2>1, ReadPart
  <2>3. Answered(r) = u
    BY <1>3 DEF Answered
  <2> HIDE DEF s
  <2>4. t \in Seq(Entry) /\ IsPart(t, s)
    BY <2>2, ThoseProperties DEF Matches
  <2> HIDE DEF t
  <2>5. u \in Seq(Entry) /\ IsPart(u, t)
    BY <1>1, <2>4, Oldest
  <2> HIDE DEF u
  <2>6. IsPart(u, s) /\ IsPart(u, ring)
    BY <2>2, <2>4, <2>5, PartOfPart
  <2>7. cursor[r] # Fresh => \A i \in DOMAIN u : u[i].id > cursor[r]
    BY <2>2, <2>6 DEF IsPart
  <2> QED
    BY <2>3, <2>5, <2>6, <2>7
<1> QED
  BY <1>2, <1>3

LEMMA ResumeTyped ==
    ASSUME NEW s \in Seq(Entry)
    PROVE  /\ Resume(s) \in 0 .. ActEvents \cup {Fresh}
           /\ s = << >> => Resume(s) = Fresh
           /\ s # << >> => Len(s) \in DOMAIN s /\ Resume(s) = s[Len(s)].id /\ Resume(s) # Fresh
<1>1. CASE s = << >>
  BY <1>1 DEF Resume
<1>2. CASE s # << >>
  <2>1. Len(s) \in Nat /\ Len(s) # 0 /\ DOMAIN s = 1 .. Len(s)
    BY <1>2, LenProperties, EmptySeq
  <2>2. Len(s) \in DOMAIN s
    BY <2>1
  <2>3. s[Len(s)] \in Entry
    BY <2>1, <2>2, ElementOfSeq
  <2>4. s[Len(s)].id \in 0 .. ActEvents
    BY <2>3, FeedConstants DEF Entry
  <2>5. Resume(s) = s[Len(s)].id
    BY <1>2 DEF Resume
  <2> QED
    BY <1>2, <2>2, <2>4, <2>5, FeedConstants
<1> QED
  BY <1>1, <1>2

LEMMA MaxIdTyped ==
    ASSUME NEW s \in Seq(Line), NEW n \in Nat, Numbered(s, n)
    PROVE  MaxId(s) \in Nat /\ MaxId(s) <= n /\ \A i \in DOMAIN s : s[i].id <= MaxId(s)
<1> DEFINE ids == {s[i].id : i \in DOMAIN s}
<1>1. Len(s) \in Nat /\ DOMAIN s = 1 .. Len(s) /\ \A i \in DOMAIN s : s[i] \in Line
  BY LenProperties, ElementOfSeq
<1>2. CASE s = << >>
  <2>1. DOMAIN s = {} /\ MaxId(s) = 0
    BY <1>1, <1>2, EmptySeq DEF MaxId
  <2> QED
    BY <2>1
<1>3. CASE s # << >>
  <2>1. ids \in SUBSET (0 .. n) /\ ids \in SUBSET Nat
    BY <1>1, LineIds DEF Numbered
  <2>2. IsFiniteSet(0 .. n)
    BY FS_Interval
  <2>3. IsFiniteSet(ids)
    BY <2>1, <2>2, FS_Subset
  <2>4. ids # {}
    <3>1. Len(s) # 0
      BY <1>3, EmptySeq
    <3>2. 1 \in DOMAIN s
      BY <1>1, <3>1
    <3> QED
      BY <3>2
  <2>5. Max(ids) \in ids /\ \A x \in ids : x <= Max(ids)
    BY <2>1, <2>3, <2>4, Maximum
  <2>6. MaxId(s) = Max(ids)
    BY <1>3 DEF MaxId
  <2>7. \A i \in DOMAIN s : s[i].id \in ids
    OBVIOUS
  <2> HIDE DEF ids
  <2>8. MaxId(s) \in 0 .. n
    BY <2>1, <2>5, <2>6
  <2> QED
    BY <2>5, <2>6, <2>7, <2>8
<1> QED
  BY <1>2, <1>3

LEMMA FeedStarts == ActInit => FeedTypes
<1> SUFFICES ASSUME ActInit PROVE FeedTypes
  OBVIOUS
<1>1. << >> \in Seq(Entry) /\ << >> \in Seq(Line) /\ Len(<< >>) = 0 /\ DOMAIN << >> = {}
  BY EmptySeq
<1>2. ActTypeOK
  BY <1>1, FeedConstants, ActivityAssumption DEF ActInit, ActTypeOK
<1>3. LinesBounded /\ IdsBounded
  BY <1>1, FeedConstants DEF ActInit, LinesBounded, IdsBounded, Numbered
<1> QED
  BY <1>2, <1>3 DEF FeedTypes

LEMMA AppendTyped == FeedTypes /\ AppendEvent => FeedTypes'
<1> SUFFICES ASSUME FeedTypes, AppendEvent PROVE FeedTypes'
  OBVIOUS
<1> DEFINE entry == [id |-> nextSequence + 1, ev |-> appended + 1]
<1>1. /\ ring \in Seq(Entry) /\ nextSequence \in Nat /\ appended \in Nat /\ appendErrors \in Nat
      /\ nextSequence <= appended /\ Numbered(ring, appended) /\ Numbered(file, appended)
      /\ file \in Seq(Line) /\ ActEvents \in Nat /\ Capacity \in Nat
      /\ overrun \in [Reader -> SUBSET (1 .. ActEvents)]
  BY FeedConstants DEF FeedTypes, ActTypeOK, IdsBounded
<1>2. appended < ActEvents /\ appended' = appended + 1
  BY DEF AppendEvent
<1>3. entry \in Entry /\ entry.id = nextSequence + 1
  BY <1>1, <1>2 DEF Entry
<1>4. ring' = NewestOf(Append(ring, entry), Capacity) /\ nextSequence' = entry.id
  BY DEF AppendEvent, Push
<1>5. PICK before \in LinesBefore :
          file' \in {AddLine(before, entry), before, CutLine(before)} /\ appendErrors' \in Nat
  BY <1>1 DEF AppendEvent
<1> HIDE DEF entry
<1>6. ring' \in Seq(Entry) /\ Len(ring') <= Capacity /\ Numbered(ring', appended')
  <2> DEFINE s == Append(ring, entry)
  <2>1. /\ s \in Seq(Entry) /\ Len(s) = Len(ring) + 1
        /\ (\A i \in 1 .. Len(ring) : s[i] = ring[i]) /\ s[Len(ring) + 1] = entry
    BY <1>1, <1>3, AppendProperties
  <2> HIDE DEF s
  <2>2. Len(ring) \in Nat /\ DOMAIN ring = 1 .. Len(ring) /\ DOMAIN s = 1 .. Len(ring) + 1
        /\ \A i \in DOMAIN ring : ring[i].id \in Nat
    BY <1>1, <2>1, LenProperties, ElementOfSeq, LineIds
  <2>3. \A i \in 1 .. Len(ring) + 1 : i \in 1 .. Len(ring) \/ i = Len(ring) + 1
    BY <2>2
  <2>4. Numbered(s, appended')
    BY <1>1, <1>2, <1>3, <2>1, <2>2, <2>3 DEF Numbered
  <2>5. ring' = NewestOf(s, Capacity)
    BY <1>4 DEF s
  <2>6. ring' \in Seq(Entry) /\ IsPart(ring', s) /\ Len(ring') = IF Len(s) > Capacity THEN Capacity ELSE Len(s)
    BY <1>1, <2>1, <2>5, Newest
  <2>7. Len(ring') <= Capacity
    BY <1>1, <2>1, <2>2, <2>6
  <2> QED
    BY <2>4, <2>6, <2>7, PartNumbered
<1>7. /\ file' \in Seq(Line) /\ Numbered(file', appended')
      /\ "rewrite" \in ActFaults \/ Len(file') <= FileMax + Capacity + 1
  <2>1. /\ before \in Seq(Line) /\ Numbered(before, appended)
        /\ "rewrite" \in ActFaults \/ Len(before) <= FileMax + Capacity
    BY BeforeTyped
  <2>2. Len(before) \in Nat /\ FileMax \in Nat
    BY <2>1, LenProperties, FeedConstants
  <2>3. Numbered(before, appended')
    <3>1. \A i \in DOMAIN before : before[i].id \in Nat
      BY <2>1, ElementOfSeq, LenProperties, LineIds
    <3> QED
      BY <1>1, <1>2, <2>1, <3>1 DEF Numbered
  <2>4. appended' \in Nat /\ entry.id <= appended'
    BY <1>1, <1>2, <1>3
  <2>5. /\ AddLine(before, entry) \in Seq(Line) /\ Len(AddLine(before, entry)) <= Len(before) + 1
        /\ Numbered(AddLine(before, entry), appended')
    BY <1>3, <2>1, <2>3, <2>4, LineAdded
  <2>6. /\ CutLine(before) \in Seq(Line) /\ Len(CutLine(before)) <= Len(before) + 1
        /\ Numbered(CutLine(before), appended')
    BY <2>1, <2>3, <2>4, LineCut
  <2>7. file' \in Seq(Line) /\ Numbered(file', appended') /\ Len(file') <= Len(before) + 1
    BY <1>5, <2>1, <2>2, <2>3, <2>5, <2>6
  <2>8. Len(file') \in Nat
    BY <2>7, LenProperties
  <2> QED
    BY <1>1, <2>1, <2>2, <2>7, <2>8
<1>8. overrun' \in [Reader -> SUBSET (1 .. ActEvents)]
  <2>1. \A r \in Reader : Len(ring) = Capacity => overrun[r] \cup {ring[1].ev} \in SUBSET (1 .. ActEvents)
    <3>1. Len(ring) = Capacity => ring[1] \in Entry
      BY <1>1, FeedConstants, LenProperties, ElementOfSeq
    <3> QED
      BY <1>1, <3>1 DEF Entry
  <2>2. overrun' = [r \in Reader |-> IF Len(ring) = Capacity THEN overrun[r] \cup {ring[1].ev} ELSE overrun[r]]
    BY DEF AppendEvent
  <2> QED
    BY <1>1, <2>1, <2>2
<1>9. ActTypeOK'
  <2>1. nextSequence' \in 0 .. ActEvents /\ appended' \in 0 .. ActEvents
    BY <1>1, <1>2, <1>3, <1>4
  <2>2. Len(file') \in Nat /\ FileMax \in Nat
    BY <1>7, LenProperties, FeedConstants
  <2>3. "rewrite" \in ActFaults \/ Len(file') <= FileMax + Capacity + 2
    BY <1>1, <1>7, <2>2
  <2>4. UNCHANGED << cursor, delivered, restarts >>
    BY DEF AppendEvent
  <2> QED
    BY <1>5, <1>6, <1>7, <1>8, <2>1, <2>3, <2>4 DEF FeedTypes, ActTypeOK
<1>10. LinesBounded' /\ IdsBounded'
  BY <1>1, <1>2, <1>3, <1>4, <1>6, <1>7 DEF LinesBounded, IdsBounded
<1> QED
  BY <1>9, <1>10 DEF FeedTypes

LEMMA ParsedLines ==
    ASSUME NEW s \in Seq(Line)
    PROVE  /\ Parsed(s) \in Seq(Entry)
           /\ IsPart(Parsed(s), s)
           /\ (\A i \in DOMAIN s : s[i] \in Entry) => Parsed(s) = s
<1> DEFINE good == {i \in DOMAIN s : s[i] \in Entry}
           t == Those(s, good)
<1>1. good \in SUBSET DOMAIN s /\ Parsed(s) = t
  BY DEF Parsed
<1>2. \A i \in good : s[i] \in Entry
  OBVIOUS
<1>3. (\A i \in DOMAIN s : s[i] \in Entry) => good = DOMAIN s
  OBVIOUS
<1> HIDE DEF good
<1>4. t \in Seq(Line) /\ IsPart(t, s) /\ \A k \in DOMAIN t : \E i \in good : t[k] = s[i]
  BY <1>1, ThoseProperties
<1> HIDE DEF t
<1>5. DOMAIN t = 1 .. Len(t) /\ Len(t) \in Nat /\ t = [k \in 1 .. Len(t) |-> t[k]]
  BY <1>4, LenProperties
<1>6. \A k \in 1 .. Len(t) : t[k] \in Entry
  BY <1>2, <1>4, <1>5
<1>7. t \in Seq(Entry)
  BY <1>5, <1>6
<1> QED
  BY <1>1, <1>3, <1>4, <1>7, ThoseAll DEF t

LEMMA RestartTyped == FeedTypes /\ RestartFeed => FeedTypes'
<1> SUFFICES ASSUME FeedTypes, RestartFeed PROVE FeedTypes'
  OBVIOUS
<1>1. /\ file \in Seq(Line) /\ Numbered(file, appended) /\ appended \in 0 .. ActEvents /\ appended \in Nat
      /\ delivered \in [Reader -> Seq(Entry)] /\ cursor \in [Reader -> 0 .. ActEvents \cup {Fresh}]
      /\ restarts \in 0 .. ActRestarts /\ ActRestarts \in Nat
      /\ FileMax \in Nat /\ Capacity \in Nat /\ ActEvents \in Nat
  BY FeedConstants, ActivityAssumption DEF FeedTypes, ActTypeOK, IdsBounded
<1>2. Len(file) \in Nat
  BY <1>1, LenProperties
<1>3. file' \in Seq(Line) /\ Numbered(file', appended) /\ LinesBounded'
      /\ ("rewrite" \in ActFaults \/ Len(file') <= FileMax + Capacity + 2)
  <2>1. CASE file' = file
    BY <1>1, <2>1 DEF FeedTypes, ActTypeOK, LinesBounded
  <2>2. CASE file' = CutLine(file)
    <3>1. /\ file' \in Seq(Line) /\ EndsTorn(file') /\ Len(file') <= Len(file) + 1
          /\ (EndsTorn(file) => file' = file) /\ Numbered(file', appended)
      BY <1>1, <2>2, LineCut
    <3>2. Len(file') \in Nat
      BY <3>1, LenProperties
    <3>3. /\ "rewrite" \in ActFaults \/ Len(file) <= FileMax + Capacity + 2
          /\ "rewrite" \in ActFaults \/ Len(file) <= FileMax + Capacity + 1 \/ EndsTorn(file)
      BY DEF FeedTypes, ActTypeOK, LinesBounded
    <3>4. "rewrite" \in ActFaults \/ Len(file') <= FileMax + Capacity + 2
      BY <1>1, <1>2, <3>1, <3>2, <3>3
    <3> QED
      BY <3>1, <3>4 DEF LinesBounded
  <2> QED
    BY <2>1, <2>2 DEF RestartFeed
<1>4. /\ appended' = appended /\ restarts' = restarts + 1 /\ restarts < ActRestarts /\ appendErrors' = 0
      /\ ring' = NewestOf(Parsed(file'), Capacity) /\ nextSequence' = MaxId(file')
      /\ UNCHANGED << delivered, overrun >>
      /\ cursor' = [r \in Reader |-> IF r \in Stream THEN Resume(delivered[r]) ELSE cursor[r]]
  BY DEF RestartFeed, Loaded
<1>5. ring' \in Seq(Entry) /\ Len(ring') <= Capacity /\ Numbered(ring', appended)
  <2> DEFINE s == Parsed(file')
  <2>1. s \in Seq(Entry) /\ IsPart(s, file')
    BY <1>3, ParsedLines
  <2> HIDE DEF s
  <2>2. Len(s) \in Nat /\ Numbered(s, appended)
    BY <1>3, <2>1, LenProperties, PartNumbered
  <2>3. ring' \in Seq(Entry) /\ IsPart(ring', s) /\ Len(ring') = IF Len(s) > Capacity THEN Capacity ELSE Len(s)
    BY <1>1, <1>4, <2>1, Newest DEF s
  <2>4. Len(ring') <= Capacity
    BY <1>1, <2>2, <2>3
  <2> QED
    BY <2>2, <2>3, <2>4, PartNumbered
<1>6. nextSequence' \in 0 .. appended
  BY <1>1, <1>3, <1>4, MaxIdTyped
<1>7. cursor' \in [Reader -> 0 .. ActEvents \cup {Fresh}]
  <2>1. \A r \in Reader : Resume(delivered[r]) \in 0 .. ActEvents \cup {Fresh}
    BY <1>1, ResumeTyped
  <2> QED
    BY <1>1, <1>4, <2>1
<1>8. ActTypeOK'
  BY <1>1, <1>3, <1>4, <1>5, <1>6, <1>7 DEF FeedTypes, ActTypeOK
<1>9. IdsBounded'
  BY <1>1, <1>3, <1>4, <1>5, <1>6 DEF IdsBounded
<1> QED
  BY <1>3, <1>8, <1>9 DEF FeedTypes

LEMMA ReaderTyped ==
    ASSUME FeedTypes, NEW r \in Reader, Poll(r) \/ Tick(r) \/ Reconnect(r)
    PROVE  FeedTypes'
<1>1. /\ ring \in Seq(Entry) /\ delivered \in [Reader -> Seq(Entry)] /\ nextSequence \in 0 .. ActEvents
      /\ cursor \in [Reader -> 0 .. ActEvents \cup {Fresh}]
  BY DEF FeedTypes, ActTypeOK
<1>2. Answered(r) \in Seq(Entry) /\ Len(Answered(r)) \in Nat
  BY <1>1, AnswerPart, LenProperties
<1>3. \E s \in Seq(Entry) : delivered' = [delivered EXCEPT ![r] = @ \o s]
  <2>1. \A k \in 0 .. Len(Answered(r)) : OldestOf(Answered(r), k) \in Seq(Entry)
    BY <1>2, Oldest
  <2> QED
    BY <1>2, <2>1 DEF Poll, Tick, Reconnect, Deliver
<1>4. delivered' \in [Reader -> Seq(Entry)]
  BY <1>1, <1>3, ConcatProperties
<1>5. cursor' \in [Reader -> 0 .. ActEvents \cup {Fresh}]
  <2>1. Resume(delivered'[r]) \in 0 .. ActEvents \cup {Fresh}
    BY <1>4, ResumeTyped
  <2> QED
    BY <1>1, <2>1 DEF Poll, Tick, Reconnect
<1>6. UNCHANGED << ring, nextSequence, file, appendErrors, overrun, appended, restarts >>
  BY DEF Poll, Tick, Reconnect
<1> QED
  BY <1>4, <1>5, <1>6 DEF FeedTypes, ActTypeOK, LinesBounded, IdsBounded, Numbered, EndsTorn

LEMMA FeedTypesKept == FeedTypes /\ [ActNext]_actVars => FeedTypes'
<1>1. FeedTypes /\ UNCHANGED actVars => FeedTypes'
  BY DEF actVars, FeedTypes, ActTypeOK, LinesBounded, IdsBounded, Numbered, EndsTorn
<1> QED
  BY <1>1, AppendTyped, RestartTyped, ReaderTyped DEF ActNext

-----------------------------------------------------------------------------
(* The invariant of the activity feed *)

Event(n) == [id |-> n, ev |-> n]

\* A list of the events that end with the n-th.
EndsAt(s, n) == Len(s) <= n /\ \A i \in DOMAIN s : s[i] = Event(n - Len(s) + i)

RingKnown ==
    /\ nextSequence = appended /\ EndsAt(ring, appended)
    /\ Len(ring) = IF appended < Capacity THEN appended ELSE Capacity
FileKnown == appendErrors = 0 => EndsAt(file, appended) /\ Len(file) >= Len(ring)
OverrunKnown == \A r \in Reader : overrun[r] = 1 .. appended - Len(ring)

\* A reader's cursor c is not behind what it received, which is in order.
InOrder(d) ==
    /\ \A i \in DOMAIN d : d[i].id = d[i].ev
    /\ \A i, j \in DOMAIN d : i < j => d[i].ev < d[j].ev
Sound(d, c, n) ==
    /\ c = Fresh => d = << >>
    /\ c # Fresh => c <= n /\ \A i \in DOMAIN d : d[i].ev <= c
    /\ InOrder(d)

\* It received what the ring holds up to its cursor.
CaughtUp(d, c, s) ==
    c # Fresh => \A i \in DOMAIN s : s[i].ev <= c => \E j \in DOMAIN d : d[j].ev = s[i].ev

ReaderKnown(r) ==
    /\ Sound(delivered[r], cursor[r], appended)
    /\ r \in Unlimited => CaughtUp(delivered[r], cursor[r], ring)

FeedInv ==
    /\ FeedTypes /\ RingKnown /\ FileKnown /\ OverrunKnown
    /\ \A r \in Reader : ReaderKnown(r)

LEMMA AppendEnds ==
    ASSUME NEW S, NEW s \in Seq(S), NEW n \in Nat, EndsAt(s, n), Event(n + 1) \in S
    PROVE  EndsAt(Append(s, Event(n + 1)), n + 1)
<1> DEFINE t == Append(s, Event(n + 1))
<1>1. /\ t \in Seq(S) /\ Len(t) = Len(s) + 1
      /\ (\A i \in 1 .. Len(s) : t[i] = s[i]) /\ t[Len(s) + 1] = Event(n + 1)
  BY AppendProperties
<1> HIDE DEF t
<1>2. Len(s) \in Nat /\ DOMAIN s = 1 .. Len(s) /\ DOMAIN t = 1 .. Len(s) + 1
  BY <1>1, LenProperties
<1>3. \A i \in 1 .. Len(s) + 1 : t[i] = Event(n + 1 - Len(t) + i)
  <2> SUFFICES ASSUME NEW i \in 1 .. Len(s) + 1 PROVE t[i] = Event(n + 1 - Len(t) + i)
    OBVIOUS
  <2>1. n + 1 - Len(t) + i = n - Len(s) + i
    BY <1>1, <1>2
  <2>2. CASE i \in 1 .. Len(s)
    BY <1>1, <1>2, <2>1, <2>2 DEF EndsAt
  <2>3. CASE i = Len(s) + 1
    <3>1. n - Len(s) + i = n + 1
      BY <1>2, <2>3
    <3> QED
      BY <1>1, <2>1, <2>3, <3>1
  <2> QED
    BY <1>2, <2>2, <2>3
<1>4. Len(t) <= n + 1
  BY <1>1, <1>2 DEF EndsAt
<1> QED
  BY <1>2, <1>3, <1>4 DEF EndsAt, t

LEMMA NewestEnds ==
    ASSUME NEW S, NEW s \in Seq(S), NEW m \in Nat, NEW n \in Nat, EndsAt(s, n)
    PROVE  EndsAt(NewestOf(s, m), n)
<1> DEFINE t == NewestOf(s, m)
<1>1. /\ t \in Seq(S) /\ Len(t) = IF Len(s) > m THEN m ELSE Len(s)
      /\ \A i \in DOMAIN t : Len(s) - Len(t) + i \in DOMAIN s /\ t[i] = s[Len(s) - Len(t) + i]
  BY Newest
<1> HIDE DEF t
<1>2. Len(s) \in Nat /\ Len(t) \in Nat /\ DOMAIN t = 1 .. Len(t)
  BY <1>1, LenProperties
<1>3. Len(t) <= n
  BY <1>1, <1>2 DEF EndsAt
<1>4. ASSUME NEW i \in DOMAIN t PROVE t[i] = Event(n - Len(t) + i)
  <2>1. t[i] = Event(n - Len(s) + (Len(s) - Len(t) + i))
    BY <1>1 DEF EndsAt
  <2>2. n - Len(s) + (Len(s) - Len(t) + i) = n - Len(t) + i
    BY <1>2
  <2> QED
    BY <2>1, <2>2
<1> QED
  BY <1>3, <1>4 DEF EndsAt, t

\* A run of events is known by its length.
LEMMA SameEnds ==
    ASSUME NEW S, NEW s \in Seq(S), NEW T, NEW t \in Seq(T), NEW n \in Nat,
           EndsAt(s, n), EndsAt(t, n), Len(s) = Len(t)
    PROVE  s = t
<1>1. /\ DOMAIN s = 1 .. Len(s) /\ DOMAIN t = 1 .. Len(s)
      /\ s = [i \in 1 .. Len(s) |-> s[i]] /\ t = [i \in 1 .. Len(s) |-> t[i]]
  BY LenProperties
<1>2. \A i \in 1 .. Len(s) : s[i] = t[i]
  BY <1>1 DEF EndsAt
<1> QED
  BY <1>1, <1>2

\* The events of the ring are numbered in order.
LEMMA RingEvents ==
    ASSUME FeedInv
    PROVE  /\ ring \in Seq(Entry) /\ Len(ring) \in Nat /\ DOMAIN ring = 1 .. Len(ring) /\ appended \in Nat
           /\ \A i \in DOMAIN ring :
                 ring[i] = Event(appended - Len(ring) + i) /\ ring[i].id = appended - Len(ring) + i
                 /\ ring[i].ev = appended - Len(ring) + i /\ appended - Len(ring) + i \in 1 .. appended
<1>1. ring \in Seq(Entry) /\ appended \in Nat /\ EndsAt(ring, appended)
  BY FeedConstants DEF FeedInv, FeedTypes, ActTypeOK, RingKnown
<1>2. Len(ring) \in Nat /\ DOMAIN ring = 1 .. Len(ring) /\ Len(ring) <= appended
  BY <1>1, LenProperties DEF EndsAt
<1> QED
  BY <1>1, <1>2 DEF EndsAt, Event

LEMMA ReaderTypes ==
    ASSUME FeedInv, NEW r \in Reader
    PROVE  /\ delivered[r] \in Seq(Entry) /\ Len(delivered[r]) \in Nat
           /\ DOMAIN delivered[r] = 1 .. Len(delivered[r])
           /\ cursor[r] \in Nat \cup {Fresh}
           /\ \A i \in DOMAIN delivered[r] : delivered[r][i].ev \in Nat
<1>1. delivered[r] \in Seq(Entry) /\ cursor[r] \in 0 .. ActEvents \cup {Fresh}
  BY DEF FeedInv, FeedTypes, ActTypeOK
<1>2. Len(delivered[r]) \in Nat /\ DOMAIN delivered[r] = 1 .. Len(delivered[r])
  BY <1>1, LenProperties
<1>3. \A i \in DOMAIN delivered[r] : delivered[r][i] \in Entry
  BY <1>1, <1>2, ElementOfSeq
<1>4. \A e \in Entry : e.ev \in Nat
  BY FeedConstants DEF Entry
<1>5. cursor[r] \in Nat \cup {Fresh}
  BY <1>1, FeedConstants
<1> QED
  BY <1>1, <1>2, <1>3, <1>4, <1>5

LEMMA AllOf ==
    ASSUME NEW S, NEW s \in Seq(S), NEW n \in Nat, Len(s) <= n
    PROVE  NewestOf(s, n) = s /\ OldestOf(s, n) = s
<1>1. Len(s) \in Nat /\ DOMAIN s = 1 .. Len(s) /\ s = [i \in 1 .. Len(s) |-> s[i]]
  BY LenProperties
<1>2. ASSUME NEW t \in Seq(S), Len(t) = Len(s), \A i \in DOMAIN t : t[i] = s[i]
      PROVE  t = s
  <2>1. DOMAIN t = 1 .. Len(s) /\ t = [i \in 1 .. Len(s) |-> t[i]]
    BY <1>2, LenProperties
  <2> QED
    BY <1>1, <1>2, <2>1
<1>3. NewestOf(s, n) = s
  <2> DEFINE t == NewestOf(s, n)
  <2>1. /\ t \in Seq(S) /\ Len(t) = Len(s)
        /\ \A i \in DOMAIN t : t[i] = s[Len(s) - Len(t) + i]
    BY <1>1, Newest
  <2> HIDE DEF t
  <2>2. DOMAIN t = 1 .. Len(s) /\ \A i \in 1 .. Len(s) : Len(s) - Len(t) + i = i
    BY <1>1, <2>1, LenProperties
  <2>3. t = s
    BY <1>2, <2>1, <2>2
  <2> QED
    BY <2>3 DEF t
<1>4. OldestOf(s, n) = s
  <2> DEFINE t == OldestOf(s, n)
  <2>1. t \in Seq(S) /\ Len(t) = Len(s) /\ \A i \in DOMAIN t : t[i] = s[i]
    BY <1>1, Oldest
  <2> HIDE DEF t
  <2>2. t = s
    BY <1>2, <2>1
  <2> QED
    BY <2>2 DEF t
<1> QED
  BY <1>3, <1>4

\* What a reader is sent: events in order, that it did not have; all of them if
\* it has neither filter nor cap.
LEMMA AnswerKnown ==
    ASSUME FeedInv, NEW r \in Reader
    PROVE  LET a == Answered(r) IN
           /\ a \in Seq(Entry) /\ InOrder(a)
           /\ \A i \in DOMAIN a : a[i].ev \in 1 .. appended
           /\ cursor[r] # Fresh => \A i \in DOMAIN a : a[i].ev > cursor[r]
           /\ r \in Unlimited =>
                 \A i \in DOMAIN ring : cursor[r] = Fresh \/ ring[i].ev > cursor[r] =>
                     \E j \in DOMAIN a : a[j] = ring[i]
<1> DEFINE a == Answered(r)
<1>1. /\ ring \in Seq(Entry) /\ Len(ring) \in Nat /\ DOMAIN ring = 1 .. Len(ring) /\ appended \in Nat
      /\ \A i \in DOMAIN ring : ring[i].id = appended - Len(ring) + i
             /\ ring[i].ev = appended - Len(ring) + i /\ appended - Len(ring) + i \in 1 .. appended
  BY RingEvents
<1>2. /\ a \in Seq(Entry) /\ IsPart(a, ring)
      /\ cursor[r] # Fresh => \A i \in DOMAIN a : a[i].id > cursor[r]
  BY <1>1, AnswerPart
<1> HIDE DEF a
<1>3. PICK f \in [DOMAIN a -> DOMAIN ring] : /\ \A i \in DOMAIN a : a[i] = ring[f[i]]
                                             /\ \A i, j \in DOMAIN a : i < j => f[i] < f[j]
  BY <1>2 DEF IsPart
<1>4. \A i \in DOMAIN a : f[i] \in DOMAIN ring /\ a[i].id = appended - Len(ring) + f[i]
                          /\ a[i].ev = appended - Len(ring) + f[i] /\ a[i].ev \in 1 .. appended
  BY <1>1, <1>3
<1>5. InOrder(a)
  <2>1. \A i \in DOMAIN a : a[i].id = a[i].ev
    BY <1>4
  <2>2. ASSUME NEW i \in DOMAIN a, NEW j \in DOMAIN a, i < j PROVE a[i].ev < a[j].ev
    <3>1. f[i] < f[j] /\ f[i] \in Nat /\ f[j] \in Nat
      BY <1>1, <1>3, <2>2
    <3> QED
      BY <1>1, <1>4, <3>1
  <2> QED
    BY <2>1, <2>2 DEF InOrder
<1>6. cursor[r] # Fresh => \A i \in DOMAIN a : a[i].ev > cursor[r]
  BY <1>2, <1>4
<1>7. ASSUME r \in Unlimited
      PROVE  \A i \in DOMAIN ring : cursor[r] = Fresh \/ ring[i].ev > cursor[r] =>
                 \E j \in DOMAIN a : a[j] = ring[i]
  <2>1. a = Read(cursor[r], Capacity) /\ Capacity \in Nat /\ Len(ring) <= Capacity
    BY <1>7, FeedConstants DEF a, Unlimited, Answered, FeedInv, FeedTypes, ActTypeOK
  <2>2. CASE cursor[r] = Fresh
    <3>1. a = NewestOf(ring, Capacity)
      BY <2>1, <2>2 DEF Read
    <3>2. a = ring
      BY <1>1, <2>1, <3>1, AllOf
    <3> QED
      BY <3>2
  <2>3. CASE cursor[r] # Fresh
    <3> DEFINE new == {i \in DOMAIN ring : ring[i].id > cursor[r]}
               t == Those(ring, new)
    <3>1. a = OldestOf(t, Capacity)
      BY <2>1, <2>3 DEF Read
    <3>2. new \in SUBSET DOMAIN ring /\ \A i \in DOMAIN ring : ring[i].ev > cursor[r] => i \in new
      BY <1>1
    <3> HIDE DEF new
    <3>3. /\ t \in Seq(Entry) /\ Len(t) <= Len(ring)
          /\ \A i \in new : \E k \in DOMAIN t : t[k] = ring[i]
      BY <1>1, <3>2, ThoseProperties
    <3> HIDE DEF t
    <3>4. Len(t) \in Nat /\ Len(t) <= Capacity /\ DOMAIN t = 1 .. Len(t)
      BY <1>1, <2>1, <3>3, LenProperties
    <3>5. a = t
      BY <2>1, <3>1, <3>3, <3>4, AllOf
    <3> QED
      BY <2>3, <3>2, <3>3, <3>5
  <2> QED
    BY <2>2, <2>3
<1> QED
  BY <1>2, <1>4, <1>5, <1>6, <1>7 DEF a

\* A reader that receives more: b follows what it had, d, in e.
Follows(e, d, b, n) ==
    /\ e \in Seq(Entry) /\ InOrder(e) /\ \A i \in DOMAIN e : e[i].ev \in Nat /\ e[i].ev <= n
    /\ \A j \in DOMAIN d : \E i \in DOMAIN e : e[i] = d[j]
    /\ \A j \in DOMAIN b : \E i \in DOMAIN e : e[i] = b[j]
    /\ e # << >> => e[Len(e)] = IF b # << >> THEN b[Len(b)] ELSE d[Len(d)]
    /\ b = << >> => e = d

LEMMA Extended ==
    ASSUME NEW d \in Seq(Entry), NEW c \in Nat \cup {Fresh}, NEW n \in Nat, Sound(d, c, n),
           NEW b \in Seq(Entry), InOrder(b), \A i \in DOMAIN b : b[i].ev \in 1 .. n,
           c # Fresh => \A i \in DOMAIN b : b[i].ev > c
    PROVE  Follows(d \o b, d, b, n)
<1> DEFINE e == d \o b
<1>1. /\ Len(d) \in Nat /\ DOMAIN d = 1 .. Len(d) /\ Len(b) \in Nat /\ DOMAIN b = 1 .. Len(b)
      /\ d \o << >> = d /\ << >> \o b = b
  BY LenProperties, ConcatEmptySeq
<1>2. /\ e \in Seq(Entry) /\ Len(e) = Len(d) + Len(b)
      /\ \A i \in 1 .. Len(d) + Len(b) : e[i] = IF i <= Len(d) THEN d[i] ELSE b[i - Len(d)]
  BY ConcatProperties
<1>3. b = << >> => e = d
  BY <1>1
<1> HIDE DEF e
<1>4. DOMAIN e = 1 .. Len(d) + Len(b)
  BY <1>2, LenProperties
<1>5. \A i \in DOMAIN e : \/ i \in DOMAIN d /\ e[i] = d[i]
                          \/ i > Len(d) /\ i - Len(d) \in DOMAIN b /\ e[i] = b[i - Len(d)]
  BY <1>1, <1>2, <1>4
<1>6. \A i \in DOMAIN d : d[i].ev \in Nat /\ d[i].ev <= n /\ c # Fresh /\ c \in Nat /\ d[i].ev <= c
  <2>1. \A x \in Entry : x.ev \in Nat
    BY FeedConstants DEF Entry
  <2>2. \A i \in DOMAIN d : d[i] \in Entry
    BY <1>1, ElementOfSeq
  <2>3. d # << >> \/ DOMAIN d = {}
    BY <1>1, EmptySeq
  <2> QED
    BY <2>1, <2>2, <2>3 DEF Sound
<1>7. \A i \in DOMAIN e : e[i].ev \in Nat /\ e[i].ev <= n /\ e[i].id = e[i].ev
  BY <1>5, <1>6 DEF Sound, InOrder
<1>8. ASSUME NEW i \in DOMAIN e, NEW j \in DOMAIN e, i < j PROVE e[i].ev < e[j].ev
  <2>1. CASE i \in DOMAIN d /\ j \in DOMAIN d /\ e[i] = d[i] /\ e[j] = d[j]
    BY <1>8, <2>1 DEF Sound, InOrder
  <2>2. CASE i - Len(d) \in DOMAIN b /\ j - Len(d) \in DOMAIN b
             /\ e[i] = b[i - Len(d)] /\ e[j] = b[j - Len(d)]
    <3>1. i - Len(d) < j - Len(d)
      BY <1>1, <1>4, <1>8
    <3> QED
      BY <2>2, <3>1 DEF InOrder
  <2>3. CASE i \in DOMAIN d /\ e[i] = d[i] /\ j - Len(d) \in DOMAIN b /\ e[j] = b[j - Len(d)]
    <3>1. c \in Nat /\ e[i].ev <= c /\ e[j].ev > c /\ e[j].ev \in Nat /\ e[i].ev \in Nat
      BY <1>6, <1>7, <2>3
    <3> QED
      BY <3>1
  <2> QED
    BY <1>1, <1>4, <1>5, <1>8, <2>1, <2>2, <2>3
<1>9. InOrder(e)
  BY <1>7, <1>8 DEF InOrder
<1>10. \A j \in DOMAIN d : j \in DOMAIN e /\ e[j] = d[j]
  BY <1>1, <1>2, <1>4
<1>11. \A j \in DOMAIN b : Len(d) + j \in DOMAIN e /\ e[Len(d) + j] = b[j]
  <2> SUFFICES ASSUME NEW j \in DOMAIN b PROVE Len(d) + j \in DOMAIN e /\ e[Len(d) + j] = b[j]
    OBVIOUS
  <2>1. Len(d) + j \in 1 .. Len(d) + Len(b) /\ ~(Len(d) + j <= Len(d)) /\ Len(d) + j - Len(d) = j
    BY <1>1
  <2> QED
    BY <1>2, <1>4, <2>1
<1>12. e # << >> => e[Len(e)] = IF b # << >> THEN b[Len(b)] ELSE d[Len(d)]
  <2>1. CASE b = << >>
    BY <1>3, <2>1
  <2>2. CASE b # << >>
    <3>1. Len(b) \in DOMAIN b
      BY <1>1, <2>2, EmptySeq
    <3> QED
      BY <1>2, <1>11, <2>2, <3>1
  <2> QED
    BY <2>1, <2>2
<1> QED
  BY <1>2, <1>3, <1>7, <1>9, <1>10, <1>11, <1>12 DEF e, Follows

\* A list in order ends with its last event.
LEMMA LastIsLatest ==
    ASSUME NEW d \in Seq(Entry), InOrder(d), NEW i \in DOMAIN d
    PROVE  /\ d # << >> /\ Len(d) \in DOMAIN d /\ d[Len(d)].id = d[Len(d)].ev
           /\ d[i].ev \in Nat /\ d[Len(d)].ev \in Nat /\ d[i].ev <= d[Len(d)].ev
<1>1. Len(d) \in Nat /\ DOMAIN d = 1 .. Len(d) /\ d # << >> /\ \A j \in DOMAIN d : d[j] \in Entry
  BY LenProperties, ElementOfSeq, EmptySeq
<1>2. Len(d) \in DOMAIN d
  BY <1>1
<1>3. \A e \in Entry : e.ev \in Nat
  BY FeedConstants DEF Entry
<1>4. d[i].ev \in Nat /\ d[Len(d)].ev \in Nat
  BY <1>1, <1>2, <1>3
<1>5. i = Len(d) \/ i < Len(d)
  BY <1>1
<1> QED
  BY <1>1, <1>2, <1>4, <1>5 DEF InOrder

LEMMA ResumeSound ==
    ASSUME NEW d \in Seq(Entry), InOrder(d), NEW n \in Nat, \A i \in DOMAIN d : d[i].ev <= n
    PROVE  Sound(d, Resume(d), n)
<1>1. /\ d = << >> => Resume(d) = Fresh
      /\ d # << >> => Len(d) \in DOMAIN d /\ Resume(d) = d[Len(d)].id /\ Resume(d) # Fresh
  BY ResumeTyped
<1>2. CASE d = << >>
  BY <1>1, <1>2 DEF Sound
<1>3. CASE d # << >>
  <2>1. Resume(d) = d[Len(d)].ev /\ Resume(d) <= n
    BY <1>1, <1>3, LastIsLatest
  <2>2. \A i \in DOMAIN d : d[i].ev <= d[Len(d)].ev
    BY LastIsLatest
  <2> QED
    BY <1>1, <1>3, <2>1, <2>2 DEF Sound
<1> QED
  BY <1>2, <1>3

\* Only the reader that acts receives anything.
LEMMA ReaderKeeps ==
    ASSUME FeedInv, NEW r \in Reader, NEW d, NEW c,
           delivered' = [delivered EXCEPT ![r] = d],
           cursor' \in [Reader -> 0 .. ActEvents \cup {Fresh}],
           \A q \in Reader : q # r => cursor'[q] = cursor[q],
           cursor'[r] = c,
           UNCHANGED << ring, nextSequence, file, appendErrors, overrun, appended, restarts >>,
           FeedTypes', Sound(d, c, appended), r \in Unlimited => CaughtUp(d, c, ring)
    PROVE  FeedInv'
<1>1. delivered \in [Reader -> Seq(Entry)]
  BY DEF FeedInv, FeedTypes, ActTypeOK
<1>2. RingKnown' /\ FileKnown' /\ OverrunKnown'
  BY DEF FeedInv, RingKnown, FileKnown, OverrunKnown
<1>3. ASSUME NEW q \in Reader PROVE ReaderKnown(q)'
  <2>1. CASE q = r
    <3>1. delivered'[q] = d /\ cursor'[q] = c
      BY <1>1, <2>1
    <3> QED
      BY <2>1, <3>1 DEF ReaderKnown, Unlimited
  <2>2. CASE q # r
    <3>1. delivered'[q] = delivered[q] /\ cursor'[q] = cursor[q] /\ ReaderKnown(q)
      BY <1>1, <2>2 DEF FeedInv
    <3> QED
      BY <3>1 DEF ReaderKnown, Unlimited
  <2> QED
    BY <2>1, <2>2
<1> QED
  BY <1>2, <1>3 DEF FeedInv

\* A reader that was sent the whole answer is up to date.
LEMMA SentAll ==
    ASSUME FeedInv, NEW r \in Reader
    PROVE  LET d == delivered[r] \o Answered(r) IN
           Sound(d, appended, appended) /\ (r \in Unlimited => CaughtUp(d, appended, ring))
<1> DEFINE a == Answered(r)
           d == delivered[r] \o a
<1>1. /\ a \in Seq(Entry) /\ InOrder(a)
      /\ \A i \in DOMAIN a : a[i].ev \in 1 .. appended
      /\ cursor[r] # Fresh => \A i \in DOMAIN a : a[i].ev > cursor[r]
      /\ r \in Unlimited =>
            \A i \in DOMAIN ring : cursor[r] = Fresh \/ ring[i].ev > cursor[r] =>
                \E j \in DOMAIN a : a[j] = ring[i]
  BY AnswerKnown
<1>2. delivered[r] \in Seq(Entry) /\ cursor[r] \in Nat \cup {Fresh} /\ appended \in Nat
  BY ReaderTypes, RingEvents
<1>3. Sound(delivered[r], cursor[r], appended)
      /\ (r \in Unlimited => CaughtUp(delivered[r], cursor[r], ring))
  BY DEF FeedInv, ReaderKnown
<1> HIDE DEF a
<1>4. Follows(d, delivered[r], a, appended)
  BY <1>1, <1>2, <1>3, Extended
<1> HIDE DEF d
<1>5. Sound(d, appended, appended)
  BY <1>2, <1>4, FeedConstants DEF Sound, Follows
<1>6. ASSUME r \in Unlimited, NEW i \in DOMAIN ring
      PROVE  \E j \in DOMAIN d : d[j].ev = ring[i].ev
  <2>1. ring[i].ev \in Nat
    BY RingEvents
  <2>2. CASE cursor[r] # Fresh /\ ring[i].ev <= cursor[r]
    <3>1. \E j \in DOMAIN delivered[r] : delivered[r][j].ev = ring[i].ev
      BY <1>3, <1>6, <2>2 DEF CaughtUp
    <3> QED
      BY <1>4, <3>1 DEF Follows
  <2>3. CASE cursor[r] = Fresh \/ ring[i].ev > cursor[r]
    <3>1. \E j \in DOMAIN a : a[j] = ring[i]
      BY <1>1, <1>6, <2>3
    <3> QED
      BY <1>4, <3>1 DEF Follows
  <2> QED
    BY <1>2, <2>1, <2>2, <2>3
<1> QED
  BY <1>5, <1>6 DEF CaughtUp, a, d

LEMMA NothingSent ==
    ASSUME FeedInv, NEW r \in Reader
    PROVE  delivered[r] \o << >> = delivered[r]
  BY ReaderTypes, ConcatEmptySeq

LEMMA PollKeeps ==
    ASSUME FeedInv, NEW r \in Reader, Poll(r) \/ Tick(r)
    PROVE  FeedInv'
<1> DEFINE d == delivered[r] \o Answered(r)
<1>1. delivered' = [delivered EXCEPT ![r] = d]
  <2>1. delivered' = [delivered EXCEPT ![r] = @ \o Answered(r)]
    BY DEF Poll, Tick, Deliver
  <2> QED
    BY <2>1
<1>2. /\ UNCHANGED << ring, nextSequence, file, appendErrors, overrun, appended, restarts >>
      /\ \/ cursor' = [cursor EXCEPT ![r] = nextSequence]
         \/ cursor' = cursor /\ Answered(r) = << >>
  BY DEF Poll, Tick
<1>3. FeedTypes' /\ cursor' \in [Reader -> 0 .. ActEvents \cup {Fresh}]
      /\ cursor \in [Reader -> 0 .. ActEvents \cup {Fresh}] /\ nextSequence = appended
  BY ReaderTyped DEF FeedInv, FeedTypes, ActTypeOK, RingKnown
<1>4. \A q \in Reader : q # r => cursor'[q] = cursor[q]
  BY <1>2, <1>3
<1>5. Sound(d, cursor'[r], appended) /\ (r \in Unlimited => CaughtUp(d, cursor'[r], ring))
  <2>1. CASE cursor' = [cursor EXCEPT ![r] = nextSequence]
    <3>1. cursor'[r] = appended
      BY <1>3, <2>1
    <3>2. Sound(d, appended, appended) /\ (r \in Unlimited => CaughtUp(d, appended, ring))
      BY SentAll
    <3> QED
      BY <3>1, <3>2
  <2>2. CASE cursor' = cursor /\ Answered(r) = << >>
    <3>1. d = delivered[r]
      BY <2>2, NothingSent
    <3> QED
      BY <2>2, <3>1 DEF FeedInv, ReaderKnown
  <2> QED
    BY <1>2, <2>1, <2>2
<1> HIDE DEF d
<1> QED
  BY <1>1, <1>2, <1>3, <1>4, <1>5, ReaderKeeps

\* The connection breaks after k events: the stream goes on behind the last one
\* that arrived.
LEMMA SentSome ==
    ASSUME FeedInv, NEW r \in Reader, NEW k \in 0 .. Len(Answered(r))
    PROVE  LET d == delivered[r] \o OldestOf(Answered(r), k) IN
           Sound(d, Resume(d), appended) /\ (r \in Unlimited => CaughtUp(d, Resume(d), ring))
<1> DEFINE a == Answered(r)
           b == OldestOf(a, k)
           d == delivered[r] \o b
           c == cursor[r]
<1>1. /\ a \in Seq(Entry) /\ InOrder(a)
      /\ \A i \in DOMAIN a : a[i].ev \in 1 .. appended
      /\ c # Fresh => \A i \in DOMAIN a : a[i].ev > c
      /\ r \in Unlimited =>
            \A i \in DOMAIN ring : c = Fresh \/ ring[i].ev > c => \E j \in DOMAIN a : a[j] = ring[i]
  BY AnswerKnown
<1>2. delivered[r] \in Seq(Entry) /\ c \in Nat \cup {Fresh} /\ appended \in Nat
  BY ReaderTypes, RingEvents
<1>3. Sound(delivered[r], c, appended) /\ (r \in Unlimited => CaughtUp(delivered[r], c, ring))
  BY DEF FeedInv, ReaderKnown
<1>4. Len(a) \in Nat /\ DOMAIN a = 1 .. Len(a) /\ k \in 0 .. Len(a)
  BY <1>1, LenProperties
<1> HIDE DEF a, c
<1>5. b \in Seq(Entry) /\ Len(b) = k /\ DOMAIN b = 1 .. k /\ \A i \in DOMAIN b : i \in DOMAIN a /\ b[i] = a[i]
  <2>1. /\ b \in Seq(Entry) /\ Len(b) = IF Len(a) > k THEN k ELSE Len(a)
        /\ \A i \in DOMAIN b : i \in DOMAIN a /\ b[i] = a[i]
    BY <1>1, <1>4, Oldest
  <2>2. Len(b) = k
    BY <1>4, <2>1
  <2> QED
    BY <2>1, <2>2, LenProperties
<1> HIDE DEF b
<1>6. InOrder(b) /\ \A i \in DOMAIN b : b[i].ev \in 1 .. appended
  BY <1>1, <1>5 DEF InOrder
<1>7. c # Fresh => \A i \in DOMAIN b : b[i].ev > c
  BY <1>1, <1>5
<1>8. Follows(d, delivered[r], b, appended)
  BY <1>2, <1>3, <1>5, <1>6, <1>7, Extended
<1> HIDE DEF d
<1>9. Sound(d, Resume(d), appended)
  BY <1>2, <1>8, ResumeSound DEF Follows
<1>10. ASSUME r \in Unlimited PROVE CaughtUp(d, Resume(d), ring)
  <2> SUFFICES ASSUME Resume(d) # Fresh, NEW i \in DOMAIN ring, ring[i].ev <= Resume(d)
               PROVE  \E j \in DOMAIN d : d[j].ev = ring[i].ev
    BY DEF CaughtUp
  <2>1. d \in Seq(Entry) /\ d # << >> /\ Len(d) \in DOMAIN d /\ Resume(d) = d[Len(d)].id
    BY <1>8, ResumeTyped DEF Follows
  <2>2. Resume(d) = d[Len(d)].ev /\ Resume(d) \in Nat
    BY <1>8, <2>1 DEF Follows, InOrder
  <2>3. ring[i].ev \in Nat
    BY RingEvents
  <2>4. CASE c # Fresh /\ ring[i].ev <= c
    <3>1. \E j \in DOMAIN delivered[r] : delivered[r][j].ev = ring[i].ev
      BY <1>3, <1>10, <2>4 DEF CaughtUp
    <3> QED
      BY <1>8, <3>1 DEF Follows
  <2>5. CASE c = Fresh \/ ring[i].ev > c
    <3>1. PICK j \in DOMAIN a : a[j] = ring[i]
      BY <1>1, <1>10, <2>5
    <3>2. CASE k = 0
      <4>1. b = << >> /\ d = delivered[r]
        BY <1>5, <1>8, <3>2, EmptySeq DEF Follows
      <4>2. c # Fresh /\ Resume(d) <= c /\ c \in Nat
        BY <1>2, <1>3, <2>1, <2>2, <4>1 DEF Sound
      <4> QED
        BY <2>2, <2>3, <2>5, <4>2
    <3>3. CASE k # 0
      <4>1. k \in DOMAIN b /\ k \in DOMAIN a /\ b # << >>
        BY <1>4, <1>5, <3>3, EmptySeq
      <4>2. Resume(d) = a[k].ev
        BY <1>5, <1>8, <2>1, <2>2, <4>1 DEF Follows
      <4>3. j <= k
        <5> SUFFICES ASSUME k < j PROVE FALSE
          BY <1>4, <4>1
        <5>1. a[k].ev < a[j].ev
          BY <1>1, <4>1 DEF InOrder
        <5> QED
          BY <2>2, <2>3, <3>1, <4>2, <5>1
      <4>4. j \in DOMAIN b /\ b[j] = ring[i]
        BY <1>4, <1>5, <3>1, <4>3
      <4> QED
        BY <1>8, <4>4 DEF Follows
    <3> QED
      BY <3>2, <3>3
  <2> QED
    BY <1>2, <2>3, <2>4, <2>5
<1> QED
  BY <1>9, <1>10 DEF a, b, d

LEMMA ReconnectKeeps ==
    ASSUME FeedInv, NEW r \in Reader, Reconnect(r)
    PROVE  FeedInv'
<1>1. PICK k \in 0 .. Len(Answered(r)) :
          /\ delivered' = [delivered EXCEPT ![r] = @ \o OldestOf(Answered(r), k)]
          /\ cursor' = [cursor EXCEPT ![r] = Resume(delivered'[r])]
  BY DEF Reconnect, Deliver
<1> DEFINE d == delivered[r] \o OldestOf(Answered(r), k)
<1>2. FeedTypes' /\ cursor' \in [Reader -> 0 .. ActEvents \cup {Fresh}]
      /\ cursor \in [Reader -> 0 .. ActEvents \cup {Fresh}] /\ delivered \in [Reader -> Seq(Entry)]
  BY ReaderTyped DEF FeedInv, FeedTypes, ActTypeOK
<1>3. Sound(d, Resume(d), appended) /\ (r \in Unlimited => CaughtUp(d, Resume(d), ring))
  BY SentSome
<1>4. delivered' = [delivered EXCEPT ![r] = d]
  BY <1>1
<1> HIDE DEF d
<1>5. delivered'[r] = d
  BY <1>2, <1>4
<1>6. cursor'[r] = Resume(d) /\ \A q \in Reader : q # r => cursor'[q] = cursor[q]
  BY <1>1, <1>2, <1>5
<1>7. UNCHANGED << ring, nextSequence, file, appendErrors, overrun, appended, restarts >>
  BY DEF Reconnect
<1> QED
  BY <1>2, <1>3, <1>4, <1>6, <1>7, ReaderKeeps

\* The faults of the theorem: a broken stream, and a failed append, which the
\* health answer counts.
CountedFaults == ActFaults \subseteq {"disconnect", "append"}

LEMMA NotTorn ==
    ASSUME NEW s \in Seq(Line), NEW n \in Nat, EndsAt(s, n)
    PROVE  ~EndsTorn(s) /\ \A i \in DOMAIN s : s[i].id = n - Len(s) + i
<1>1. Len(s) \in Nat /\ DOMAIN s = 1 .. Len(s) /\ Len(s) <= n /\ (s # << >> => Len(s) # 0)
  BY LenProperties, EmptySeq DEF EndsAt
<1>2. \A i \in DOMAIN s : s[i].id = n - Len(s) + i
  BY DEF EndsAt, Event
<1>3. ASSUME s # << >> PROVE s[Len(s)] # TornLine
  <2>1. Len(s) \in DOMAIN s
    BY <1>1, <1>3
  <2>2. s[Len(s)].id = n - Len(s) + Len(s)
    BY <1>2, <2>1
  <2>3. s[Len(s)].id # 0
    BY <1>1, <1>3, <2>2
  <2> QED
    BY <2>3, LineIds
<1> QED
  BY <1>2, <1>3 DEF EndsTorn

LEMMA AppendKeeps ==
    ASSUME CountedFaults, FeedInv, AppendEvent
    PROVE  FeedInv'
<1> DEFINE n == appended
           entry == [id |-> nextSequence + 1, ev |-> appended + 1]
<1>1. /\ ring \in Seq(Entry) /\ file \in Seq(Line) /\ n \in Nat /\ Capacity \in Nat /\ Capacity # 0
      /\ appendErrors \in Nat
      /\ cursor \in [Reader -> 0 .. ActEvents \cup {Fresh}]
  BY FeedConstants DEF FeedInv, FeedTypes, ActTypeOK
<1>2. /\ nextSequence = n /\ EndsAt(ring, n) /\ Len(ring) = IF n < Capacity THEN n ELSE Capacity
      /\ appendErrors = 0 => EndsAt(file, n) /\ Len(file) >= Len(ring)
  BY DEF FeedInv, RingKnown, FileKnown
<1>3. Len(ring) \in Nat /\ Len(file) \in Nat /\ DOMAIN ring = 1 .. Len(ring)
  BY <1>1, LenProperties
<1>4. FeedTypes'
  BY AppendTyped DEF FeedInv
<1>5. entry = Event(n + 1) /\ Event(n + 1) \in Entry /\ n < ActEvents /\ n' = n + 1
  BY <1>1, <1>2, FeedConstants DEF AppendEvent, Event, Entry
<1>6. /\ ring' = NewestOf(Append(ring, entry), Capacity) /\ nextSequence' = entry.id
      /\ UNCHANGED << cursor, delivered >>
      /\ overrun' = [r \in Reader |->
             IF Len(ring) = Capacity THEN overrun[r] \cup {ring[1].ev} ELSE overrun[r]]
  BY DEF AppendEvent, Push
<1>7. PICK before \in LinesBefore :
          \/ file' = AddLine(before, entry) /\ UNCHANGED appendErrors
          \/ appendErrors' = appendErrors + 1
  BY DEF AppendEvent, CountedFaults
<1>8. before = IF Len(file) > FileMax THEN ring ELSE file
  BY DEF CountedFaults, LinesBefore, Rewritten
<1> HIDE DEF entry, n
<1>9. EndsAt(ring', n') /\ Len(ring') = IF n' < Capacity THEN n' ELSE Capacity
  <2> DEFINE s == Append(ring, Event(n + 1))
  <2>1. s \in Seq(Entry) /\ Len(s) = Len(ring) + 1 /\ EndsAt(s, n + 1)
    BY <1>1, <1>2, <1>5, AppendProperties, AppendEnds
  <2>2. ring' = NewestOf(s, Capacity)
    BY <1>5, <1>6
  <2> HIDE DEF s
  <2>3. EndsAt(ring', n + 1) /\ Len(ring') = IF Len(s) > Capacity THEN Capacity ELSE Len(s)
    BY <1>1, <2>1, <2>2, Newest, NewestEnds
  <2>4. (IF Len(s) > Capacity THEN Capacity ELSE Len(s)) = IF n + 1 < Capacity THEN n + 1 ELSE Capacity
    BY <1>1, <1>2, <1>3, <2>1
  <2> QED
    BY <1>5, <2>3, <2>4
<1>10. RingKnown'
  <2>1. nextSequence' = n'
    BY <1>5, <1>6 DEF Event
  <2> QED
    BY <1>9, <2>1 DEF RingKnown, n
<1>11. FileKnown'
  <2> SUFFICES ASSUME appendErrors' = 0 PROVE EndsAt(file', n') /\ Len(file') >= Len(ring')
    BY DEF FileKnown, n
  <2>1. appendErrors = 0 /\ file' = AddLine(before, entry)
    BY <1>1, <1>7
  <2>2. before \in Seq(Line) /\ EndsAt(before, n) /\ Len(before) >= Len(ring)
    BY <1>1, <1>2, <1>3, <1>8, <2>1, EntriesAreLines
  <2>3. file' = Append(before, Event(n + 1)) /\ Event(n + 1) \in Line
    BY <1>1, <1>5, <2>1, <2>2, NotTorn, LineAdded, LineIds
  <2>4. EndsAt(file', n + 1) /\ Len(file') = Len(before) + 1
    BY <1>1, <2>2, <2>3, AppendEnds, AppendProperties
  <2>5. Len(before) \in Nat
    BY <2>2, LenProperties
  <2>6. Len(ring') <= Len(ring) + 1
    BY <1>1, <1>2, <1>3, <1>5, <1>9
  <2>7. Len(ring') \in Nat
    BY <1>1, <1>5, <1>9
  <2> QED
    BY <1>3, <1>5, <2>2, <2>4, <2>5, <2>6, <2>7
<1>12. OverrunKnown'
  <2> SUFFICES ASSUME NEW r \in Reader PROVE overrun'[r] = 1 .. n' - Len(ring')
    BY DEF OverrunKnown, n
  <2>1. overrun[r] = 1 .. n - Len(ring)
    BY DEF FeedInv, OverrunKnown, n
  <2>2. CASE Len(ring) = Capacity
    <3>1. ring[1] = Event(n - Capacity + 1)
      BY <1>1, <1>2, <1>3, <2>2 DEF EndsAt
    <3>2. n' - Len(ring') = n - Capacity + 1 /\ n - Capacity \in Nat
      BY <1>1, <1>2, <1>5, <1>9, <2>2
    <3>3. overrun'[r] = (1 .. n - Capacity) \cup {n - Capacity + 1}
      <4>1. overrun'[r] = overrun[r] \cup {ring[1].ev}
        BY <1>6, <2>2
      <4>2. ring[1].ev = n - Capacity + 1
        BY <3>1 DEF Event
      <4> QED
        BY <2>1, <2>2, <4>1, <4>2
    <3>4. \A m \in Nat : (1 .. m) \cup {m + 1} = 1 .. m + 1
      OBVIOUS
    <3> QED
      BY <3>2, <3>3, <3>4
  <2>3. CASE Len(ring) # Capacity
    <3>1. n' - Len(ring') = n - Len(ring)
      BY <1>1, <1>2, <1>5, <1>9, <2>3
    <3> QED
      BY <1>6, <2>1, <2>3, <3>1
  <2> QED
    BY <2>2, <2>3
<1>13. ASSUME NEW r \in Reader PROVE ReaderKnown(r)'
  <2>1. Sound(delivered[r], cursor[r], n) /\ (r \in Unlimited => CaughtUp(delivered[r], cursor[r], ring))
    BY DEF FeedInv, ReaderKnown, n
  <2>2. cursor[r] \in Nat \cup {Fresh}
    BY <1>1, FeedConstants
  <2>3. Sound(delivered[r], cursor[r], n')
    BY <1>1, <1>5, <2>1, <2>2 DEF Sound
  <2>4. ASSUME r \in Unlimited PROVE CaughtUp(delivered[r], cursor[r], ring')
    <3> SUFFICES ASSUME cursor[r] # Fresh, NEW i \in DOMAIN ring', ring'[i].ev <= cursor[r]
                 PROVE  \E j \in DOMAIN delivered[r] : delivered[r][j].ev = ring'[i].ev
      BY DEF CaughtUp
    <3>1. ring' \in Seq(Entry) /\ DOMAIN ring' = 1 .. Len(ring') /\ Len(ring') \in Nat
      BY <1>4, LenProperties DEF FeedTypes, ActTypeOK
    <3>2. ring'[i] = Event(n + 1 - Len(ring') + i)
      <4>1. EndsAt(ring', n + 1)
        BY <1>5, <1>9
      <4>2. n \in Nat /\ Len(ring') \in Nat /\ i \in 1 .. Len(ring')
        BY <1>1, <3>1
      <4> QED
        BY <4>1, <4>2 DEF EndsAt
    <3>3. n + 1 - Len(ring') + i <= n
      <4>1. ring'[i].ev = n + 1 - Len(ring') + i
        BY <3>2 DEF Event
      <4>2. cursor[r] <= n /\ cursor[r] \in Nat /\ i \in Nat
        BY <2>1, <2>2, <3>1 DEF Sound
      <4> QED
        BY <1>1, <3>1, <4>1, <4>2
    <3> DEFINE k == i + 1 - Len(ring') + Len(ring)
    <3>4. k \in DOMAIN ring /\ n - Len(ring) + k = n + 1 - Len(ring') + i
      <4>1. Len(ring') = Len(ring) \/ Len(ring') = Len(ring) + 1
        BY <1>1, <1>2, <1>5, <1>9
      <4>2. i \in 1 .. Len(ring') /\ i <= Len(ring') - 1
        BY <1>1, <3>1, <3>3
      <4>3. k \in 1 .. Len(ring)
        <5>1. ASSUME NEW p \in Nat, NEW q \in Nat, NEW j \in 1 .. q, j <= q - 1, q = p \/ q = p + 1
              PROVE  j + 1 - q + p \in 1 .. p
          BY <5>1
        <5> QED
          BY <1>3, <3>1, <4>1, <4>2, <5>1
      <4> QED
        BY <1>1, <1>3, <3>1, <4>2, <4>3
    <3>5. ring[k] = ring'[i]
      BY <1>2, <3>2, <3>4 DEF EndsAt
    <3> QED
      BY <2>1, <2>4, <3>4, <3>5 DEF CaughtUp
  <2> QED
    BY <1>6, <2>3, <2>4 DEF ReaderKnown, Unlimited, n
<1> QED
  BY <1>4, <1>10, <1>11, <1>12, <1>13 DEF FeedInv

\* With no failure to tell of, the file ends as the ring does, and a start reads
\* the ring back.
LEMMA FileEnds ==
    ASSUME FeedInv, appendErrors = 0
    PROVE  /\ Parsed(file) = file /\ EndsAt(file, appended) /\ Len(file) >= Len(ring)
           /\ NewestOf(file, Len(ring)) = ring /\ NewestOf(file, Capacity) = ring
           /\ MaxId(file) = appended
<1>1. /\ ring \in Seq(Entry) /\ file \in Seq(Line) /\ appended \in 0 .. ActEvents /\ appended \in Nat
      /\ Capacity \in Nat /\ Capacity # 0 /\ ActEvents \in Nat
      /\ EndsAt(ring, appended) /\ EndsAt(file, appended) /\ Len(file) >= Len(ring)
      /\ Len(ring) = IF appended < Capacity THEN appended ELSE Capacity
      /\ Numbered(file, appended)
  BY FeedConstants DEF FeedInv, FeedTypes, ActTypeOK, IdsBounded, RingKnown, FileKnown
<1>2. Len(ring) \in Nat /\ Len(file) \in Nat /\ DOMAIN file = 1 .. Len(file) /\ Len(file) <= appended
  BY <1>1, LenProperties DEF EndsAt
<1>3. Parsed(file) = file
  <2>1. ASSUME NEW i \in DOMAIN file PROVE file[i] \in Entry
    <3>1. appended - Len(file) + i \in 1 .. ActEvents
      BY <1>1, <1>2
    <3> QED
      BY <1>1, <3>1 DEF EndsAt, Event, Entry
  <2> QED
    BY <1>1, <2>1, ParsedLines
<1>4. ASSUME NEW m \in Nat, (IF Len(file) > m THEN m ELSE Len(file)) = Len(ring)
      PROVE  NewestOf(file, m) = ring
  <2>1. NewestOf(file, m) \in Seq(Line) /\ Len(NewestOf(file, m)) = Len(ring)
    BY <1>1, <1>4, Newest
  <2>2. EndsAt(NewestOf(file, m), appended)
    BY <1>1, NewestEnds
  <2> QED
    BY <1>1, <2>1, <2>2, SameEnds
<1>5. NewestOf(file, Len(ring)) = ring /\ NewestOf(file, Capacity) = ring
  <2>1. /\ (IF Len(file) > Len(ring) THEN Len(ring) ELSE Len(file)) = Len(ring)
        /\ (IF Len(file) > Capacity THEN Capacity ELSE Len(file)) = Len(ring)
    BY <1>1, <1>2
  <2> QED
    BY <1>1, <1>2, <1>4, <2>1
<1>6. MaxId(file) = appended
  <2>1. MaxId(file) \in Nat /\ MaxId(file) <= appended /\ \A i \in DOMAIN file : file[i].id <= MaxId(file)
    BY <1>1, MaxIdTyped
  <2>2. CASE appended = 0
    BY <2>1, <2>2
  <2>3. CASE appended # 0
    <3>1. Len(file) \in DOMAIN file
      BY <1>1, <1>2, <2>3
    <3>2. file[Len(file)].id = appended - Len(file) + Len(file)
      BY <1>1, <3>1, NotTorn
    <3> QED
      BY <1>1, <1>2, <2>1, <3>1, <3>2
  <2> QED
    BY <2>2, <2>3
<1> QED
  BY <1>1, <1>3, <1>5, <1>6

LEMMA RestartKeeps ==
    ASSUME CountedFaults, FeedInv, RestartFeed
    PROVE  FeedInv'
<1>1. /\ appendErrors = 0 /\ file' = file /\ appendErrors' = 0 /\ UNCHANGED << delivered, overrun, appended >>
      /\ ring' = NewestOf(Parsed(file), Capacity) /\ nextSequence' = MaxId(file)
      /\ cursor' = [r \in Reader |-> IF r \in Stream THEN Resume(delivered[r]) ELSE cursor[r]]
  BY DEF RestartFeed, Loaded, CountedFaults
<1>2. ring' = ring /\ nextSequence' = appended
  BY <1>1, FileEnds
<1>3. FeedTypes'
  BY RestartTyped DEF FeedInv
<1>4. RingKnown' /\ FileKnown' /\ OverrunKnown'
  BY <1>1, <1>2 DEF FeedInv, RingKnown, FileKnown, OverrunKnown
<1>5. ASSUME NEW r \in Reader PROVE ReaderKnown(r)'
  <2> DEFINE d == delivered[r]
             c == cursor[r]
  <2>1. d \in Seq(Entry) /\ c \in Nat \cup {Fresh} /\ appended \in Nat
    BY ReaderTypes, RingEvents
  <2>2. Sound(d, c, appended) /\ (r \in Unlimited => CaughtUp(d, c, ring))
    BY DEF FeedInv, ReaderKnown
  <2>3. CASE r \notin Stream
    BY <1>1, <1>2, <2>2, <2>3 DEF ReaderKnown, Unlimited
  <2>4. CASE r \in Stream
    <3>1. cursor'[r] = Resume(d) /\ delivered'[r] = d
      BY <1>1, <2>4
    <3>2. \A x \in Entry : x.ev \in Nat
      BY FeedConstants DEF Entry
    <3>3. \A i \in DOMAIN d : d[i].ev <= appended /\ c # Fresh /\ c \in Nat /\ d[i].ev <= c /\ d # << >>
      BY ReaderTypes, <2>1, <2>2, LastIsLatest DEF Sound
    <3> HIDE DEF d, c
    <3>4. Sound(d, Resume(d), appended)
      BY <2>1, <2>2, <3>3, ResumeSound DEF Sound
    <3>5. ASSUME r \in Unlimited PROVE CaughtUp(d, Resume(d), ring)
      <4> SUFFICES ASSUME Resume(d) # Fresh, NEW i \in DOMAIN ring, ring[i].ev <= Resume(d)
                   PROVE  \E j \in DOMAIN d : d[j].ev = ring[i].ev
        BY DEF CaughtUp
      <4>1. Len(d) \in DOMAIN d /\ Resume(d) = d[Len(d)].id
        BY <2>1, ResumeTyped
      <4>2. Resume(d) = d[Len(d)].ev /\ d[Len(d)].ev \in Nat
        BY <2>1, <2>2, <4>1, LastIsLatest DEF Sound
      <4>3. Resume(d) <= c /\ c \in Nat /\ c # Fresh
        BY <3>3, <4>1, <4>2
      <4>4. ring[i].ev \in Nat /\ ring[i].ev <= c
        BY RingEvents, <4>2, <4>3
      <4> QED
        BY <2>2, <3>5, <4>3, <4>4 DEF CaughtUp
    <3> QED
      BY <1>1, <1>2, <3>1, <3>4, <3>5 DEF ReaderKnown, Unlimited
  <2> QED
    BY <2>3, <2>4
<1> QED
  BY <1>3, <1>4, <1>5 DEF FeedInv

LEMMA FeedInvStarts == ActInit => FeedInv
<1> SUFFICES ASSUME ActInit PROVE FeedInv
  OBVIOUS
<1>1. Len(<< >>) = 0 /\ DOMAIN << >> = {}
  BY EmptySeq
<1>2. RingKnown /\ FileKnown /\ OverrunKnown
  <2>1. Capacity \in Nat /\ Capacity # 0 /\ 1 .. 0 - 0 = {}
    BY FeedConstants
  <2> QED
    BY <1>1, <2>1 DEF ActInit, RingKnown, FileKnown, OverrunKnown, EndsAt
<1>3. \A r \in Reader : ReaderKnown(r)
  BY <1>1 DEF ActInit, ReaderKnown, Sound, InOrder, CaughtUp
<1> QED
  BY <1>2, <1>3, FeedStarts DEF FeedInv

LEMMA FeedStep ==
    ASSUME CountedFaults
    PROVE  FeedInv /\ [ActNext]_actVars => FeedInv'
<1> SUFFICES ASSUME FeedInv, [ActNext]_actVars PROVE FeedInv'
  OBVIOUS
<1>1. CASE UNCHANGED actVars
  <2>1. FeedTypes'
    BY <1>1, FeedTypesKept DEF FeedInv
  <2> QED
    BY <1>1, <2>1 DEF actVars, FeedInv, RingKnown, FileKnown, OverrunKnown, ReaderKnown, Unlimited
<1>2. CASE ActNext
  BY <1>2, AppendKeeps, RestartKeeps, PollKeeps, ReconnectKeeps DEF ActNext
<1> QED
  BY <1>1, <1>2

-----------------------------------------------------------------------------
(* What the invariant of the feed says *)

LEMMA InOrderAlways == FeedInv => EventsArriveInOrder
<1> SUFFICES ASSUME FeedInv, NEW r \in Reader, NEW i \in 1 .. Len(delivered[r]),
                    NEW j \in 1 .. Len(delivered[r]), i < j
             PROVE  delivered[r][i].ev < delivered[r][j].ev
  BY DEF EventsArriveInOrder
<1>1. DOMAIN delivered[r] = 1 .. Len(delivered[r]) /\ InOrder(delivered[r])
  BY ReaderTypes DEF FeedInv, ReaderKnown, Sound
<1> QED
  BY <1>1 DEF InOrder

LEMMA NothingMissed == FeedInv => MissesOnlyOverruns
<1> SUFFICES ASSUME FeedInv, NEW r \in Unlimited, cursor[r] # Fresh, NEW e \in 1 .. appended,
                    e \notin overrun[r], e \notin Behind(r)
             PROVE  e \in Received(r)
  BY DEF MissesOnlyOverruns
<1>1. r \in Reader
  BY DEF Unlimited
<1>2. /\ Len(ring) \in Nat /\ DOMAIN ring = 1 .. Len(ring) /\ appended \in Nat
      /\ \A i \in DOMAIN ring : ring[i].id = appended - Len(ring) + i /\ ring[i].ev = appended - Len(ring) + i
  BY RingEvents
<1>3. overrun[r] = 1 .. appended - Len(ring) /\ CaughtUp(delivered[r], cursor[r], ring)
  BY <1>1 DEF FeedInv, OverrunKnown, ReaderKnown
<1>4. cursor[r] \in Nat /\ DOMAIN delivered[r] = 1 .. Len(delivered[r])
  BY <1>1, ReaderTypes
<1> DEFINE i == e - (appended - Len(ring))
<1>5. i \in DOMAIN ring /\ appended - Len(ring) + i = e
  BY <1>2, <1>3
<1>6. ring[i].id = e /\ ring[i].ev = e
  BY <1>2, <1>5
<1> HIDE DEF i
<1>7. e <= cursor[r]
  BY <1>2, <1>4, <1>5, <1>6 DEF Behind
<1>8. \E j \in DOMAIN delivered[r] : delivered[r][j].ev = e
  BY <1>3, <1>5, <1>6, <1>7 DEF CaughtUp
<1> QED
  BY <1>4, <1>8 DEF Received

LEMMA TailOnDisk == FeedInv => HealthOkMeansTailOnDisk
  BY FileEnds DEF HealthOkMeansTailOnDisk

-----------------------------------------------------------------------------
(* The composition *)

\* A step of the composition is a step of one service and leaves the variables
\* of the others alone.
LEMMA ServicesBehave ==
    SvcSpec => /\ HttpInit /\ [][HttpNext]_httpVars
               /\ SupInit /\ [][SupNext]_supVars
               /\ ActInit /\ [][ActNext]_actVars
<1>1. SvcInit => HttpInit /\ SupInit /\ ActInit
  BY DEF SvcInit
<1>2. [SvcNext]_svcVars => [HttpNext]_httpVars
  BY DEF SvcNext, svcVars, FeedOnly, AssignmentOnly, HttpOnly
<1>3. [SvcNext]_svcVars => [SupNext]_supVars
  BY DEF SvcNext, svcVars, FeedOnly, AssignmentOnly, HttpOnly
<1>4. [SvcNext]_svcVars => [ActNext]_actVars
  BY DEF SvcNext, svcVars, FeedOnly, AssignmentOnly, HttpOnly
<1> QED
  BY <1>1, <1>2, <1>3, <1>4, PTL DEF SvcSpec

\* Every variable of the server keeps its type: no more connections wait than
\* the queue may hold, and the accept thread has a socket in hand exactly while
\* it dispatches one.
THEOREM ServerTypes == SvcSpec => []HttpTypeOK
<1>1. HttpInv => HttpTypeOK
  BY DEF HttpInv
<1> QED
  BY <1>1, ServicesBehave, HttpStarts, HttpStep, PTL

\* A socket that the server accepted has one owner until it is closed, is
\* closed once, and is closed when stop() has returned, as every thread of the
\* server has ended by then: whichever of the accept thread, the workers, the
\* streams and the clients run between the steps of stop().
THEOREM ServerEndsClean == SvcSpec => []ServerLeavesNothing
<1>1. HttpInv => ServerLeavesNothing
  BY SocketsClosed, NothingLeft DEF ServerLeavesNothing
<1> QED
  BY <1>1, ServicesBehave, HttpStarts, HttpStep, PTL

\* While every write of the record succeeds, a supervisor is connected only by
\* the config in force, also after a restart and after a crash between the two
\* writes of selectAndIssue.
THEOREM ConfigInForceConnects ==
    ASSUME "write" \notin SupFaults
    PROVE  SvcSpec => []ConnectedByTheConfigInForce
<1>1. AsgInv => ConnectedByTheConfigInForce
  BY DEF AsgInv, AsgKnown, Active, ConnectedByTheConfigInForce
<1> QED
  BY <1>1, ServicesBehave, AsgStarts, AsgStep, PTL

\* The same of the types, and the file is the record: what an operator revoked
\* or replaced does not come back with a restart.
THEOREM RecordIsCurrent ==
    ASSUME "write" \notin SupFaults
    PROVE  SvcSpec => [](AsgTypeOK /\ SavedRecordIsCurrent)
<1>1. AsgInv => AsgTypeOK /\ SavedRecordIsCurrent
  BY DEF AsgInv, AsgKnown, SavedRecordIsCurrent
<1> QED
  BY <1>1, ServicesBehave, AsgStarts, AsgStep, PTL

\* Under every fault of the model, the variables of the feed keep their types:
\* the ring its capacity, the file its limit (unless it cannot be rewritten),
\* and no number beyond those given to events appears on either.
THEOREM FeedTypesHold == SvcSpec => []ActTypeOK
<1>1. FeedTypes => ActTypeOK
  BY DEF FeedTypes
<1> QED
  BY <1>1, ServicesBehave, FeedStarts, FeedTypesKept, PTL

\* The three services together, while the writes of the assignment succeed.
THEOREM ServicesTyped ==
    ASSUME "write" \notin SupFaults
    PROVE  SvcSpec => []SvcTypes
<1>1. ActTypeOK /\ (AsgTypeOK /\ SavedRecordIsCurrent) /\ HttpTypeOK => SvcTypes
  BY DEF SvcTypes
<1> QED
  BY <1>1, FeedTypesHold, RecordIsCurrent, ServerTypes, PTL

\* Whatever polls, ticks, broken streams, failed appends and orderly restarts
\* come between: a reader gets the events in order and each once, one without
\* filter and cap misses only what the ring dropped before it came, and when
\* /api/activity/health answers ok the file ends as the ring does.
THEOREM FeedFaithful ==
    ASSUME CountedFaults
    PROVE  SvcSpec => []FeedIsFaithful
<1>1. FeedInv => FeedIsFaithful
  BY InOrderAlways, NothingMissed, TailOnDisk DEF FeedIsFaithful
<1> QED
  BY <1>1, ServicesBehave, FeedInvStarts, FeedStep, PTL
=============================================================================
