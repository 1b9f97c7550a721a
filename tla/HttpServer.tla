------------------------------ MODULE HttpServer ------------------------------
(***************************************************************************)
(* SimpleHttpServer, the listener of the admin API: one accept thread, a   *)
(* bounded queue of accepted sockets, a pool of workers that each serve    *)
(* one connection at a time, and the registry of event streams, each with  *)
(* a thread of its own.  stop() takes the threads down in that order.      *)
(***************************************************************************)
EXTENDS Naturals, Sequences, FiniteSets, SequencesExt

CONSTANTS
    Conn,           \* the connections clients make
    HttpWorker,     \* the connection workers (kAdminWorkerCount)
    NoConn,
    HttpDepth,      \* kAdminConnectionQueueMaxDepth
    HttpKinds,      \* the requests made, see AllHttpKinds
    HttpFaults      \* "bind": the port is taken; "idle": clients may be silent for ever

\* rejected: an invalid Content-Length or a request over the size limit.
AllHttpKinds == {"request", "stream", "preflight", "rejected"}

ASSUME HttpAssumption ==
    /\ NoConn \notin Conn
    /\ HttpDepth \in Nat
    /\ HttpKinds \subseteq AllHttpKinds
    /\ HttpFaults \subseteq {"bind", "idle"}

VARIABLES
    phase,          \* start() and stop() of the owner
    isRunning,      \* running_
    acceptor,       \* the accept thread: "none", "accepting", "holding", "done"
    inHand,         \* the socket the accept thread dispatches
    connQueue,      \* connectionQueue_
    queueClosed,    \* connectionQueueShutdown_
    crew,           \* the connection workers
    streams,        \* sseStreams_: sockets with the state of their thread
    tls,            \* tlsCredentialsValid_
    latched,        \* tlsHandshakeFailureReported_
    reports,        \* admin_tls_handshake_failed diagnostics written
    link            \* each connection: its socket, what came, what was sent

httpVars == << phase, isRunning, acceptor, inHand, connQueue, queueClosed, crew,
               streams, tls, latched, reports, link >>

Phases == {"new", "starting", "up", "failed", "joinAccept", "joinWorkers", "closeQueued",
           "shutStreams", "joinStreams", "stopped"}
NewLink == [socket |-> "none", peer |-> "away", kind |-> "request", closes |-> 0, answer |-> "none"]
OffDuty == [pc |-> "none", conn |-> NoConn]

\* closesocket and what goes before it.
Closed(l) == [l EXCEPT !.socket = "closed", !.closes = @ + 1]
ClosedWith(l, answer) == [Closed(l) EXCEPT !.answer = answer]

-----------------------------------------------------------------------------
(* start() *)

\* The workers start before the listener is bound.  Without credentials the
\* listener serves plain HTTP.
Start ==
    /\ phase = "new"
    /\ phase' = "starting" /\ isRunning' = TRUE
    /\ tls' \in BOOLEAN
    /\ crew' = [w \in HttpWorker |-> [OffDuty EXCEPT !.pc = "waiting"]]
    /\ acceptor' = "binding"
    /\ UNCHANGED << inHand, connQueue, queueClosed, streams, latched, reports, link >>

\* run(), up to the accept loop: dual-stack, else one address after the other.
Bind ==
    /\ acceptor = "binding"
    /\ \/ acceptor' = "accepting" /\ UNCHANGED isRunning
       \/ "bind" \in HttpFaults /\ acceptor' = "done" /\ isRunning' = FALSE
    /\ UNCHANGED << phase, inHand, connQueue, queueClosed, crew, streams, tls, latched,
                    reports, link >>

\* start() returns once startupComplete_ is set.
Started ==
    /\ phase = "starting" /\ acceptor # "binding"
    /\ phase' = IF acceptor = "done" /\ ~isRunning THEN "failed" ELSE "up"
    /\ UNCHANGED << isRunning, acceptor, inHand, connQueue, queueClosed, crew, streams,
                    tls, latched, reports, link >>

-----------------------------------------------------------------------------
(* The accept thread *)

Accept(c) ==
    /\ acceptor = "accepting" /\ isRunning
    /\ phase \in {"starting", "up"}
    /\ link[c].socket = "backlog"
    /\ acceptor' = "holding" /\ inHand' = c
    /\ link' = [link EXCEPT ![c].socket = "open"]
    /\ UNCHANGED << phase, isRunning, connQueue, queueClosed, crew, streams, tls, latched,
                    reports >>

\* accept() fails once stop() has closed the listener.
LeaveAcceptLoop ==
    /\ acceptor = "accepting" /\ ~isRunning
    /\ acceptor' = "done"
    /\ UNCHANGED << phase, isRunning, inHand, connQueue, queueClosed, crew, streams, tls,
                    latched, reports, link >>

\* (mutant) One connection more than the queue may hold.
DispatchClientOverfull ==
    /\ acceptor = "holding"
    /\ acceptor' = "accepting" /\ inHand' = NoConn
    /\ IF ~queueClosed /\ Len(connQueue) <= HttpDepth
       THEN connQueue' = Append(connQueue, inHand) /\ UNCHANGED link
       ELSE link' = [link EXCEPT ![inHand] = ClosedWith(@, "saturated")] /\ UNCHANGED connQueue
    /\ UNCHANGED << phase, isRunning, queueClosed, crew, streams, tls, latched, reports >>

\* dispatchClient: queue the socket, or answer 503 and close it.
DispatchClient ==
    /\ acceptor = "holding"
    /\ acceptor' = "accepting" /\ inHand' = NoConn
    /\ IF ~queueClosed /\ Len(connQueue) < HttpDepth
       THEN connQueue' = Append(connQueue, inHand) /\ UNCHANGED link
       ELSE link' = [link EXCEPT ![inHand] = ClosedWith(@, "saturated")] /\ UNCHANGED connQueue
    /\ UNCHANGED << phase, isRunning, queueClosed, crew, streams, tls, latched, reports >>

-----------------------------------------------------------------------------
(* The connection workers *)

\* connectionWorkerLoop: a closed queue ends the worker whatever it holds.
TakeConnection(w) ==
    /\ crew[w].pc = "waiting"
    /\ \/ /\ queueClosed
          /\ crew' = [crew EXCEPT ![w].pc = "done"]
          /\ UNCHANGED connQueue
       \/ /\ ~queueClosed /\ connQueue # << >>
          /\ crew' = [crew EXCEPT ![w] =
                 [pc |-> IF tls THEN "handshake" ELSE "reading", conn |-> Head(connQueue)]]
          /\ connQueue' = Tail(connQueue)
    /\ UNCHANGED << phase, isRunning, acceptor, inHand, queueClosed, streams, tls, latched,
                    reports, link >>

Serving(w, pc) == crew[w].pc = pc
Goes(w, pc) == crew' = [crew EXCEPT ![w].pc = pc]
Freed(w) == crew' = [crew EXCEPT ![w] = [OffDuty EXCEPT !.pc = "waiting"]]

\* recv returns bytes or the end of the stream; nothing bounds how long it waits.
Heard(c) == link[c].peer \in {"sent", "gone"}

\* SchannelStreamAdapter::handshake, and the test of the latch.
Handshake(w) ==
    /\ Serving(w, "handshake") /\ Heard(crew[w].conn)
    /\ \/ link[crew[w].conn].peer = "sent" /\ Goes(w, "reading")
       \/ IF latched THEN Goes(w, "refuse") ELSE Goes(w, "report")
    /\ UNCHANGED << phase, isRunning, acceptor, inHand, connQueue, queueClosed, streams,
                    tls, latched, reports, link >>

Report(w) ==
    /\ Serving(w, "report")
    /\ Goes(w, "refuse")
    /\ latched' = TRUE /\ reports' = reports + 1
    /\ UNCHANGED << phase, isRunning, acceptor, inHand, connQueue, queueClosed, streams,
                    tls, link >>

\* The handshake failed: the socket is closed without an answer.
RefuseHandshake(w) ==
    /\ Serving(w, "refuse")
    /\ link' = [link EXCEPT ![crew[w].conn] = Closed(@)]
    /\ Freed(w)
    /\ UNCHANGED << phase, isRunning, acceptor, inHand, connQueue, queueClosed, streams,
                    tls, latched, reports >>

\* The request as far as it came: a peer that left is served what it had sent.
ReadRequest(w) ==
    LET c == crew[w].conn IN
    /\ Serving(w, "reading") /\ Heard(c)
    /\ IF link[c].kind \in {"rejected", "preflight"}
       THEN Freed(w) /\ link' = [link EXCEPT ![c] = ClosedWith(@, link[c].kind)]
       ELSE Goes(w, "handling") /\ UNCHANGED link
    /\ UNCHANGED << phase, isRunning, acceptor, inHand, connQueue, queueClosed, streams,
                    tls, latched, reports >>

\* The handler ran: an answer and the end of the connection; over TLS a stream
\* is refused (501).
Respond(w) ==
    LET c == crew[w].conn IN
    /\ Serving(w, "handling")
    /\ link[c].kind = "stream" => tls
    /\ link' = [link EXCEPT ![c] =
           ClosedWith(@, IF link[c].kind = "stream" THEN "unsupported" ELSE "answer")]
    /\ Freed(w)
    /\ UNCHANGED << phase, isRunning, acceptor, inHand, connQueue, queueClosed, streams,
                    tls, latched, reports >>

Ended == {c \in Conn : streams[c] = "finished"}

\* (mutant) The streams are reaped, their threads having closed their sockets.
RegisterStreamUnreaped(w) ==
    LET c == crew[w].conn IN
    /\ Serving(w, "handling") /\ link[c].kind = "stream" /\ ~tls
    /\ streams' = [d \in Conn |-> IF d = c THEN "running"
                                  ELSE IF d \in Ended THEN "none" ELSE streams[d]]
    /\ link' = [d \in Conn |-> IF d = c THEN [link[d] EXCEPT !.answer = "stream"] ELSE link[d]]
    /\ Freed(w)
    /\ UNCHANGED << phase, isRunning, acceptor, inHand, connQueue, queueClosed, tls,
                    latched, reports >>

\* A new stream: the finished ones are joined and their sockets closed, and the
\* thread of the new one starts.
RegisterStream(w) ==
    LET c == crew[w].conn IN
    /\ Serving(w, "handling") /\ link[c].kind = "stream" /\ ~tls
    /\ streams' = [d \in Conn |-> IF d = c THEN "running"
                                  ELSE IF d \in Ended THEN "none" ELSE streams[d]]
    /\ link' = [d \in Conn |-> CASE d = c      -> [link[d] EXCEPT !.answer = "stream"]
                                 [] d \in Ended -> Closed(link[d])
                                 [] OTHER       -> link[d]]
    /\ Freed(w)
    /\ UNCHANGED << phase, isRunning, acceptor, inHand, connQueue, queueClosed, tls,
                    latched, reports >>

\* (mutant) The thread only notices a client that left.
StreamEndsWithPeer(c) ==
    /\ streams[c] = "running"
    /\ link[c].peer = "gone"
    /\ streams' = [streams EXCEPT ![c] = "finished"]
    /\ link' = [link EXCEPT ![c].socket = IF @ = "open" THEN "shut" ELSE @]
    /\ UNCHANGED << phase, isRunning, acceptor, inHand, connQueue, queueClosed, crew, tls,
                    latched, reports >>

\* The thread of a stream sees running_ cleared, or its send fails; it shuts the
\* socket down and leaves closing it to the registry.
StreamEnds(c) ==
    /\ streams[c] = "running"
    /\ ~isRunning \/ link[c].peer = "gone" \/ link[c].socket = "shut"
    /\ streams' = [streams EXCEPT ![c] = "finished"]
    /\ link' = [link EXCEPT ![c].socket = IF @ = "open" THEN "shut" ELSE @]
    /\ UNCHANGED << phase, isRunning, acceptor, inHand, connQueue, queueClosed, crew, tls,
                    latched, reports >>

-----------------------------------------------------------------------------
(* stop() *)

\* From shutdown, from the destructor, or after a start that failed.
Stop ==
    /\ phase \in {"up", "failed"}
    /\ phase' = "joinAccept" /\ isRunning' = FALSE
    /\ link' = [c \in Conn |-> IF link[c].socket = "backlog"
                               THEN [link[c] EXCEPT !.socket = "none"] ELSE link[c]]
    /\ UNCHANGED << acceptor, inHand, connQueue, queueClosed, crew, streams, tls, latched,
                    reports >>

\* (mutant) The queue is closed and its sockets with it before the accept thread
\* has ended.
AcceptJoinedEarly ==
    /\ phase = "joinAccept"
    /\ phase' = "joinWorkers" /\ queueClosed' = TRUE
    /\ UNCHANGED << isRunning, acceptor, inHand, connQueue, crew, streams, tls, latched,
                    reports, link >>

AcceptJoined ==
    /\ phase = "joinAccept" /\ acceptor = "done"
    /\ phase' = "joinWorkers" /\ queueClosed' = TRUE
    /\ UNCHANGED << isRunning, acceptor, inHand, connQueue, crew, streams, tls, latched,
                    reports, link >>

WorkersJoined ==
    /\ phase = "joinWorkers" /\ \A w \in HttpWorker : crew[w].pc = "done"
    /\ phase' = "closeQueued"
    /\ UNCHANGED << isRunning, acceptor, inHand, connQueue, queueClosed, crew, streams,
                    tls, latched, reports, link >>

CloseQueued ==
    /\ phase = "closeQueued"
    /\ phase' = "shutStreams" /\ connQueue' = << >>
    /\ link' = [c \in Conn |-> IF c \in ToSet(connQueue) THEN Closed(link[c]) ELSE link[c]]
    /\ UNCHANGED << isRunning, acceptor, inHand, queueClosed, crew, streams, tls, latched,
                    reports >>

ShutStreams ==
    /\ phase = "shutStreams"
    /\ phase' = "joinStreams"
    /\ link' = [c \in Conn |-> IF streams[c] = "running" THEN [link[c] EXCEPT !.socket = "shut"]
                               ELSE link[c]]
    /\ UNCHANGED << isRunning, acceptor, inHand, connQueue, queueClosed, crew, streams,
                    tls, latched, reports >>

\* The threads have ended: their sockets and the credentials go.
StreamsJoined ==
    /\ phase = "joinStreams" /\ \A c \in Conn : streams[c] # "running"
    /\ phase' = "stopped" /\ tls' = FALSE
    /\ link' = [c \in Conn |-> IF streams[c] = "finished" THEN Closed(link[c]) ELSE link[c]]
    /\ streams' = [c \in Conn |-> "none"]
    /\ UNCHANGED << isRunning, acceptor, inHand, connQueue, queueClosed, crew, latched,
                    reports >>

-----------------------------------------------------------------------------
(* The clients *)

Connect(c) ==
    /\ link[c] = NewLink /\ phase \in {"starting", "up"} /\ acceptor # "binding" /\ isRunning
    /\ \E k \in HttpKinds :
        link' = [link EXCEPT ![c].socket = "backlog", ![c].peer = "silent", ![c].kind = k]
    /\ UNCHANGED << phase, isRunning, acceptor, inHand, connQueue, queueClosed, crew,
                    streams, tls, latched, reports >>

Sends(c) ==
    /\ link[c].peer = "silent"
    /\ link' = [link EXCEPT ![c].peer = "sent"]
    /\ UNCHANGED << phase, isRunning, acceptor, inHand, connQueue, queueClosed, crew,
                    streams, tls, latched, reports >>

Leaves(c) ==
    /\ link[c].peer \in {"silent", "sent"}
    /\ link' = [link EXCEPT ![c].peer = "gone"]
    /\ UNCHANGED << phase, isRunning, acceptor, inHand, connQueue, queueClosed, crew,
                    streams, tls, latched, reports >>

-----------------------------------------------------------------------------

HttpInit ==
    /\ phase = "new" /\ isRunning = FALSE
    /\ acceptor = "none" /\ inHand = NoConn
    /\ connQueue = << >> /\ queueClosed = FALSE
    /\ crew = [w \in HttpWorker |-> OffDuty]
    /\ streams = [c \in Conn |-> "none"]
    /\ tls = FALSE /\ latched = FALSE /\ reports = 0
    /\ link = [c \in Conn |-> NewLink]

AcceptThread == Bind \/ LeaveAcceptLoop \/ DispatchClient \/ \E c \in Conn : Accept(c)
CrewStep(w) ==
    TakeConnection(w) \/ Handshake(w) \/ Report(w) \/ RefuseHandshake(w) \/ ReadRequest(w)
        \/ Respond(w) \/ RegisterStream(w)
OwnerStep ==
    Started \/ AcceptJoined \/ WorkersJoined \/ CloseQueued \/ ShutStreams \/ StreamsJoined

HttpNext ==
    \/ Start \/ Stop \/ OwnerStep \/ AcceptThread
    \/ \E w \in HttpWorker : CrewStep(w)
    \/ \E c \in Conn : StreamEnds(c) \/ Connect(c) \/ Sends(c) \/ Leaves(c)

\* The threads are scheduled, handlers return, and a client that has connected
\* sends its request or leaves; unless it may be silent for ever.
HttpFairness ==
    /\ WF_httpVars(AcceptThread) /\ WF_httpVars(OwnerStep)
    /\ \A w \in HttpWorker : WF_httpVars(CrewStep(w))
    /\ \A c \in Conn : WF_httpVars(StreamEnds(c))
    /\ "idle" \notin HttpFaults => \A c \in Conn : WF_httpVars(Sends(c))

HttpSpec == HttpInit /\ [][HttpNext]_httpVars /\ HttpFairness

-----------------------------------------------------------------------------
(* Properties *)

HttpTypeOK ==
    /\ phase \in Phases
    /\ isRunning \in BOOLEAN /\ queueClosed \in BOOLEAN /\ tls \in BOOLEAN /\ latched \in BOOLEAN
    /\ acceptor \in {"none", "binding", "accepting", "holding", "done"}
    /\ inHand \in Conn \cup {NoConn} /\ (inHand # NoConn <=> acceptor = "holding")
    /\ connQueue \in Seq(Conn) /\ Len(connQueue) <= HttpDepth
    /\ crew \in [HttpWorker -> [pc : {"none", "waiting", "handshake", "report", "refuse",
                                      "reading", "handling", "done"},
                                conn : Conn \cup {NoConn}]]
    /\ streams \in [Conn -> {"none", "running", "finished"}]
    /\ reports \in Nat
    /\ link \in [Conn -> [socket : {"none", "backlog", "open", "shut", "closed"},
                          peer : {"away", "silent", "sent", "gone"}, kind : AllHttpKinds,
                          closes : Nat,
                          answer : {"none", "saturated", "rejected", "preflight",
                                    "unsupported", "answer", "stream"}]]

\* A socket accepted has one owner until it is closed, and is closed once: a
\* descriptor that went twice could be another connection's by then ("closesocket()
\* happens exactly once, on the registry side").
SocketsCloseOnce ==
    \A c \in Conn :
        /\ link[c].closes <= 1
        /\ link[c].socket \in {"open", "shut"} <=>
               Cardinality({w \in HttpWorker : crew[w].conn = c}) +
               Cardinality({i \in DOMAIN connQueue : connQueue[i] = c}) +
               (IF inHand = c THEN 1 ELSE 0) + (IF streams[c] # "none" THEN 1 ELSE 0) = 1

\* Once stop() has returned no thread of the server runs, and no socket it
\* accepted is open: the threads capture running_ and the runtime, which go next.
NothingOutlivesStop ==
    phase = "stopped" =>
        /\ acceptor = "done" /\ \A w \in HttpWorker : crew[w].pc = "done"
        /\ \A c \in Conn : streams[c] = "none" /\ link[c].socket \in {"none", "closed"}

\* stop() returns, and the request of a client that waits is answered or its
\* connection closed.
StopEnds == phase = "joinAccept" ~> phase = "stopped"
ClientsAreServed ==
    \A c \in Conn : link[c].socket = "open" ~> link[c].answer # "none" \/ link[c].closes > 0

\* "Reported once per process."
ReportedOncePerProcess == reports <= 1
=============================================================================
