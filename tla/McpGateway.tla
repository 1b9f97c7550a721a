----------------------------- MODULE McpGateway ------------------------------
(***************************************************************************)
(* The threads of NativeHttpSysGatewayAdapter (McpGatewayAdapters.cpp).    *)
(*                                                                         *)
(* Administrators call Start and Stop; Restart is a Stop and a Start.      *)
(* lifecycleMutex_ makes the two exclusive from end to end, and mutex_     *)
(* guards the status and the configuration.  A running gateway has one     *)
(* serve thread, which receives from the HTTP.sys request queue, answers   *)
(* what is cheap itself and puts MCP requests into the bounded job queue,  *)
(* and a pool of workers, which execute them.                              *)
(*                                                                         *)
(* A handle of the request queue is the number of the Start that opened    *)
(* it, 0 for none.  A condition variable is the set of workers that sleep  *)
(* on it.  HTTP.sys, the clients and handleMcpRequest are seen only        *)
(* through their outcomes.                                                 *)
(***************************************************************************)
EXTENDS Naturals, Sequences, SequencesExt, FiniteSets

CONSTANTS
    Admin,          \* threads that call Start and Stop
    NoAdmin,        \* the owner of a free mutex
    Worker,         \* kGatewayWorkerCount threads
    Request,        \* HTTP requests, each sent at most once
    NoRequest,
    MaxDepth,       \* kGatewayJobQueueMaxDepth
    MaxStart        \* bound: number of times a behaviour may start the gateway

ASSUME GatewayAssumption ==
    /\ NoAdmin \notin Admin
    /\ NoRequest \notin Request
    /\ IsFiniteSet(Worker)
    /\ MaxDepth \in Nat \ {0}
    /\ MaxStart \in Nat

VARIABLES
    admin,          \* where each administrator is in Start or Stop
    lifecycleMutex, \* the holder of lifecycleMutex_
    mutex,          \* the holder of mutex_ between two steps
    enabled,        \* configuration_.enabled
    status,         \* status_.state
    isRunning,        \* running_
    requestQueue,   \* requestQueue_
    starts,         \* handles opened so far
    queueShut,      \* HttpShutdownRequestQueue was called on requestQueue
    jobs,           \* jobQueue_
    jobsShutdown,   \* jobQueueShutdown_
    serve,          \* serveThread_: its place, request and pendingRequestId
    worker,         \* workerThreads_: place and request of each
    request,        \* what became of each request
    replies         \* responses sent to each request

adminVars == << admin, lifecycleMutex >>
stateVars == << mutex, enabled, status, isRunning >>
httpVars == << requestQueue, starts, queueShut, request, replies >>
jobVars == << jobs, jobsShutdown >>
gwVars == << admin, lifecycleMutex, mutex, enabled, status, isRunning,
             requestQueue, starts, queueShut, jobs, jobsShutdown, serve,
             worker, request, replies >>

StartPc == {"enterStart", "open", "launchServe", "launchWorkers"}
StopPc == {"mark", "shutQueue", "signal", "wake", "joinServe", "joinWorkers",
           "clear", "close"}
ServePc == {"none", "loop", "receive", "route", "health", "enqueue", "notify",
            "reply", "exited"}
WorkerPc == {"none", "check", "asleep", "busy", "reply", "exited"}

NoServe == [pc |-> "none", req |-> NoRequest, pinned |-> NoRequest]
NoWorker == [pc |-> "none", req |-> NoRequest]

-----------------------------------------------------------------------------
(* Helpers *)

Goes(a, pc) == admin' = [admin EXCEPT ![a] = pc]

LockFree(m, a) == m \in {NoAdmin, a}

\* The requests HTTP.sys has handed to the gateway and not seen a response to.
Outstanding == {r \in Request : request[r] \in {"pending", "pinned", "taken"}}

\* The requests some thread, or the job queue, still refers to.
Referred ==
    ({serve.req, serve.pinned} \cup {worker[w].req : w \in Worker} \cup ToSet(jobs))
        \ {NoRequest}

\* sendGatewayHttpResponse: a response that races HttpShutdownRequestQueue may
\* be lost.
Send(r) ==
    \/ /\ request' = [request EXCEPT ![r] = "answered"]
       /\ replies' = [replies EXCEPT ![r] = @ + 1]
    \/ /\ queueShut
       /\ request' = [request EXCEPT ![r] = "dropped"]
       /\ UNCHANGED replies

\* Closing the queue, or shutting it down for what was not received yet,
\* resets the connections of these requests.
Drop(rs) == request' = [r \in Request |-> IF r \in rs THEN "dropped" ELSE request[r]]

-----------------------------------------------------------------------------
(* Start *)

\* (mutant) Start without lifecycleMutex_.
StartWithoutLifecycle(a) ==
    /\ admin[a] = "idle"
    /\ Goes(a, "enterStart")
    /\ UNCHANGED << lifecycleMutex, stateVars, httpVars, jobVars, serve, worker >>

\* Both operations take lifecycleMutex_ first and keep it to their end.
CallStart(a) ==
    /\ admin[a] = "idle" /\ lifecycleMutex = NoAdmin
    /\ lifecycleMutex' = a
    /\ Goes(a, "enterStart")
    /\ UNCHANGED << stateVars, httpVars, jobVars, serve, worker >>

\* Start takes mutex_, and returns at once when the gateway is disabled or
\* already running.
EnterStart(a) ==
    /\ admin[a] = "enterStart" /\ LockFree(mutex, a)
    /\ status' = IF enabled THEN status ELSE "Disabled"
    /\ IF enabled /\ ~isRunning
       THEN mutex' = a /\ Goes(a, "open") /\ UNCHANGED lifecycleMutex
       ELSE lifecycleMutex' = NoAdmin /\ Goes(a, "idle") /\ UNCHANGED mutex
    /\ UNCHANGED << enabled, isRunning, httpVars, jobVars, serve, worker >>

\* The HTTP.sys session, URL group, URL prefix, request queue and binding.
OpenQueue(a) ==
    /\ admin[a] = "open" /\ starts < MaxStart
    /\ starts' = starts + 1
    /\ requestQueue' = starts + 1
    /\ queueShut' = FALSE
    /\ Goes(a, "launchServe")
    /\ UNCHANGED << lifecycleMutex, stateVars, request, replies, jobVars, serve, worker >>

\* (mutant) One failure path of Start forgets closeHttpSysHandlesLocked.
OpenFailsLeavingHandle(a) ==
    /\ admin[a] = "open" /\ starts < MaxStart
    /\ status' = "Failed"
    /\ starts' = starts + 1 /\ requestQueue' = starts + 1
    /\ mutex' = NoAdmin /\ lifecycleMutex' = NoAdmin
    /\ Goes(a, "idle")
    /\ UNCHANGED << enabled, isRunning, queueShut, request, replies, jobVars, serve, worker >>

\* Each of those calls can fail; what was opened before it is closed again.
OpenFails(a) ==
    /\ admin[a] = "open"
    /\ status' = "Failed"
    /\ mutex' = NoAdmin /\ lifecycleMutex' = NoAdmin
    /\ Goes(a, "idle")
    /\ UNCHANGED << enabled, isRunning, httpVars, jobVars, serve, worker >>

LaunchServe(a) ==
    /\ admin[a] = "launchServe"
    /\ isRunning' = TRUE
    /\ jobs' = << >> /\ jobsShutdown' = FALSE
    /\ serve' = [NoServe EXCEPT !.pc = "loop"]
    /\ Goes(a, "launchWorkers")
    /\ UNCHANGED << lifecycleMutex, mutex, enabled, status, httpVars, worker >>

LaunchWorkers(a) ==
    /\ admin[a] = "launchWorkers"
    /\ worker' = [w \in Worker |-> [NoWorker EXCEPT !.pc = "check"]]
    /\ status' = "Running"
    /\ mutex' = NoAdmin /\ lifecycleMutex' = NoAdmin
    /\ Goes(a, "idle")
    /\ UNCHANGED << enabled, isRunning, httpVars, jobVars, serve >>

-----------------------------------------------------------------------------
(* Stop *)

CallStop(a) ==
    /\ admin[a] = "idle" /\ lifecycleMutex = NoAdmin
    /\ lifecycleMutex' = a
    /\ Goes(a, "mark")
    /\ UNCHANGED << stateVars, httpVars, jobVars, serve, worker >>

\* (mutant) mutex_ stays held until Stop returns.
MutexHeldWhileJoining(a) == a

\* mutex_ is released before the threads are joined.
HeldWhileJoining(a) == NoAdmin

\* First part, under mutex_: nothing to stop, or the state becomes Stopping.
MarkStopping(a) ==
    /\ admin[a] = "mark" /\ LockFree(mutex, a)
    /\ IF ~isRunning /\ requestQueue = 0
       THEN /\ status' = IF status = "Disabled" THEN "Disabled" ELSE "Stopped"
            /\ lifecycleMutex' = NoAdmin
            /\ Goes(a, "idle")
            /\ UNCHANGED << isRunning, mutex >>
       ELSE /\ status' = "Stopping"
            /\ isRunning' = FALSE
            /\ mutex' = HeldWhileJoining(a)
            /\ Goes(a, "shutQueue")
            /\ UNCHANGED lifecycleMutex
    /\ UNCHANGED << enabled, httpVars, jobVars, serve, worker >>

\* HttpShutdownRequestQueue: the receive that blocks is aborted, and requests
\* not received yet are refused by HTTP.sys.
ShutQueue(a) ==
    /\ admin[a] = "shutQueue"
    /\ queueShut' = TRUE
    /\ Drop({r \in Request : request[r] = "pending"})
    /\ Goes(a, "signal")
    /\ UNCHANGED << lifecycleMutex, stateVars, requestQueue, starts, replies, jobVars,
                    serve, worker >>

SignalWorkers(a) ==
    /\ admin[a] = "signal"
    /\ jobsShutdown' = TRUE
    /\ Goes(a, "wake")
    /\ UNCHANGED << lifecycleMutex, stateVars, httpVars, jobs, serve, worker >>

\* notify_all.
Woken(ws) == [w \in Worker |->
    IF w \in ws /\ worker[w].pc = "asleep" THEN [worker[w] EXCEPT !.pc = "check"]
                                           ELSE worker[w]]

WakeWorkers(a) ==
    /\ admin[a] = "wake"
    /\ worker' = Woken(Worker)
    /\ Goes(a, "joinServe")
    /\ UNCHANGED << lifecycleMutex, stateVars, httpVars, jobVars, serve >>

\* (mutant) The serve thread is not waited for.
DetachServe(a) ==
    /\ admin[a] = "joinServe"
    /\ Goes(a, "joinWorkers")
    /\ UNCHANGED << lifecycleMutex, stateVars, httpVars, jobVars, serve, worker >>

\* A thread that was never started is not joinable.
JoinServe(a) ==
    /\ admin[a] = "joinServe" /\ serve.pc \in {"none", "exited"}
    /\ serve' = NoServe
    /\ Goes(a, "joinWorkers")
    /\ UNCHANGED << lifecycleMutex, stateVars, httpVars, jobVars, worker >>

WorkersAreDone == \A w \in Worker : worker[w].pc \in {"none", "exited"}

JoinWorkers(a) ==
    /\ admin[a] = "joinWorkers" /\ WorkersAreDone
    /\ worker' = [w \in Worker |-> NoWorker]
    /\ Goes(a, "clear")
    /\ UNCHANGED << lifecycleMutex, stateVars, httpVars, jobVars, serve >>

ClearJobs(a) ==
    /\ admin[a] = "clear"
    /\ jobs' = << >> /\ jobsShutdown' = FALSE
    /\ Goes(a, "close")
    /\ UNCHANGED << lifecycleMutex, stateVars, httpVars, serve, worker >>

\* Last part, under mutex_ again: closeHttpSysHandlesLocked.
CloseQueue(a) ==
    /\ admin[a] = "close" /\ LockFree(mutex, a)
    /\ isRunning' = FALSE
    /\ requestQueue' = 0 /\ queueShut' = FALSE
    /\ Drop(Outstanding)
    /\ status' = "Stopped"
    /\ mutex' = NoAdmin /\ lifecycleMutex' = NoAdmin
    /\ Goes(a, "idle")
    /\ UNCHANGED << enabled, starts, replies, jobVars, serve, worker >>

-----------------------------------------------------------------------------
(* serveLoop *)

ServeGoes(pc, r) == serve' = [serve EXCEPT !.pc = pc, !.req = r]
ServeUnchanged == UNCHANGED << adminVars, stateVars, requestQueue, starts, queueShut >>

\* A client connects while the URL is bound and the queue takes requests.
Arrive(r) ==
    /\ requestQueue # 0 /\ ~queueShut
    /\ request[r] = "unsent"
    /\ request' = [request EXCEPT ![r] = "pending"]
    /\ UNCHANGED << replies, jobVars, serve, worker >> /\ ServeUnchanged

ServeTest ==
    /\ serve.pc = "loop"
    /\ ServeGoes(IF isRunning THEN "receive" ELSE "exited", NoRequest)
    /\ UNCHANGED << request, replies, jobVars, worker >> /\ ServeUnchanged

\* A receive that did not fit pins the request: it must be received again by
\* its own id.
Receivable(r) ==
    IF serve.pinned = NoRequest THEN request[r] = "pending" ELSE r = serve.pinned

Receive(r) ==
    /\ serve.pc = "receive" /\ ~queueShut /\ Receivable(r)
    /\ request' = [request EXCEPT ![r] = "taken"]
    /\ serve' = [pc |-> "route", req |-> r, pinned |-> NoRequest]
    /\ UNCHANGED << replies, jobVars, worker >> /\ ServeUnchanged

\* ERROR_MORE_DATA, answered with a larger buffer.
ReceivePart(r) ==
    /\ serve.pc = "receive" /\ ~queueShut
    /\ serve.pinned = NoRequest /\ request[r] = "pending"
    /\ request' = [request EXCEPT ![r] = "pinned"]
    /\ serve' = [serve EXCEPT !.pc = "loop", !.pinned = r]
    /\ UNCHANGED << replies, jobVars, worker >> /\ ServeUnchanged

\* ERROR_CONNECTION_INVALID for the pinned request.
ReceiveGone ==
    /\ serve.pc = "receive" /\ ~queueShut /\ serve.pinned # NoRequest
    /\ Drop({serve.pinned})
    /\ serve' = [serve EXCEPT !.pc = "loop", !.pinned = NoRequest]
    /\ UNCHANGED << replies, jobVars, worker >> /\ ServeUnchanged

\* ERROR_OPERATION_ABORTED.
ReceiveAborted ==
    /\ serve.pc = "receive" /\ queueShut
    /\ serve' = [serve EXCEPT !.pc = "exited"]
    /\ UNCHANGED << request, replies, jobVars, worker >> /\ ServeUnchanged

\* By path, verb and size: /health, a well-formed POST on the MCP path, or
\* something a 404, 405 or 413 answers.
Route ==
    /\ serve.pc = "route"
    /\ \E pc \in {"health", "enqueue", "reply"} : ServeGoes(pc, serve.req)
    /\ UNCHANGED << request, replies, jobVars, worker >> /\ ServeUnchanged

\* Probe and CurrentStatus each take mutex_ for a moment.
Health ==
    /\ serve.pc = "health" /\ mutex = NoAdmin
    /\ ServeGoes("reply", serve.req)
    /\ UNCHANGED << request, replies, jobVars, worker >> /\ ServeUnchanged

\* (mutant) An off-by-one.
HasRoomForOneMore == ~jobsShutdown /\ Len(jobs) <= MaxDepth

HasRoom == ~jobsShutdown /\ Len(jobs) < MaxDepth

\* (mutant) serveLoop forgets to continue after it queued the request.
EnqueueFallsThrough ==
    /\ serve.pc = "enqueue"
    /\ jobs' = IF HasRoom THEN Append(jobs, serve.req) ELSE jobs
    /\ ServeGoes("reply", serve.req)
    /\ UNCHANGED << request, replies, jobsShutdown, worker >> /\ ServeUnchanged

\* The request becomes a job, or is answered 503 by this thread.
Enqueue ==
    /\ serve.pc = "enqueue"
    /\ IF HasRoom
       THEN jobs' = Append(jobs, serve.req) /\ ServeGoes("notify", NoRequest)
       ELSE ServeGoes("reply", serve.req) /\ UNCHANGED jobs
    /\ UNCHANGED << request, replies, jobsShutdown, worker >> /\ ServeUnchanged

\* (mutant) The wake-up is lost.
NotifyNobody ==
    /\ serve.pc = "notify"
    /\ ServeGoes("loop", NoRequest)
    /\ UNCHANGED << request, replies, jobVars, worker >> /\ ServeUnchanged

\* notify_one, after the queue's lock was released.
Notify ==
    /\ serve.pc = "notify"
    /\ LET asleep == {w \in Worker : worker[w].pc = "asleep"}
       IN  IF asleep = {} THEN UNCHANGED worker
           ELSE \E w \in asleep : worker' = Woken({w})
    /\ ServeGoes("loop", NoRequest)
    /\ UNCHANGED << request, replies, jobVars >> /\ ServeUnchanged

ServeReply ==
    /\ serve.pc = "reply"
    /\ Send(serve.req)
    /\ ServeGoes("loop", NoRequest)
    /\ UNCHANGED << jobVars, worker >> /\ ServeUnchanged

-----------------------------------------------------------------------------
(* workerLoop and processGatewayJob *)

WorkerGoes(w, pc, r) == worker' = [worker EXCEPT ![w] = [pc |-> pc, req |-> r]]

\* The predicate of the wait, evaluated under jobQueueMutex_: exit, take the
\* oldest job, or sleep.
Check(w) ==
    /\ worker[w].pc = "check"
    /\ \/ /\ jobsShutdown
          /\ WorkerGoes(w, "exited", NoRequest) /\ UNCHANGED jobs
       \/ /\ ~jobsShutdown /\ jobs # << >>
          /\ WorkerGoes(w, "busy", Head(jobs)) /\ jobs' = Tail(jobs)
       \/ /\ ~jobsShutdown /\ jobs = << >>
          /\ WorkerGoes(w, "asleep", NoRequest) /\ UNCHANGED jobs
    /\ UNCHANGED << jobsShutdown, request, replies, serve >> /\ ServeUnchanged

\* The rest of the body cannot be read: nobody is there to answer.
BodyBroken(w) ==
    /\ worker[w].pc = "busy"
    /\ Drop({worker[w].req})
    /\ WorkerGoes(w, "check", NoRequest)
    /\ UNCHANGED << replies, jobVars, serve >> /\ ServeUnchanged

\* handleMcpRequest returns or throws, or the body is too large: there is a
\* response in every case.
HandleRequest(w) ==
    /\ worker[w].pc = "busy"
    /\ WorkerGoes(w, "reply", worker[w].req)
    /\ UNCHANGED << request, replies, jobVars, serve >> /\ ServeUnchanged

WorkerReply(w) ==
    /\ worker[w].pc = "reply"
    /\ Send(worker[w].req)
    /\ WorkerGoes(w, "check", NoRequest)
    /\ UNCHANGED << jobVars, serve >> /\ ServeUnchanged

-----------------------------------------------------------------------------

GwInit ==
    /\ admin = [a \in Admin |-> "idle"]
    /\ lifecycleMutex = NoAdmin /\ mutex = NoAdmin
    /\ enabled \in BOOLEAN
    /\ status = IF enabled THEN "Configured" ELSE "Disabled"
    /\ isRunning = FALSE
    /\ requestQueue = 0 /\ starts = 0 /\ queueShut = FALSE
    /\ jobs = << >> /\ jobsShutdown = FALSE
    /\ serve = NoServe
    /\ worker = [w \in Worker |-> NoWorker]
    /\ request = [r \in Request |-> "unsent"]
    /\ replies = [r \in Request |-> 0]

StartStep(a) == \/ EnterStart(a) \/ OpenQueue(a) \/ OpenFails(a)
                \/ LaunchServe(a) \/ LaunchWorkers(a)
StopStep(a) == \/ MarkStopping(a) \/ ShutQueue(a) \/ SignalWorkers(a)
               \/ WakeWorkers(a) \/ JoinServe(a) \/ JoinWorkers(a)
               \/ ClearJobs(a) \/ CloseQueue(a)
ServeStep == \/ ServeTest \/ ReceiveGone \/ ReceiveAborted \/ Route \/ Health
             \/ Enqueue \/ Notify \/ ServeReply
             \/ \E r \in Request : Receive(r) \/ ReceivePart(r)
WorkerStep(w) == Check(w) \/ BodyBroken(w) \/ HandleRequest(w) \/ WorkerReply(w)

GwNext ==
    \/ \E a \in Admin : CallStart(a) \/ CallStop(a) \/ StartStep(a) \/ StopStep(a)
    \/ \E r \in Request : Arrive(r)
    \/ ServeStep
    \/ \E w \in Worker : WorkerStep(w)

GwSpec == GwInit /\ [][GwNext]_gwVars

\* Every thread that can run runs, and handleMcpRequest returns: its calls to
\* workers have a deadline.
GwFairSpec ==
    /\ GwSpec
    /\ \A a \in Admin : WF_gwVars(StartStep(a)) /\ WF_gwVars(StopStep(a))
    /\ WF_gwVars(ServeStep)
    /\ \A w \in Worker : WF_gwVars(WorkerStep(w))

-----------------------------------------------------------------------------
(* Properties *)

\* The type invariant; the job queue never exceeds its bound.
GwTypeOK ==
    /\ admin \in [Admin -> {"idle"} \cup StartPc \cup StopPc]
    /\ lifecycleMutex \in Admin \cup {NoAdmin}
    /\ mutex \in Admin \cup {NoAdmin}
    /\ enabled \in BOOLEAN /\ isRunning \in BOOLEAN
    /\ status \in {"Disabled", "Configured", "Running", "Stopping", "Stopped", "Failed"}
    /\ starts \in 0..MaxStart /\ requestQueue \in 0..starts /\ queueShut \in BOOLEAN
    /\ jobs \in Seq(Request) /\ Len(jobs) <= MaxDepth
    /\ jobsShutdown \in BOOLEAN
    /\ serve \in [pc : ServePc, req : Request \cup {NoRequest},
                  pinned : Request \cup {NoRequest}]
    /\ worker \in [Worker -> [pc : WorkerPc, req : Request \cup {NoRequest}]]
    /\ request \in [Request -> {"unsent", "pending", "pinned", "taken", "answered", "dropped"}]
    /\ replies \in [Request -> Nat]

\* A request has one owner at a time (the serve thread, the job queue or one
\* worker) and is answered at most once, on the queue it came from: serveLoop,
\* processGatewayJob.
AnsweredAtMostOnce ==
    /\ \A r \in Request : replies[r] <= 1
    /\ \A r \in Referred : request[r] \in {"taken", "pinned"}

\* While a serve or worker thread exists its request queue handle is open, so
\* that no thread receives from or answers on a closed handle: Stop closes the
\* handles after the joins.
HandleOutlivesThreads ==
    serve.pc # "none" \/ (\E w \in Worker : worker[w].pc # "none") => requestQueue # 0

\* Start never assigns to a thread that was not joined, which would terminate
\* the process: lifecycleMutex_.
NoThreadOverwritten ==
    [][ ~isRunning /\ isRunning' =>
            serve.pc = "none" /\ \A w \in Worker : worker[w].pc = "none" ]_gwVars

\* The two together: no thread works on a closed handle or is lost track of.
ThreadsAreJoined == []HandleOutlivesThreads /\ NoThreadOverwritten

\* When no Start or Stop is under way the reported state tells the truth: the
\* gateway is Running exactly when its queue is open and its threads run.
StatusIsTrue ==
    lifecycleMutex = NoAdmin =>
        /\ status = "Running" <=> isRunning
        /\ isRunning <=> requestQueue # 0
        /\ IF isRunning
           THEN serve.pc \notin {"none", "exited"}
                /\ \A w \in Worker : worker[w].pc \notin {"none", "exited"}
           ELSE serve.pc = "none" /\ \A w \in Worker : worker[w].pc = "none"

\* A Stop that was entered returns, whatever requests are in flight, a /health
\* request included.
StopReturns == \A a \in Admin : admin[a] \in StopPc ~> admin[a] = "idle"

\* Unless the gateway is stopped, a request it received gets its answer (or
\* its connection breaks): no job is left behind by a lost wake-up, and a
\* pinned request is received again.
RequestsAreAnswered ==
    \A r \in Request : request[r] \in {"pinned", "taken"}
        ~> request[r] \in {"answered", "dropped"} \/ ~isRunning

\* The gateway is well typed, every request it received has one owner and at
\* most one answer, and the state it reports is the one it is in.
GatewayIsSound == GwTypeOK /\ AnsweredAtMostOnce /\ StatusIsTrue

\* Stop returns and requests are answered, whatever the other threads do.
GatewayProgress == StopReturns /\ RequestsAreAnswered
=============================================================================
