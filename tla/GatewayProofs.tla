----------------------------- MODULE GatewayProofs -----------------------------
(***************************************************************************)
(* The threads of the gateway, for any number of administrators, workers   *)
(* and requests and any depth of the queue.                                *)
(*                                                                         *)
(* Three facts make the invariant inductive.  lifecycleMutex_ admits one   *)
(* operation, and the step that operation has reached says which threads   *)
(* exist and which handle is open (Lifecycle).  A request the gateway      *)
(* received is in one place: the serve thread, the job queue or one worker *)
(* (Owners).  It was answered exactly if it is marked so (RepliesCounted). *)
(***************************************************************************)
EXTENDS McpGateway, SequenceTheorems, TLAPS

ServeAlive == serve.pc \notin {"none", "exited"}
WorkerAlive(w) == worker[w].pc \notin {"none", "exited"}
NoWorkers == \A w \in Worker : worker[w].pc = "none"
NoThreads == serve.pc = "none" /\ NoWorkers

\* Between two operations the gateway is up or down.
Up ==
    /\ isRunning /\ enabled /\ status = "Running"
    /\ requestQueue # 0 /\ ~queueShut /\ ~jobsShutdown
    /\ ServeAlive /\ \A w \in Worker : WorkerAlive(w)
Down == ~isRunning /\ requestQueue = 0 /\ NoThreads /\ jobs = << >> /\ status # "Running"

Opening == {"open", "launchServe", "launchWorkers"}
Closing == StopPc \ {"mark"}

\* The mutexes are held by the operation under way, at the steps that hold them.
Exclusive ==
    \A a \in Admin :
        /\ admin[a] = "idle" <=> lifecycleMutex # a
        /\ mutex = a <=> admin[a] \in Opening

\* What each step of an operation finds.
Lifecycle ==
    /\ (\A a \in Admin : admin[a] \in {"idle", "enterStart", "mark"}) => Up \/ Down
    /\ \A a \in Admin :
        /\ admin[a] = "open" => Down /\ enabled
        /\ admin[a] = "launchServe" =>
               ~isRunning /\ enabled /\ requestQueue # 0 /\ ~queueShut /\ NoThreads
        /\ admin[a] = "launchWorkers" =>
               /\ isRunning /\ enabled /\ requestQueue # 0 /\ ~queueShut /\ ~jobsShutdown
               /\ ServeAlive /\ NoWorkers
        /\ admin[a] \in Closing => ~isRunning /\ requestQueue # 0
        /\ admin[a] \in {"joinWorkers", "clear", "close"} => serve.pc = "none"
        /\ admin[a] \in {"clear", "close"} => NoWorkers
        /\ admin[a] = "close" => jobs = << >>

\* A request that was received has one owner, at a step that works on it.
ServeHolds ==
    /\ serve.req # NoRequest <=> serve.pc \in {"route", "health", "enqueue", "reply"}
    /\ serve.req # NoRequest =>
           request[serve.req] = "taken" /\ \A w \in Worker : worker[w].req # serve.req
    /\ serve.pinned # NoRequest =>
           request[serve.pinned] = "pinned" /\ serve.pc \in {"loop", "receive", "exited"}
WorkersHold ==
    \A w \in Worker :
        /\ worker[w].req # NoRequest <=> worker[w].pc \in {"busy", "reply"}
        /\ worker[w].req # NoRequest =>
               /\ request[worker[w].req] = "taken"
               /\ \A v \in Worker : worker[v].req = worker[w].req => v = w
JobsHold ==
    \A i \in 1..Len(jobs) :
        /\ request[jobs[i]] = "taken"
        /\ jobs[i] # serve.req
        /\ \A w \in Worker : worker[w].req # jobs[i]
        /\ \A j \in 1..Len(jobs) : jobs[i] = jobs[j] => i = j
Owners == ServeHolds /\ WorkersHold /\ JobsHold

RepliesCounted ==
    \A r \in Request : replies[r] = IF request[r] = "answered" THEN 1 ELSE 0

GwInv == GwTypeOK /\ Exclusive /\ Lifecycle /\ Owners /\ RepliesCounted

-----------------------------------------------------------------------------
(* The types *)

LEMMA NoThreadIsTyped ==
    /\ NoServe \in [pc : ServePc, req : Request \cup {NoRequest}, pinned : Request \cup {NoRequest}]
    /\ NoWorker \in [pc : WorkerPc, req : Request \cup {NoRequest}]
  BY DEF NoServe, NoWorker, ServePc, WorkerPc

\* The job queue: empty, with one job more and with one job less.
LEMMA EmptyQueueTyped == << >> \in Seq(Request) /\ Len(<< >>) = 0 /\ Len(<< >>) <= MaxDepth
  BY GatewayAssumption

LEMMA QueueTyped ==
    ASSUME NEW q \in Seq(Request), Len(q) <= MaxDepth, NEW r \in Request
    PROVE  /\ Len(q) < MaxDepth => Append(q, r) \in Seq(Request) /\ Len(Append(q, r)) <= MaxDepth
           /\ q # << >> => /\ Head(q) \in Request /\ Tail(q) \in Seq(Request)
                           /\ Len(Tail(q)) <= MaxDepth
<1>1. MaxDepth \in Nat
  BY GatewayAssumption
<1>2. Append(q, r) \in Seq(Request) /\ Len(Append(q, r)) = Len(q) + 1
  BY AppendProperties
<1>3. q # << >> => Head(q) \in Request /\ Tail(q) \in Seq(Request) /\ Len(Tail(q)) = Len(q) - 1
  BY HeadTailProperties
<1>4. Len(q) \in Nat
  BY LenProperties
<1> QED
  BY <1>1, <1>2, <1>3, <1>4

LEMMA SendTyped ==
    ASSUME GwTypeOK, NEW r \in Request, Send(r)
    PROVE  /\ request' \in [Request -> {"unsent", "pending", "pinned", "taken", "answered", "dropped"}]
           /\ replies' \in [Request -> Nat]
<1>1. /\ request \in [Request -> {"unsent", "pending", "pinned", "taken", "answered", "dropped"}]
      /\ replies \in [Request -> Nat]
  BY DEF GwTypeOK
<1>2. CASE /\ request' = [request EXCEPT ![r] = "answered"]
           /\ replies' = [replies EXCEPT ![r] = @ + 1]
  BY <1>1, <1>2
<1>3. CASE request' = [request EXCEPT ![r] = "dropped"] /\ replies' = replies
  BY <1>1, <1>3
<1> QED
  BY <1>2, <1>3 DEF Send

LEMMA WokenTyped ==
    ASSUME GwTypeOK, NEW ws
    PROVE  Woken(ws) \in [Worker -> [pc : WorkerPc, req : Request \cup {NoRequest}]]
<1>1. \A w \in Worker : [worker[w] EXCEPT !.pc = "check"] \in [pc : WorkerPc, req : Request \cup {NoRequest}]
  BY DEF GwTypeOK, WorkerPc
<1>2. \A w \in Worker : worker[w] \in [pc : WorkerPc, req : Request \cup {NoRequest}]
  BY DEF GwTypeOK
<1> QED
  BY <1>1, <1>2 DEF Woken

\* What a step leaves well typed when it touches requests and threads only.
LEMMA RestTyped ==
    ASSUME GwTypeOK, ServeUnchanged,
           jobs' \in Seq(Request), Len(jobs') <= MaxDepth, jobsShutdown' = jobsShutdown,
           serve' \in [pc : ServePc, req : Request \cup {NoRequest}, pinned : Request \cup {NoRequest}],
           worker' \in [Worker -> [pc : WorkerPc, req : Request \cup {NoRequest}]],
           request' \in [Request -> {"unsent", "pending", "pinned", "taken", "answered", "dropped"}],
           replies' \in [Request -> Nat]
    PROVE  GwTypeOK'
  BY DEF GwTypeOK, ServeUnchanged, adminVars, stateVars

LEMMA AdminTyped ==
    ASSUME GwTypeOK, NEW a \in Admin, CallStart(a) \/ CallStop(a) \/ StartStep(a) \/ StopStep(a)
    PROVE  GwTypeOK'
<1> USE DEF GwTypeOK, StartPc, StopPc, Goes
<1>1. CASE CallStart(a)
  BY <1>1 DEF CallStart, stateVars, httpVars, jobVars
<1>2. CASE CallStop(a)
  BY <1>2 DEF CallStop, stateVars, httpVars, jobVars
<1>3. CASE EnterStart(a)
  BY <1>3 DEF EnterStart, httpVars, jobVars
<1>4. CASE OpenQueue(a)
  <2>1. starts' \in 0..MaxStart /\ requestQueue' \in 0..starts' /\ queueShut' \in BOOLEAN
    <3> HIDE DEF GwTypeOK
    <3>1. starts \in 0..MaxStart /\ MaxStart \in Nat
      BY GatewayAssumption DEF GwTypeOK
    <3>2. starts < MaxStart /\ starts' = starts + 1 /\ requestQueue' = starts + 1
      BY <1>4 DEF OpenQueue
    <3>3. starts' \in 0..MaxStart /\ requestQueue' \in 0..starts'
      BY <3>1, <3>2
    <3>4. queueShut' \in BOOLEAN
      BY <1>4 DEF OpenQueue
    <3> QED
      BY <3>3, <3>4
  <2>2. admin' \in [Admin -> {"idle"} \cup StartPc \cup StopPc]
    BY <1>4 DEF OpenQueue
  <2>3. UNCHANGED << lifecycleMutex, stateVars, request, replies, jobVars, serve, worker >>
    BY <1>4 DEF OpenQueue
  <2> QED
    BY <2>1, <2>2, <2>3 DEF stateVars, jobVars
<1>5. CASE OpenFails(a)
  BY <1>5 DEF OpenFails, httpVars, jobVars
<1>6. CASE LaunchServe(a)
  <2>1. serve' \in [pc : ServePc, req : Request \cup {NoRequest}, pinned : Request \cup {NoRequest}]
    BY <1>6 DEF LaunchServe, NoServe, ServePc
  <2>2. jobs' \in Seq(Request) /\ Len(jobs') <= MaxDepth /\ jobsShutdown' = FALSE /\ isRunning' = TRUE
    BY <1>6, EmptyQueueTyped DEF LaunchServe
  <2>3. admin' \in [Admin -> {"idle"} \cup StartPc \cup StopPc]
    BY <1>6 DEF LaunchServe
  <2>4. UNCHANGED << lifecycleMutex, mutex, enabled, status, httpVars, worker >>
    BY <1>6 DEF LaunchServe
  <2> QED
    BY <2>1, <2>2, <2>3, <2>4 DEF httpVars
<1>7. CASE LaunchWorkers(a)
  BY <1>7, NoThreadIsTyped DEF LaunchWorkers, httpVars, jobVars, WorkerPc
<1>8. CASE MarkStopping(a)
  BY <1>8 DEF MarkStopping, HeldWhileJoining, httpVars, jobVars
<1>9. CASE ShutQueue(a)
  BY <1>9 DEF ShutQueue, Drop, stateVars, jobVars
<1>10. CASE SignalWorkers(a)
  BY <1>10 DEF SignalWorkers, stateVars, httpVars
<1>11. CASE WakeWorkers(a)
  <2>1. worker' \in [Worker -> [pc : WorkerPc, req : Request \cup {NoRequest}]]
    BY <1>11, WokenTyped DEF WakeWorkers
  <2>2. admin' \in [Admin -> {"idle"} \cup StartPc \cup StopPc]
    BY <1>11 DEF WakeWorkers
  <2>3. UNCHANGED << lifecycleMutex, stateVars, httpVars, jobVars, serve >>
    BY <1>11 DEF WakeWorkers
  <2> QED
    BY <2>1, <2>2, <2>3 DEF stateVars, httpVars, jobVars
<1>12. CASE JoinServe(a)
  BY <1>12, NoThreadIsTyped DEF JoinServe, stateVars, httpVars, jobVars
<1>13. CASE JoinWorkers(a)
  BY <1>13, NoThreadIsTyped DEF JoinWorkers, stateVars, httpVars, jobVars
<1>14. CASE ClearJobs(a)
  <2>1. jobs' \in Seq(Request) /\ Len(jobs') <= MaxDepth /\ jobsShutdown' = FALSE
    BY <1>14, EmptyQueueTyped DEF ClearJobs
  <2>2. admin' \in [Admin -> {"idle"} \cup StartPc \cup StopPc]
    BY <1>14 DEF ClearJobs
  <2>3. UNCHANGED << lifecycleMutex, stateVars, httpVars, serve, worker >>
    BY <1>14 DEF ClearJobs
  <2> QED
    BY <2>1, <2>2, <2>3 DEF stateVars, httpVars
<1>15. CASE CloseQueue(a)
  <2>1. request' \in [Request -> {"unsent", "pending", "pinned", "taken", "answered", "dropped"}]
    BY <1>15 DEF CloseQueue, Drop
  <2>2. /\ lifecycleMutex' = NoAdmin /\ mutex' = NoAdmin /\ isRunning' = FALSE
        /\ requestQueue' = 0 /\ queueShut' = FALSE /\ status' = "Stopped"
    BY <1>15 DEF CloseQueue
  <2>3. admin' \in [Admin -> {"idle"} \cup StartPc \cup StopPc]
    BY <1>15 DEF CloseQueue
  <2>4. UNCHANGED << enabled, starts, replies, jobVars, serve, worker >>
    BY <1>15 DEF CloseQueue
  <2>5. 0 \in 0..starts
    BY GatewayAssumption
  <2> QED
    BY <2>1, <2>2, <2>3, <2>4, <2>5 DEF jobVars
<1> QED
  BY <1>1, <1>2, <1>3, <1>4, <1>5, <1>6, <1>7, <1>8, <1>9, <1>10, <1>11, <1>12, <1>13, <1>14,
     <1>15 DEF StartStep, StopStep

LEMMA ServeTyped ==
    ASSUME GwTypeOK, Owners, ServeStep
    PROVE  GwTypeOK'
<1>1. /\ serve \in [pc : ServePc, req : Request \cup {NoRequest}, pinned : Request \cup {NoRequest}]
      /\ worker \in [Worker -> [pc : WorkerPc, req : Request \cup {NoRequest}]]
      /\ request \in [Request -> {"unsent", "pending", "pinned", "taken", "answered", "dropped"}]
      /\ replies \in [Request -> Nat] /\ jobs \in Seq(Request) /\ Len(jobs) <= MaxDepth
  BY DEF GwTypeOK
<1>2. ServeUnchanged /\ jobsShutdown' = jobsShutdown
  BY DEF ServeStep, ServeTest, ReceiveGone, ReceiveAborted, Route, Health, Enqueue, Notify,
         ServeReply, Receive, ReceivePart, jobVars
<1>3. serve' \in [pc : ServePc, req : Request \cup {NoRequest}, pinned : Request \cup {NoRequest}]
  <2> USE <1>1 DEF ServePc, ServeGoes
  <2>1. CASE ServeTest \/ ReceiveGone \/ ReceiveAborted
    BY <2>1 DEF ServeTest, ReceiveGone, ReceiveAborted
  <2>2. CASE Route
    <3>1. PICK pc \in {"health", "enqueue", "reply"} :
             serve' = [serve EXCEPT !.pc = pc, !.req = serve.req]
      BY <2>2 DEF Route
    <3> QED
      BY <3>1
  <2>3. CASE Health \/ Enqueue
    BY <2>3 DEF Health, Enqueue
  <2>4. CASE Notify \/ ServeReply
    BY <2>4 DEF Notify, ServeReply
  <2>5. CASE \E r \in Request : Receive(r) \/ ReceivePart(r)
    <3>1. PICK r \in Request : Receive(r) \/ ReceivePart(r)
      BY <2>5
    <3>2. CASE Receive(r)
      BY <3>2 DEF Receive
    <3>3. CASE ReceivePart(r)
      BY <3>3 DEF ReceivePart
    <3> QED
      BY <3>1, <3>2, <3>3
  <2> QED
    BY <2>1, <2>2, <2>3, <2>4, <2>5 DEF ServeStep
<1>4. jobs' \in Seq(Request) /\ Len(jobs') <= MaxDepth
  <2>1. CASE Enqueue
    <3>1. serve.req \in Request
      BY <1>1, <2>1 DEF Enqueue, Owners, ServeHolds
    <3> QED
      BY <1>1, <2>1, <3>1, QueueTyped DEF Enqueue, HasRoom
  <2>2. CASE ~Enqueue
    BY <1>1, <2>2 DEF ServeStep, ServeTest, ReceiveGone, ReceiveAborted, Route, Health, Notify,
         ServeReply, Receive, ReceivePart, jobVars
  <2> QED
    BY <2>1, <2>2
<1>5. worker' \in [Worker -> [pc : WorkerPc, req : Request \cup {NoRequest}]]
  <2>1. CASE Notify
    <3>1. PICK ws \in {{}} \cup SUBSET Worker : worker' = worker \/ worker' = Woken(ws)
      BY <2>1 DEF Notify
    <3> QED
      BY <1>1, <3>1, WokenTyped
  <2>2. CASE ~Notify
    BY <1>1, <2>2 DEF ServeStep, ServeTest, ReceiveGone, ReceiveAborted, Route, Health, Enqueue,
         ServeReply, Receive, ReceivePart
  <2> QED
    BY <2>1, <2>2
<1>6. /\ request' \in [Request -> {"unsent", "pending", "pinned", "taken", "answered", "dropped"}]
      /\ replies' \in [Request -> Nat]
  <2>1. CASE ServeReply
    <3>1. serve.req \in Request
      BY <1>1, <2>1 DEF ServeReply, Owners, ServeHolds
    <3> QED
      BY <2>1, <3>1, SendTyped DEF ServeReply
  <2>2. CASE ~ServeReply
    BY <1>1, <2>2 DEF ServeStep, ServeTest, ReceiveGone, ReceiveAborted, Route, Health, Enqueue,
         Notify, Receive, ReceivePart, Drop
  <2> QED
    BY <2>1, <2>2
<1> QED
  BY <1>2, <1>3, <1>4, <1>5, <1>6, RestTyped

LEMMA WorkerTyped ==
    ASSUME GwTypeOK, Owners, NEW w \in Worker, WorkerStep(w)
    PROVE  GwTypeOK'
<1>1. /\ worker \in [Worker -> [pc : WorkerPc, req : Request \cup {NoRequest}]]
      /\ request \in [Request -> {"unsent", "pending", "pinned", "taken", "answered", "dropped"}]
      /\ replies \in [Request -> Nat] /\ jobs \in Seq(Request) /\ Len(jobs) <= MaxDepth
  BY DEF GwTypeOK
<1>2. ServeUnchanged /\ UNCHANGED << jobsShutdown, serve >>
  BY DEF WorkerStep, Check, BodyBroken, HandleRequest, WorkerReply, jobVars
<1>3. jobs' \in Seq(Request) /\ Len(jobs') <= MaxDepth
  BY <1>1, QueueTyped, HeadTailProperties
     DEF WorkerStep, Check, BodyBroken, HandleRequest, WorkerReply, jobVars
<1>4. worker' \in [Worker -> [pc : WorkerPc, req : Request \cup {NoRequest}]]
  <2>1. jobs # << >> => Head(jobs) \in Request
    BY <1>1, HeadTailProperties
  <2> QED
    BY <1>1, <2>1 DEF WorkerStep, Check, BodyBroken, HandleRequest, WorkerReply, WorkerGoes, WorkerPc
<1>5. /\ request' \in [Request -> {"unsent", "pending", "pinned", "taken", "answered", "dropped"}]
      /\ replies' \in [Request -> Nat]
  <2>1. CASE WorkerReply(w)
    <3>1. worker[w].req \in Request
      BY <1>1, <2>1 DEF WorkerReply, Owners, WorkersHold
    <3> QED
      BY <2>1, <3>1, SendTyped DEF WorkerReply
  <2>2. CASE ~WorkerReply(w)
    BY <1>1, <2>2 DEF WorkerStep, Check, BodyBroken, HandleRequest, Drop
  <2> QED
    BY <2>1, <2>2
<1>6. serve' \in [pc : ServePc, req : Request \cup {NoRequest}, pinned : Request \cup {NoRequest}]
  BY <1>2 DEF GwTypeOK
<1> QED
  BY <1>2, <1>3, <1>4, <1>5, <1>6, RestTyped

LEMMA ArriveTyped ==
    ASSUME GwTypeOK, NEW r \in Request, Arrive(r)
    PROVE  GwTypeOK'
  BY DEF GwTypeOK, Arrive, ServeUnchanged, adminVars, stateVars, jobVars

-----------------------------------------------------------------------------
(* The operations *)

\* One operation at a time: the steps of Start and Stop move the only
\* administrator that is not idle.
LEMMA AdminExclusive ==
    ASSUME GwInv, NEW a \in Admin, CallStart(a) \/ CallStop(a) \/ StartStep(a) \/ StopStep(a)
    PROVE  Exclusive'
<1> USE GatewayAssumption DEF GwInv, GwTypeOK, Exclusive, Opening, Goes
<1>1. CASE CallStart(a)
  BY <1>1 DEF CallStart, stateVars
<1>2. CASE CallStop(a)
  BY <1>2 DEF CallStop, stateVars
<1>3. CASE EnterStart(a)
  BY <1>3 DEF EnterStart, LockFree
<1>4. CASE OpenQueue(a)
  BY <1>4 DEF OpenQueue, stateVars
<1>5. CASE OpenFails(a)
  BY <1>5 DEF OpenFails
<1>6. CASE LaunchServe(a)
  BY <1>6 DEF LaunchServe
<1>7. CASE LaunchWorkers(a)
  BY <1>7 DEF LaunchWorkers
<1>8. CASE MarkStopping(a)
  BY <1>8 DEF MarkStopping, HeldWhileJoining, LockFree
<1>9. CASE ShutQueue(a)
  BY <1>9 DEF ShutQueue, stateVars
<1>10. CASE SignalWorkers(a)
  BY <1>10 DEF SignalWorkers, stateVars
<1>11. CASE WakeWorkers(a)
  BY <1>11 DEF WakeWorkers, stateVars
<1>12. CASE JoinServe(a)
  BY <1>12 DEF JoinServe, stateVars
<1>13. CASE JoinWorkers(a)
  BY <1>13 DEF JoinWorkers, stateVars
<1>14. CASE ClearJobs(a)
  BY <1>14 DEF ClearJobs, stateVars
<1>15. CASE CloseQueue(a)
  BY <1>15 DEF CloseQueue, LockFree
<1> QED
  BY <1>1, <1>2, <1>3, <1>4, <1>5, <1>6, <1>7, <1>8, <1>9, <1>10, <1>11, <1>12, <1>13, <1>14,
     <1>15 DEF StartStep, StopStep

LEMMA AdminLifecycle ==
    ASSUME GwInv, NEW a \in Admin, CallStart(a) \/ CallStop(a) \/ StartStep(a) \/ StopStep(a)
    PROVE  Lifecycle'
<1>1. \A q \in Admin \ {a} : admin[q] = "idle" /\ admin'[q] = "idle"
  <2>1. \A q \in Admin \ {a} : admin'[q] = admin[q]
    BY DEF GwInv, GwTypeOK, CallStart, CallStop, StartStep, EnterStart, OpenQueue, OpenFails,
           LaunchServe, LaunchWorkers, StopStep, MarkStopping, ShutQueue, SignalWorkers,
           WakeWorkers, JoinServe, JoinWorkers, ClearJobs, CloseQueue, Goes
  <2>2. lifecycleMutex = NoAdmin \/ lifecycleMutex = a
    BY DEF GwInv, Exclusive, CallStart, CallStop, StartStep, EnterStart, OpenQueue, OpenFails,
           LaunchServe, LaunchWorkers, StopStep, MarkStopping, ShutQueue, SignalWorkers,
           WakeWorkers, JoinServe, JoinWorkers, ClearJobs, CloseQueue
  <2> QED
    BY <2>1, <2>2, GatewayAssumption DEF GwInv, Exclusive
<1> USE DEF GwInv, GwTypeOK, Lifecycle, Closing, StopPc, Goes
<1>2. CASE CallStart(a) \/ CallStop(a)
  BY <1>1, <1>2 DEF CallStart, CallStop, Up, Down, NoThreads, NoWorkers, ServeAlive, WorkerAlive,
     stateVars, httpVars, jobVars
<1>3. CASE EnterStart(a)
  BY <1>1, <1>3 DEF EnterStart, Up, Down, NoThreads, NoWorkers, ServeAlive, WorkerAlive,
     httpVars, jobVars
<1>4. CASE OpenQueue(a)
  BY <1>1, <1>4 DEF OpenQueue, Down, NoThreads, NoWorkers, stateVars, jobVars
<1>5. CASE OpenFails(a)
  BY <1>1, <1>5 DEF OpenFails, Down, NoThreads, NoWorkers, httpVars, jobVars
<1>6. CASE LaunchServe(a)
  BY <1>1, <1>6 DEF LaunchServe, NoServe, ServeAlive, NoThreads, NoWorkers, httpVars
<1>7. CASE LaunchWorkers(a)
  BY <1>1, <1>7 DEF LaunchWorkers, NoWorker, Up, ServeAlive, WorkerAlive, httpVars, jobVars
<1>8. CASE MarkStopping(a)
  BY <1>1, <1>8 DEF MarkStopping, Up, Down, NoThreads, NoWorkers, httpVars, jobVars
<1>9. CASE ShutQueue(a) \/ SignalWorkers(a) \/ WakeWorkers(a)
  <2>1. /\ admin[a] \in Closing
        /\ admin' = [admin EXCEPT ![a] = "signal"] \/ admin' = [admin EXCEPT ![a] = "wake"]
           \/ admin' = [admin EXCEPT ![a] = "joinServe"]
        /\ isRunning' = isRunning /\ requestQueue' = requestQueue
    BY <1>9 DEF ShutQueue, SignalWorkers, WakeWorkers, stateVars, httpVars
  <2>2. admin'[a] \in {"signal", "wake", "joinServe"}
    BY <2>1
  <2> QED
    BY <1>1, <2>1, <2>2
<1>10. CASE JoinServe(a)
  BY <1>1, <1>10 DEF JoinServe, NoServe, stateVars, httpVars, jobVars
<1>11. CASE JoinWorkers(a)
  BY <1>1, <1>11 DEF JoinWorkers, NoWorkers, NoWorker, stateVars, httpVars, jobVars
<1>12. CASE ClearJobs(a)
  BY <1>1, <1>12 DEF ClearJobs, NoWorkers, stateVars, httpVars
<1>13. CASE CloseQueue(a)
  BY <1>1, <1>13 DEF CloseQueue, Down, NoThreads, NoWorkers, jobVars
<1> QED
  BY <1>2, <1>3, <1>4, <1>5, <1>6, <1>7, <1>8, <1>9, <1>10, <1>11, <1>12, <1>13
     DEF StartStep, StopStep

\* A step of another thread starts and ends no thread, except that the serve
\* thread ends when the gateway stops running and a worker when the job queue
\* shuts down.
ThreadsGoOn ==
    /\ UNCHANGED << admin, lifecycleMutex, mutex, enabled, isRunning, status, requestQueue,
                    queueShut, jobsShutdown >>
    /\ serve.pc = "none" <=> serve'.pc = "none"
    /\ isRunning /\ ~queueShut /\ ServeAlive => ServeAlive'
    /\ \A w \in Worker : /\ worker[w].pc = "none" <=> worker'[w].pc = "none"
                         /\ ~jobsShutdown /\ WorkerAlive(w) => WorkerAlive(w)'
    /\ NoThreads => jobs' = jobs

LEMMA ThreadsKeepLifecycle ==
    ASSUME GwInv, ThreadsGoOn
    PROVE  Exclusive' /\ Lifecycle'
<1>1. Exclusive'
  BY DEF GwInv, ThreadsGoOn, Exclusive
<1>2. (NoThreads => NoThreads') /\ (NoWorkers => NoWorkers')
  BY DEF ThreadsGoOn, NoThreads, NoWorkers
<1>3. (Up => Up') /\ (Down => Down')
  BY <1>2 DEF ThreadsGoOn, Up, Down
<1>4. jobs = << >> /\ NoThreads => jobs' = << >>
  BY DEF ThreadsGoOn
<1>5. Lifecycle'
  BY <1>2, <1>3, <1>4 DEF GwInv, ThreadsGoOn, Lifecycle, NoThreads, Closing
<1> QED
  BY <1>1, <1>5

LEMMA ServeGoesOn ==
    ASSUME GwInv, ServeStep
    PROVE  ThreadsGoOn
<1> USE DEF GwInv, GwTypeOK, ThreadsGoOn, ServeUnchanged, ServeGoes, ServeAlive, WorkerAlive,
            adminVars, stateVars, jobVars
<1>1. serve.pc \notin {"none", "exited"}
  BY DEF ServeStep, ServeTest, ReceiveGone, ReceiveAborted, Route, Health, Enqueue, Notify,
         ServeReply, Receive, ReceivePart
<1>2. ~NoThreads
  BY <1>1 DEF NoThreads
<1>3. CASE ServeTest \/ ReceiveGone \/ ReceiveAborted \/ Route \/ Health
  BY <1>1, <1>2, <1>3 DEF ServeTest, ReceiveGone, ReceiveAborted, Route, Health
<1>4. CASE Enqueue \/ ServeReply \/ \E r \in Request : Receive(r) \/ ReceivePart(r)
  <2>1. serve'.pc \notin {"none", "exited"}
    <3>1. CASE Enqueue \/ ServeReply
      BY <3>1 DEF Enqueue, ServeReply
    <3>2. CASE \E r \in Request : Receive(r) \/ ReceivePart(r)
      <4>1. PICK r \in Request : Receive(r) \/ ReceivePart(r)
        BY <3>2
      <4>2. CASE Receive(r)
        BY <4>2 DEF Receive
      <4>3. CASE ReceivePart(r)
        BY <4>3 DEF ReceivePart
      <4> QED
        BY <4>1, <4>2, <4>3
    <3> QED
      BY <1>4, <3>1, <3>2
  <2>2. ServeUnchanged /\ worker' = worker /\ jobsShutdown' = jobsShutdown
    BY <1>4 DEF Enqueue, ServeReply, Receive, ReceivePart
  <2> QED
    BY <1>1, <1>2, <2>1, <2>2
<1>5. CASE Notify
  BY <1>1, <1>2, <1>5 DEF Notify, Woken
<1> QED
  BY <1>3, <1>4, <1>5 DEF ServeStep

LEMMA WorkerGoesOn ==
    ASSUME GwInv, NEW w \in Worker, WorkerStep(w)
    PROVE  ThreadsGoOn
<1> USE DEF GwInv, GwTypeOK, ThreadsGoOn, ServeUnchanged, WorkerGoes, ServeAlive, WorkerAlive,
            adminVars, stateVars, jobVars
<1>1. worker[w].pc \notin {"none", "exited"}
  BY DEF WorkerStep, Check, BodyBroken, HandleRequest, WorkerReply
<1>2. ~NoThreads
  BY <1>1 DEF NoThreads, NoWorkers
<1>3. CASE Check(w)
  <2>1. ServeUnchanged /\ UNCHANGED << jobsShutdown, serve >>
    BY <1>3 DEF Check
  <2>2. PICK pc \in WorkerPc, r \in Request \cup {NoRequest} :
           /\ worker' = [worker EXCEPT ![w] = [pc |-> pc, req |-> r]]
           /\ pc # "none" /\ (~jobsShutdown => pc # "exited")
    <3>1. CASE jobsShutdown
      BY <1>3, <3>1 DEF Check, WorkerPc
    <3>2. CASE ~jobsShutdown /\ jobs # << >>
      <4>1. Head(jobs) \in Request
        BY <3>2, EmptySeq, HeadTailProperties
      <4> QED
        BY <1>3, <3>2, <4>1 DEF Check, WorkerPc
    <3>3. CASE ~jobsShutdown /\ jobs = << >>
      BY <1>3, <3>3 DEF Check, WorkerPc
    <3> QED
      BY <3>1, <3>2, <3>3
  <2> QED
    BY <1>1, <1>2, <2>1, <2>2
<1>4. CASE BodyBroken(w) \/ HandleRequest(w) \/ WorkerReply(w)
  <2>1. PICK pc \in {"check", "reply"}, r \in Request \cup {NoRequest} :
           worker' = [worker EXCEPT ![w] = [pc |-> pc, req |-> r]]
    BY <1>4 DEF BodyBroken, HandleRequest, WorkerReply
  <2>2. ServeUnchanged /\ UNCHANGED << jobsShutdown, serve >>
    BY <1>4 DEF BodyBroken, HandleRequest, WorkerReply
  <2>3. worker'[w].pc \notin {"none", "exited"} /\ \A v \in Worker \ {w} : worker'[v] = worker[v]
    BY <2>1
  <2> QED
    BY <1>1, <1>2, <2>2, <2>3
<1> QED
  BY <1>3, <1>4 DEF WorkerStep

LEMMA ArriveGoesOn ==
    ASSUME GwInv, NEW r \in Request, Arrive(r)
    PROVE  ThreadsGoOn
  BY DEF Arrive, ThreadsGoOn, ServeUnchanged, ServeAlive, WorkerAlive, adminVars, stateVars, jobVars

-----------------------------------------------------------------------------
(* The requests *)

\* The places of requests are unchanged, and none of the requests in them
\* changes what it is.
LEMMA SameOwners ==
    ASSUME Owners, RepliesCounted, GwTypeOK,
           UNCHANGED << jobs, serve, worker, replies >>,
           \A r \in Request : \/ request'[r] = request[r]
                             \/ /\ request[r] \in {"unsent", "pending"}
                                /\ request'[r] \in {"pending", "dropped"}
    PROVE  Owners' /\ RepliesCounted'
<1>1. /\ serve.req \in Request \cup {NoRequest} /\ serve.pinned \in Request \cup {NoRequest}
      /\ \A w \in Worker : worker[w].req \in Request \cup {NoRequest}
      /\ \A i \in 1..Len(jobs) : jobs[i] \in Request
  BY DEF GwTypeOK
<1>2. ServeHolds'
  BY <1>1 DEF Owners, ServeHolds
<1>3. WorkersHold'
  BY <1>1 DEF Owners, WorkersHold
<1>4. JobsHold'
  BY <1>1 DEF Owners, JobsHold
<1>5. RepliesCounted'
  BY DEF RepliesCounted
<1> QED
  BY <1>2, <1>3, <1>4, <1>5 DEF Owners

LEMMA AdminOwners ==
    ASSUME GwInv, NEW a \in Admin, CallStart(a) \/ CallStop(a) \/ StartStep(a) \/ StopStep(a)
    PROVE  Owners' /\ RepliesCounted'
<1>1. Owners /\ RepliesCounted /\ GwTypeOK /\ ServeHolds /\ WorkersHold /\ JobsHold
  BY DEF GwInv, Owners
<1>2. /\ \A i \in 1..Len(jobs) : jobs[i] # NoRequest
      /\ request \in [Request -> {"unsent", "pending", "pinned", "taken", "answered", "dropped"}]
  BY GatewayAssumption DEF GwInv, GwTypeOK
<1>3. CASE \/ CallStart(a) \/ CallStop(a) \/ EnterStart(a) \/ OpenQueue(a) \/ OpenFails(a)
           \/ MarkStopping(a) \/ SignalWorkers(a)
  BY <1>1, <1>3, SameOwners DEF CallStart, CallStop, EnterStart, OpenQueue, OpenFails,
     MarkStopping, SignalWorkers, httpVars, jobVars
<1>4. CASE LaunchServe(a)
  BY <1>1, <1>4 DEF LaunchServe, NoServe, Owners, ServeHolds, WorkersHold, JobsHold,
     RepliesCounted, httpVars
<1>5. CASE LaunchWorkers(a) \/ JoinWorkers(a)
  <2>1. /\ UNCHANGED << jobs, serve, request, replies >>
        /\ \A w \in Worker : worker'[w].req = NoRequest /\ worker'[w].pc \in {"none", "check"}
    BY <1>5 DEF LaunchWorkers, JoinWorkers, NoWorker, jobVars, httpVars
  <2>2. ServeHolds' /\ WorkersHold' /\ JobsHold'
    BY <1>1, <1>2, <2>1 DEF ServeHolds, WorkersHold, JobsHold
  <2> QED
    BY <1>1, <2>1, <2>2 DEF Owners, RepliesCounted
<1>6. CASE ShutQueue(a)
  <2>1. \A r \in Request : request'[r] = IF request[r] = "pending" THEN "dropped" ELSE request[r]
    BY <1>6 DEF ShutQueue, Drop
  <2> QED
    BY <1>1, <1>6, <2>1, SameOwners DEF ShutQueue, jobVars
<1>7. CASE WakeWorkers(a)
  <2>1. /\ UNCHANGED << jobs, serve, request, replies >>
        /\ \A w \in Worker : /\ worker'[w].req = worker[w].req
                             /\ \/ worker'[w].pc = worker[w].pc
                                \/ worker[w].pc = "asleep" /\ worker'[w].pc = "check"
    BY <1>7 DEF WakeWorkers, Woken, GwInv, GwTypeOK, jobVars, httpVars
  <2>2. ServeHolds' /\ WorkersHold' /\ JobsHold'
    BY <1>1, <2>1 DEF ServeHolds, WorkersHold, JobsHold
  <2> QED
    BY <1>1, <2>1, <2>2 DEF Owners, RepliesCounted
<1>8. CASE JoinServe(a)
  <2>1. UNCHANGED << jobs, worker, request, replies >> /\ serve' = NoServe
    BY <1>8 DEF JoinServe, jobVars, httpVars
  <2>2. ServeHolds' /\ WorkersHold' /\ JobsHold'
    BY <1>1, <1>2, <2>1 DEF ServeHolds, WorkersHold, JobsHold, NoServe
  <2> QED
    BY <1>1, <2>1, <2>2 DEF Owners, RepliesCounted
<1>9. CASE ClearJobs(a)
  <2>1. UNCHANGED << serve, worker, request, replies >> /\ jobs' = << >>
    BY <1>9 DEF ClearJobs, httpVars
  <2>2. ServeHolds' /\ WorkersHold' /\ JobsHold'
    BY <1>1, <2>1 DEF ServeHolds, WorkersHold, JobsHold
  <2> QED
    BY <1>1, <2>1, <2>2 DEF Owners, RepliesCounted
<1>10. CASE CloseQueue(a)
  <2>1. /\ UNCHANGED << jobs, serve, worker, replies >>
        /\ \A r \in Request : request'[r] = IF r \in Outstanding THEN "dropped" ELSE request[r]
    BY <1>10 DEF CloseQueue, Drop, jobVars
  <2>2. admin[a] = "close" /\ Lifecycle
    BY <1>10 DEF CloseQueue, GwInv
  <2>3. serve.pc = "none" /\ NoWorkers /\ jobs = << >>
    BY <2>2 DEF Lifecycle
  <2>4. /\ serve.req = NoRequest /\ serve.pinned = NoRequest
        /\ \A w \in Worker : worker[w].req = NoRequest
    BY <1>1, <2>3 DEF ServeHolds, WorkersHold, NoWorkers
  <2>5. ServeHolds' /\ WorkersHold' /\ JobsHold'
    BY <1>1, <2>1, <2>3, <2>4 DEF ServeHolds, WorkersHold, JobsHold
  <2>6. RepliesCounted'
    BY <1>1, <1>2, <2>1 DEF RepliesCounted, Outstanding
  <2> QED
    BY <2>5, <2>6 DEF Owners
<1> QED
  BY <1>3, <1>4, <1>5, <1>6, <1>7, <1>8, <1>9, <1>10 DEF StartStep, StopStep

\* Only a request that is "taken" gets a response, and with it its mark.
LEMMA SendCounts ==
    ASSUME GwTypeOK, RepliesCounted, NEW r \in Request, request[r] = "taken", Send(r)
    PROVE  /\ RepliesCounted'
           /\ \A q \in Request \ {r} : request'[q] = request[q]
<1>1. /\ request \in [Request -> {"unsent", "pending", "pinned", "taken", "answered", "dropped"}]
      /\ replies \in [Request -> Nat] /\ replies[r] = 0
  BY DEF GwTypeOK, RepliesCounted
<1>2. CASE /\ request' = [request EXCEPT ![r] = "answered"]
           /\ replies' = [replies EXCEPT ![r] = @ + 1]
  BY <1>1, <1>2 DEF RepliesCounted
<1>3. CASE request' = [request EXCEPT ![r] = "dropped"] /\ replies' = replies
  BY <1>1, <1>3 DEF RepliesCounted
<1> QED
  BY <1>2, <1>3 DEF Send

\* The serve thread lets go of its request, which nobody else refers to.
LEMMA ServeLetsGo ==
    ASSUME GwInv, UNCHANGED << jobs, worker >>,
           serve' = [serve EXCEPT !.pc = "loop", !.req = NoRequest],
           serve.req \in Request,
           \A q \in Request \ {serve.req} : request'[q] = request[q]
    PROVE  Owners'
<1>1. /\ serve.req \in Request \cup {NoRequest} /\ serve.pinned \in Request \cup {NoRequest}
      /\ \A w \in Worker : worker[w].req \in Request \cup {NoRequest}
      /\ \A i \in 1..Len(jobs) : jobs[i] \in Request
  BY DEF GwInv, GwTypeOK
<1>2. ServeHolds /\ WorkersHold /\ JobsHold
  BY DEF GwInv, Owners
<1>3. /\ serve'.pc = "loop" /\ serve'.req = NoRequest /\ serve'.pinned = serve.pinned
      /\ serve.pinned # serve.req
  BY <1>1, <1>2, GatewayAssumption DEF GwInv, GwTypeOK, ServeHolds
<1>4. ServeHolds'
  BY <1>1, <1>2, <1>3 DEF ServeHolds
<1>5. WorkersHold'
  BY <1>1, <1>2 DEF WorkersHold, ServeHolds
<1>6. JobsHold'
  BY <1>1, <1>2, <1>3, GatewayAssumption DEF JobsHold
<1> QED
  BY <1>4, <1>5, <1>6 DEF Owners

LEMMA ServeOwners ==
    ASSUME GwInv, ServeStep
    PROVE  Owners' /\ RepliesCounted'
<1>1. Owners /\ RepliesCounted /\ GwTypeOK /\ ServeHolds /\ WorkersHold /\ JobsHold
  BY DEF GwInv, Owners
<1>2. /\ serve \in [pc : ServePc, req : Request \cup {NoRequest}, pinned : Request \cup {NoRequest}]
      /\ \A w \in Worker : worker[w].req \in Request \cup {NoRequest}
      /\ \A i \in 1..Len(jobs) : jobs[i] \in Request
      /\ request \in [Request -> {"unsent", "pending", "pinned", "taken", "answered", "dropped"}]
      /\ NoRequest \notin Request
  BY GatewayAssumption DEF GwInv, GwTypeOK
<1>3. CASE ServeTest \/ ReceiveAborted \/ Health
  <2>1. /\ UNCHANGED << jobs, worker, request, replies >>
        /\ serve'.req = serve.req /\ serve'.pinned = serve.pinned
        /\ \/ serve.pc \in {"loop", "receive"} /\ serve'.pc \in {"receive", "exited"}
           \/ serve.pc = "health" /\ serve'.pc = "reply"
    BY <1>1, <1>2, <1>3 DEF ServeTest, ReceiveAborted, Health, ServeGoes, ServeHolds, jobVars
  <2>2. ServeHolds' /\ WorkersHold' /\ JobsHold'
    BY <1>1, <2>1 DEF ServeHolds, WorkersHold, JobsHold
  <2> QED
    BY <1>1, <2>1, <2>2 DEF Owners, RepliesCounted
<1>4. CASE Route
  <2>1. /\ UNCHANGED << jobs, worker, request, replies >> /\ serve.pc = "route"
        /\ \E pc \in {"health", "enqueue", "reply"} :
              serve' = [serve EXCEPT !.pc = pc, !.req = serve.req]
    BY <1>4 DEF Route, ServeGoes, jobVars
  <2>2. /\ serve'.req = serve.req /\ serve'.pinned = serve.pinned
        /\ serve'.pc \in {"health", "enqueue", "reply"}
    BY <1>2, <2>1
  <2>3. ServeHolds' /\ WorkersHold' /\ JobsHold'
    BY <1>1, <2>1, <2>2 DEF ServeHolds, WorkersHold, JobsHold
  <2> QED
    BY <1>1, <2>1, <2>3 DEF Owners, RepliesCounted
<1>5. CASE ReceiveGone
  <2>1. /\ UNCHANGED << jobs, worker, replies >> /\ serve.pc = "receive"
        /\ serve.pinned \in Request /\ request[serve.pinned] = "pinned"
        /\ serve'.pc = "loop" /\ serve'.req = serve.req /\ serve'.pinned = NoRequest
    BY <1>1, <1>2, <1>5 DEF ReceiveGone, ServeHolds, jobVars
  <2>2. \A r \in Request : request'[r] = IF r = serve.pinned THEN "dropped" ELSE request[r]
    BY <1>5 DEF ReceiveGone, Drop
  <2>3. ServeHolds'
    BY <1>1, <2>1, <2>2 DEF ServeHolds
  <2>4. WorkersHold'
    BY <1>1, <1>2, <2>1, <2>2 DEF WorkersHold
  <2>5. JobsHold'
    BY <1>1, <1>2, <2>1, <2>2 DEF JobsHold
  <2>6. RepliesCounted'
    BY <1>1, <2>1, <2>2 DEF RepliesCounted
  <2> QED
    BY <2>3, <2>4, <2>5, <2>6 DEF Owners
<1>6. ASSUME NEW r \in Request, Receive(r) \/ ReceivePart(r)
      PROVE  Owners' /\ RepliesCounted'
  <2>1. /\ UNCHANGED << jobs, worker, replies >> /\ serve.pc = "receive" /\ serve.req = NoRequest
        /\ request[r] \in {"pending", "pinned"}
        /\ request[r] = "pinned" => r = serve.pinned
        /\ serve.pinned # NoRequest => serve.pinned = r
    BY <1>1, <1>2, <1>6 DEF Receive, ReceivePart, Receivable, ServeHolds, jobVars
  <2>2. \A w \in Worker : worker[w].req # r
    BY <1>1, <1>2, <2>1 DEF WorkersHold
  <2>3. \A i \in 1..Len(jobs) : jobs[i] # r
    BY <1>1, <2>1 DEF JobsHold
  <2>4. CASE Receive(r)
    <3>1. /\ serve' = [pc |-> "route", req |-> r, pinned |-> NoRequest]
          /\ request' = [request EXCEPT ![r] = "taken"]
      BY <2>4 DEF Receive
    <3>2. serve'.pc = "route" /\ serve'.req = r /\ serve'.pinned = NoRequest
      BY <3>1
    <3>3. request'[r] = "taken" /\ \A q \in Request \ {r} : request'[q] = request[q]
      BY <1>2, <3>1
    <3>4. ServeHolds'
      BY <1>2, <2>1, <2>2, <3>2, <3>3 DEF ServeHolds
    <3>5. WorkersHold'
      BY <1>1, <1>2, <2>1, <2>2, <3>3 DEF WorkersHold
    <3>6. JobsHold'
      BY <1>1, <1>2, <2>1, <2>3, <3>2, <3>3 DEF JobsHold
    <3>7. RepliesCounted'
      BY <1>1, <2>1, <3>3 DEF RepliesCounted
    <3> QED
      BY <3>4, <3>5, <3>6, <3>7 DEF Owners
  <2>5. CASE ReceivePart(r)
    <3>1. /\ serve' = [serve EXCEPT !.pc = "loop", !.pinned = r]
          /\ request' = [request EXCEPT ![r] = "pinned"]
      BY <2>5 DEF ReceivePart
    <3>2. serve'.pc = "loop" /\ serve'.req = NoRequest /\ serve'.pinned = r
      BY <1>2, <2>1, <3>1
    <3>3. request'[r] = "pinned" /\ \A q \in Request \ {r} : request'[q] = request[q]
      BY <1>2, <3>1
    <3>4. ServeHolds'
      BY <1>2, <3>2, <3>3 DEF ServeHolds
    <3>5. WorkersHold'
      BY <1>1, <1>2, <2>1, <2>2, <3>3 DEF WorkersHold
    <3>6. JobsHold'
      BY <1>1, <1>2, <2>1, <2>3, <3>2, <3>3 DEF JobsHold
    <3>7. RepliesCounted'
      BY <1>1, <2>1, <3>3 DEF RepliesCounted
    <3> QED
      BY <3>4, <3>5, <3>6, <3>7 DEF Owners
  <2> QED
    BY <1>6, <2>4, <2>5
<1>7. CASE Enqueue
  <2>1. /\ UNCHANGED << worker, request, replies >> /\ serve.pc = "enqueue"
        /\ serve.req \in Request /\ serve.pinned = NoRequest
    BY <1>1, <1>2, <1>7 DEF Enqueue, ServeHolds
  <2>2. CASE HasRoom
    <3>1. /\ jobs' = Append(jobs, serve.req) /\ serve' = [serve EXCEPT !.pc = "notify", !.req = NoRequest]
          /\ jobs \in Seq(Request)
      BY <1>7, <2>2 DEF Enqueue, ServeGoes, GwInv, GwTypeOK
    <3>2. serve'.pc = "notify" /\ serve'.req = NoRequest /\ serve'.pinned = NoRequest
      BY <1>2, <2>1, <3>1
    <3>3. /\ Len(jobs') = Len(jobs) + 1 /\ jobs'[Len(jobs) + 1] = serve.req /\ Len(jobs) \in Nat
          /\ \A i \in 1..Len(jobs) : jobs'[i] = jobs[i]
      BY <2>1, <3>1, AppendProperties, LenProperties
    <3>4. ServeHolds'
      BY <3>2 DEF ServeHolds
    <3>5. WorkersHold'
      BY <1>1, <2>1 DEF WorkersHold
    <3>6. \A i \in 1..Len(jobs') : i \in 1..Len(jobs) \/ i = Len(jobs) + 1
      BY <3>3
    <3>7. /\ \A i \in 1..Len(jobs') : jobs'[i] \in Request /\ request[jobs'[i]] = "taken"
          /\ \A i \in 1..Len(jobs') : \A w \in Worker : worker[w].req # jobs'[i]
      BY <1>1, <1>2, <2>1, <3>3, <3>6 DEF ServeHolds, JobsHold
    <3>8. \A i, j \in 1..Len(jobs') : jobs'[i] = jobs'[j] => i = j
      BY <1>1, <3>3, <3>6 DEF JobsHold
    <3>9. JobsHold'
      BY <1>2, <2>1, <3>2, <3>7, <3>8 DEF JobsHold
    <3> QED
      BY <1>1, <2>1, <3>4, <3>5, <3>9 DEF Owners, RepliesCounted
  <2>3. CASE ~HasRoom
    <3>1. jobs' = jobs /\ serve' = [serve EXCEPT !.pc = "reply", !.req = serve.req]
      BY <1>7, <2>3 DEF Enqueue, ServeGoes
    <3>2. serve'.pc = "reply" /\ serve'.req = serve.req /\ serve'.pinned = serve.pinned
      BY <1>2, <3>1
    <3>3. ServeHolds' /\ WorkersHold' /\ JobsHold'
      BY <1>1, <2>1, <3>1, <3>2 DEF ServeHolds, WorkersHold, JobsHold
    <3> QED
      BY <1>1, <2>1, <3>3 DEF Owners, RepliesCounted
  <2> QED
    BY <2>2, <2>3
<1>8. CASE Notify
  <2>1. /\ UNCHANGED << jobs, request, replies >> /\ serve.pc = "notify"
        /\ serve' = [serve EXCEPT !.pc = "loop", !.req = NoRequest]
    BY <1>8 DEF Notify, ServeGoes, jobVars
  <2>2. serve'.pc = "loop" /\ serve'.req = serve.req /\ serve'.pinned = serve.pinned
    BY <1>1, <1>2, <2>1 DEF ServeHolds
  <2>3. \A w \in Worker : /\ worker'[w].req = worker[w].req
                          /\ \/ worker'[w].pc = worker[w].pc
                             \/ worker[w].pc = "asleep" /\ worker'[w].pc = "check"
    <3>1. CASE worker' = worker
      BY <3>1
    <3>2. CASE \E v \in Worker : worker' = Woken({v})
      BY <3>2 DEF Woken, GwInv, GwTypeOK
    <3> QED
      BY <1>8, <3>1, <3>2 DEF Notify
  <2>4. ServeHolds' /\ WorkersHold' /\ JobsHold'
    BY <1>1, <2>1, <2>2, <2>3 DEF ServeHolds, WorkersHold, JobsHold
  <2> QED
    BY <1>1, <2>1, <2>4 DEF Owners, RepliesCounted
<1>9. CASE ServeReply
  <2>1. /\ serve.req \in Request /\ request[serve.req] = "taken" /\ Send(serve.req)
        /\ serve' = [serve EXCEPT !.pc = "loop", !.req = NoRequest]
        /\ UNCHANGED << jobs, worker >>
    BY <1>1, <1>2, <1>9 DEF ServeReply, ServeGoes, ServeHolds, jobVars
  <2> QED
    BY <1>1, <2>1, SendCounts, ServeLetsGo
<1> QED
  BY <1>3, <1>4, <1>5, <1>6, <1>7, <1>8, <1>9 DEF ServeStep

\* A worker lets go of its request, answered, dropped or not.
LEMMA WorkerLetsGo ==
    ASSUME GwInv, UNCHANGED << jobs, serve >>, NEW w \in Worker, worker[w].req \in Request,
           worker' = [worker EXCEPT ![w] = [pc |-> "check", req |-> NoRequest]],
           \A q \in Request \ {worker[w].req} : request'[q] = request[q]
    PROVE  Owners'
<1>1. /\ serve.req \in Request \cup {NoRequest} /\ serve.pinned \in Request \cup {NoRequest}
      /\ \A v \in Worker : worker[v].req \in Request \cup {NoRequest}
      /\ \A i \in 1..Len(jobs) : jobs[i] \in Request
      /\ NoRequest \notin Request
  BY GatewayAssumption DEF GwInv, GwTypeOK
<1>2. ServeHolds /\ WorkersHold /\ JobsHold
  BY DEF GwInv, Owners
<1>3. /\ worker'[w].req = NoRequest /\ worker'[w].pc = "check"
      /\ \A v \in Worker \ {w} : worker'[v] = worker[v]
  BY DEF GwInv, GwTypeOK
<1>4. ServeHolds'
  BY <1>1, <1>2, <1>3 DEF ServeHolds, WorkersHold
<1>5. WorkersHold'
  BY <1>1, <1>2, <1>3 DEF WorkersHold
<1>6. JobsHold'
  BY <1>1, <1>2, <1>3 DEF JobsHold
<1> QED
  BY <1>4, <1>5, <1>6 DEF Owners

LEMMA WorkerOwners ==
    ASSUME GwInv, NEW w \in Worker, WorkerStep(w)
    PROVE  Owners' /\ RepliesCounted'
<1>1. Owners /\ RepliesCounted /\ GwTypeOK /\ ServeHolds /\ WorkersHold /\ JobsHold
  BY DEF GwInv, Owners
<1>2. /\ serve.req \in Request \cup {NoRequest} /\ serve.pinned \in Request \cup {NoRequest}
      /\ worker \in [Worker -> [pc : WorkerPc, req : Request \cup {NoRequest}]]
      /\ jobs \in Seq(Request) /\ \A i \in 1..Len(jobs) : jobs[i] \in Request
      /\ request \in [Request -> {"unsent", "pending", "pinned", "taken", "answered", "dropped"}]
      /\ NoRequest \notin Request
  BY GatewayAssumption DEF GwInv, GwTypeOK
<1>3. CASE Check(w)
  <2>1. worker[w].pc = "check" /\ worker[w].req = NoRequest
        /\ UNCHANGED << serve, request, replies >>
    BY <1>1, <1>3 DEF Check, WorkersHold
  <2>2. CASE /\ jobs # << >> /\ jobs' = Tail(jobs)
             /\ worker' = [worker EXCEPT ![w] = [pc |-> "busy", req |-> Head(jobs)]]
    <3> DEFINE r == Head(jobs)
    <3>1. /\ r \in Request /\ r = jobs[1] /\ 1 \in 1..Len(jobs)
          /\ Len(jobs') = Len(jobs) - 1 /\ Len(jobs) \in Nat
          /\ \A i \in 1..Len(jobs') : jobs'[i] = jobs[i + 1] /\ i + 1 \in 1..Len(jobs) /\ i + 1 # 1
      <4>1. Len(jobs) \in Nat \ {0}
        BY <1>2, <2>2, EmptySeq
      <4>2. r \in Request /\ Len(jobs') = Len(jobs) - 1 /\ \A i \in 1..Len(jobs') : jobs'[i] = jobs[i + 1]
        BY <1>2, <2>2, HeadTailProperties
      <4>3. r = jobs[1]
        BY <1>2, <2>2
      <4> QED
        BY <4>1, <4>2, <4>3
    <3> HIDE DEF r
    <3>2. /\ worker'[w].req = r /\ worker'[w].pc = "busy"
          /\ \A v \in Worker \ {w} : worker'[v] = worker[v]
      BY <1>2, <2>2 DEF r
    <3>3. request[r] = "taken" /\ r # serve.req /\ \A v \in Worker : worker[v].req # r
      BY <1>1, <3>1 DEF JobsHold
    <3>4. ServeHolds'
      BY <1>1, <2>1, <3>2, <3>3 DEF ServeHolds
    <3>5. WorkersHold'
      BY <1>1, <1>2, <2>1, <3>1, <3>2, <3>3 DEF WorkersHold
    <3>6. \A i \in 1..Len(jobs') : jobs'[i] # r /\ \A j \in 1..Len(jobs') : jobs'[i] = jobs'[j] => i = j
      <4>1. \A i, j \in 1..Len(jobs) : jobs[i] = jobs[j] => i = j
        BY <1>1 DEF JobsHold
      <4>2. \A i \in 1..Len(jobs') : i \in Int
        OBVIOUS
      <4> QED
        BY <3>1, <4>1, <4>2
    <3>7. \A i \in 1..Len(jobs') :
            /\ request[jobs'[i]] = "taken" /\ jobs'[i] # serve.req
            /\ \A v \in Worker : worker[v].req # jobs'[i]
      BY <1>1, <3>1 DEF JobsHold
    <3>8. \A i \in 1..Len(jobs') : \A v \in Worker : worker'[v].req # jobs'[i]
      BY <3>2, <3>6, <3>7
    <3>9. JobsHold'
      <4> SUFFICES ASSUME NEW i \in (1..Len(jobs'))
                   PROVE  /\ request'[jobs'[i]] = "taken" /\ jobs'[i] # serve'.req
                          /\ \A v \in Worker : worker'[v].req # jobs'[i]
                          /\ \A j \in 1..Len(jobs') : jobs'[i] = jobs'[j] => i = j
        BY DEF JobsHold
      <4> QED
        BY <2>1, <3>6, <3>7, <3>8
    <3> QED
      BY <1>1, <2>1, <3>4, <3>5, <3>9 DEF Owners, RepliesCounted
  <2>3. CASE jobs' = jobs /\ \E pc \in {"exited", "asleep"} :
                worker' = [worker EXCEPT ![w] = [pc |-> pc, req |-> NoRequest]]
    <3>1. /\ worker'[w].req = worker[w].req /\ worker'[w].pc \in {"exited", "asleep"}
          /\ \A v \in Worker \ {w} : worker'[v] = worker[v]
      BY <1>2, <2>1, <2>3
    <3>2. ServeHolds' /\ WorkersHold' /\ JobsHold'
      BY <1>1, <2>1, <2>3, <3>1 DEF ServeHolds, WorkersHold, JobsHold
    <3> QED
      BY <1>1, <2>1, <3>2 DEF Owners, RepliesCounted
  <2> QED
    BY <1>3, <2>2, <2>3 DEF Check, WorkerGoes
<1>4. CASE BodyBroken(w)
  <2>1. /\ worker[w].req \in Request /\ request[worker[w].req] = "taken"
        /\ worker' = [worker EXCEPT ![w] = [pc |-> "check", req |-> NoRequest]]
        /\ UNCHANGED << jobs, serve, replies >>
    BY <1>1, <1>2, <1>4 DEF BodyBroken, WorkerGoes, WorkersHold, jobVars
  <2>2. \A r \in Request : request'[r] = IF r = worker[w].req THEN "dropped" ELSE request[r]
    BY <1>4 DEF BodyBroken, Drop
  <2>3. RepliesCounted'
    BY <1>1, <2>1, <2>2 DEF RepliesCounted
  <2> QED
    BY <2>1, <2>2, <2>3, WorkerLetsGo
<1>5. CASE HandleRequest(w)
  <2>1. /\ UNCHANGED << jobs, serve, request, replies >> /\ worker[w].pc = "busy"
        /\ worker' = [worker EXCEPT ![w] = [pc |-> "reply", req |-> worker[w].req]]
    BY <1>5 DEF HandleRequest, WorkerGoes, jobVars
  <2>2. \A v \in Worker : /\ worker'[v].req = worker[v].req
                          /\ \/ worker'[v].pc = worker[v].pc
                             \/ worker[v].pc = "busy" /\ worker'[v].pc = "reply"
    BY <1>2, <2>1
  <2>3. ServeHolds' /\ WorkersHold' /\ JobsHold'
    BY <1>1, <2>1, <2>2 DEF ServeHolds, WorkersHold, JobsHold
  <2> QED
    BY <1>1, <2>1, <2>3 DEF Owners, RepliesCounted
<1>6. CASE WorkerReply(w)
  <2>1. /\ worker[w].req \in Request /\ request[worker[w].req] = "taken" /\ Send(worker[w].req)
        /\ worker' = [worker EXCEPT ![w] = [pc |-> "check", req |-> NoRequest]]
        /\ UNCHANGED << jobs, serve >>
    BY <1>1, <1>2, <1>6 DEF WorkerReply, WorkerGoes, WorkersHold, jobVars
  <2> QED
    BY <1>1, <2>1, SendCounts, WorkerLetsGo
<1> QED
  BY <1>3, <1>4, <1>5, <1>6 DEF WorkerStep

LEMMA ArriveOwners ==
    ASSUME GwInv, NEW r \in Request, Arrive(r)
    PROVE  Owners' /\ RepliesCounted'
<1>1. \A q \in Request : \/ request'[q] = request[q]
                        \/ /\ request[q] = "unsent"
                           /\ request'[q] = "pending"
  BY DEF Arrive, GwInv, GwTypeOK
<1> QED
  BY <1>1, SameOwners DEF Arrive, GwInv, jobVars

-----------------------------------------------------------------------------
(* The theorems *)

LEMMA GwStart == GwInit => GwInv
<1> SUFFICES ASSUME GwInit PROVE GwInv
  OBVIOUS
<1>1. GwTypeOK
  <2>1. 0 \in 0..MaxStart /\ 0 \in 0..0
    BY GatewayAssumption
  <2>2. starts \in 0..MaxStart /\ requestQueue \in 0..starts /\ jobs \in Seq(Request) /\ Len(jobs) <= MaxDepth
    BY <2>1, EmptyQueueTyped DEF GwInit
  <2>3. /\ request \in [Request -> {"unsent", "pending", "pinned", "taken", "answered", "dropped"}]
        /\ replies \in [Request -> Nat]
    BY DEF GwInit
  <2>4. enabled \in BOOLEAN /\ isRunning = FALSE /\ queueShut = FALSE /\ jobsShutdown = FALSE
    BY DEF GwInit
  <2>5. /\ admin \in [Admin -> {"idle"} \cup StartPc \cup StopPc]
        /\ lifecycleMutex = NoAdmin /\ mutex = NoAdmin
        /\ status \in {"Configured", "Disabled"}
        /\ serve = NoServe /\ worker = [w \in Worker |-> NoWorker]
    BY DEF GwInit
  <2> QED
    BY <2>2, <2>3, <2>4, <2>5, NoThreadIsTyped DEF GwTypeOK
<1>2. Exclusive
  BY GatewayAssumption DEF GwInit, Exclusive, Opening
<1>3. Down
  BY DEF GwInit, Down, NoThreads, NoWorkers, NoServe, NoWorker
<1>4. Lifecycle
  BY <1>3 DEF GwInit, Lifecycle, Closing, StopPc
<1>5. Owners /\ RepliesCounted
  BY DEF GwInit, Owners, ServeHolds, WorkersHold, JobsHold, RepliesCounted, NoServe, NoWorker
<1> QED
  BY <1>1, <1>2, <1>4, <1>5 DEF GwInv

\* Each thread's steps preserve the invariant, and only LaunchServe makes the
\* gateway run, when every thread of an earlier run was joined.
LEMMA GwStep ==
    ASSUME GwInv, [GwNext]_gwVars
    PROVE  GwInv' /\ (~isRunning /\ isRunning' => NoThreads)
<1>1. CASE \E a \in Admin : CallStart(a) \/ CallStop(a) \/ StartStep(a) \/ StopStep(a)
  <2>1. PICK a \in Admin : CallStart(a) \/ CallStop(a) \/ StartStep(a) \/ StopStep(a)
    BY <1>1
  <2>2. GwInv'
    BY <2>1, AdminTyped, AdminExclusive, AdminLifecycle, AdminOwners DEF GwInv
  <2>3. ~isRunning /\ isRunning' => LaunchServe(a)
    BY <2>1 DEF CallStart, CallStop, StartStep, EnterStart, OpenQueue, OpenFails, LaunchWorkers,
       StopStep, MarkStopping, ShutQueue, SignalWorkers, WakeWorkers, JoinServe, JoinWorkers,
       ClearJobs, CloseQueue, stateVars
  <2>4. LaunchServe(a) => NoThreads
    BY DEF LaunchServe, GwInv, Lifecycle
  <2> QED
    BY <2>2, <2>3, <2>4
<1>2. CASE \E r \in Request : Arrive(r)
  <2>1. GwTypeOK' /\ ThreadsGoOn /\ Owners' /\ RepliesCounted'
    BY <1>2, ArriveTyped, ArriveGoesOn, ArriveOwners DEF GwInv
  <2> QED
    BY <2>1, ThreadsKeepLifecycle DEF GwInv, ThreadsGoOn
<1>3. CASE ServeStep
  <2>1. GwTypeOK' /\ ThreadsGoOn /\ Owners' /\ RepliesCounted'
    BY <1>3, ServeTyped, ServeGoesOn, ServeOwners DEF GwInv
  <2> QED
    BY <2>1, ThreadsKeepLifecycle DEF GwInv, ThreadsGoOn
<1>4. CASE \E w \in Worker : WorkerStep(w)
  <2>1. GwTypeOK' /\ ThreadsGoOn /\ Owners' /\ RepliesCounted'
    BY <1>4, WorkerTyped, WorkerGoesOn, WorkerOwners DEF GwInv
  <2> QED
    BY <2>1, ThreadsKeepLifecycle DEF GwInv, ThreadsGoOn
<1>5. CASE UNCHANGED gwVars
  BY <1>5 DEF gwVars, GwInv, GwTypeOK, Exclusive, Lifecycle, Up, Down, NoThreads, NoWorkers,
     ServeAlive, WorkerAlive, Owners, ServeHolds, WorkersHold, JobsHold, RepliesCounted
<1> QED
  BY <1>1, <1>2, <1>3, <1>4, <1>5 DEF GwNext

LEMMA GwAlways == GwSpec => []GwInv
  BY GwStart, GwStep, PTL DEF GwSpec

\* Every request that serveLoop received has one owner at a time and gets one
\* response at most, and with no Start or Stop under way the reported state is
\* the one the gateway is in.
THEOREM GatewayStaysSound == GwSpec => []GatewayIsSound
<1>1. GwInv => AnsweredAtMostOnce
  <2> SUFFICES ASSUME GwInv PROVE AnsweredAtMostOnce
    OBVIOUS
  <2>1. \A r \in Request : replies[r] <= 1
    BY DEF GwInv, RepliesCounted
  <2>2. ASSUME NEW r \in Referred PROVE request[r] \in {"taken", "pinned"}
    <3>1. r \in ToSet(jobs) => \E i \in 1..Len(jobs) : r = jobs[i]
      BY LenProperties DEF ToSet, GwInv, GwTypeOK
    <3> QED
      BY <2>2, <3>1 DEF Referred, GwInv, Owners, ServeHolds, WorkersHold, JobsHold
  <2> QED
    BY <2>1, <2>2 DEF AnsweredAtMostOnce
<1>2. GwInv => StatusIsTrue
  <2> SUFFICES ASSUME GwInv, lifecycleMutex = NoAdmin PROVE StatusIsTrue
    BY DEF StatusIsTrue
  <2>1. Up \/ Down
    BY GatewayAssumption DEF GwInv, Exclusive, Lifecycle
  <2> QED
    BY <2>1 DEF StatusIsTrue, Up, Down, NoThreads, NoWorkers, ServeAlive, WorkerAlive
<1>3. GwInv => GatewayIsSound
  BY <1>1, <1>2 DEF GatewayIsSound, GwInv
<1> QED
  BY <1>3, GwAlways, PTL

\* Stop closes the handles after it joined the threads, and Start assigns only
\* to threads that were joined.
THEOREM ThreadsAreAlwaysJoined == GwSpec => ThreadsAreJoined
<1>1. GwInv => HandleOutlivesThreads
  <2> SUFFICES ASSUME GwInv, ~NoThreads PROVE requestQueue # 0
    BY DEF HandleOutlivesThreads, NoThreads, NoWorkers
  <2>1. CASE \A a \in Admin : admin[a] \in {"idle", "enterStart", "mark"}
    BY <2>1 DEF GwInv, Lifecycle, Up, Down
  <2>2. CASE \E a \in Admin : admin[a] \notin {"idle", "enterStart", "mark"}
    <3>1. PICK a \in Admin : admin[a] \notin {"idle", "enterStart", "mark"}
      BY <2>2
    <3>2. \/ admin[a] \in {"open", "launchServe", "launchWorkers"}
          \/ admin[a] \in Closing
      BY <3>1 DEF GwInv, GwTypeOK, StartPc, StopPc, Closing
    <3> QED
      BY <3>2 DEF GwInv, Lifecycle, Down
  <2> QED
    BY <2>1, <2>2
<1>2. GwInv /\ [GwNext]_gwVars =>
        [ ~isRunning /\ isRunning' =>
            serve.pc = "none" /\ \A w \in Worker : worker[w].pc = "none" ]_gwVars
  BY GwStep DEF NoThreads, NoWorkers
<1> QED
  BY <1>1, <1>2, GwAlways, PTL DEF GwSpec, ThreadsAreJoined, NoThreadOverwritten
================================================================================
