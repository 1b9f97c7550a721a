----------------------------- MODULE StdioBridge -----------------------------
(***************************************************************************)
(* WorkerSupervisor::sendStdioJsonRpc of MasterControlRuntime.cpp: one     *)
(* JSON-RPC request to a supervised worker over its stdin and stdout       *)
(* pipes, with the lazy MCP initialize handshake in front of the first.    *)
(*                                                                         *)
(* A call copies the worker's pipe handles under mutex_, releases mutex_,  *)
(* queues on the per-instance stdioMutex and uses the copies, while other  *)
(* threads reap or terminate the worker, close its handles and start new   *)
(* ones.  The operating system may give a closed handle's value to the     *)
(* next handle it opens.                                                   *)
(*                                                                         *)
(* A message is << addressee, n >>: n = 0 for the initialize request,      *)
(* whose id contains the instance id, n > 0 for a call's request, whose id *)
(* the gateway never reuses.  A line is a reply tagged with the worker     *)
(* that wrote it, which the code cannot see.  Pipes are sets: a worker may *)
(* answer in any order.  Reading a part of a line, lines that are not JSON *)
(* and notifications have no effect the properties see.                    *)
(***************************************************************************)
EXTENDS Naturals, FiniteSets

CONSTANTS
    Inst,           \* worker instances; an instance id is never reused
    Caller,         \* gateway threads
    NoCaller,       \* a stdioMutex that nobody holds
    Handle,         \* handle values of the process
    PipeSize,       \* messages an unread stdin pipe holds before WriteFile blocks
    MaxRequest      \* bound: last request id a behaviour may use

ASSUME BridgeAssumption ==
    /\ Inst # {}
    /\ Handle # {}
    /\ NoCaller \notin Caller
    /\ PipeSize \in Nat \ {0}
    /\ MaxRequest \in Nat

VARIABLES
    entry,          \* children_: "none" before the spawn, "listed", "erased"
    stdinH,         \* childStdinWrite of a listed instance
    stdoutH,        \* childStdoutRead of a listed instance
    initialized,    \* mcpInitialized
    buffer,         \* stdioReadBuffer: complete lines not yet consumed
    running,        \* instances whose process runs
    toWorker,       \* messages written to a worker's stdin, unread
    inHand,         \* messages a worker has read and not answered
    fromWorker,     \* lines a worker wrote to stdout, unread
    holder,         \* who holds the stdioMutex of an instance
    call,           \* what each caller is doing
    nextRequest     \* bridgeRequestIdCounter_

childVars == << entry, stdinH, stdoutH, initialized, buffer >>
workerVars == << running, toWorker, inHand, fromWorker >>
bridgeVars == << childVars, workerVars, holder, call, nextRequest >>

Message == Inst \X Nat
Line == [by : Inst, msg : Message]

Steps == {"idle", "queue", "recheck", "hsWrite", "hsRead", "hsScan",
          "hsNotify", "hsMark", "write", "cleanup", "read", "scan"}

\* Steps taken with the stdioMutex held.
Locked == Steps \ {"idle", "queue"}

\* Before a spawn the handles mean nothing, as the fields of an idle call do.
NullHandle == CHOOSE h \in Handle : TRUE

CallRecord == [at : Steps, inst : Inst, w : Handle, r : Handle,
               needs : BOOLEAN, id : Nat, chunk : SUBSET Line]
IdleCall == [at |-> "idle", inst |-> CHOOSE i \in Inst : TRUE, w |-> NullHandle,
             r |-> NullHandle, needs |-> FALSE, id |-> 0, chunk |-> {}]

-----------------------------------------------------------------------------
(* Handles and pipes *)

\* The worker at the other end of a handle value, if it is one's end now.
StdinOf(h) == {i \in Inst : entry[i] = "listed" /\ stdinH[i] = h}
StdoutOf(h) == {i \in Inst : entry[i] = "listed" /\ stdoutH[i] = h}

InUse == {stdinH[i] : i \in {j \in Inst : entry[j] = "listed"}} \cup
         {stdoutH[i] : i \in {j \in Inst : entry[j] = "listed"}}

\* WriteFile fails on a closed handle, a read end or a pipe without a reader,
\* and blocks while the pipe is full.
WriteFails(h) == StdinOf(h) \cap running = {}

Write(h, m) ==
    \E j \in StdinOf(h) \cap running :
        /\ Cardinality(toWorker[j]) < PipeSize
        /\ toWorker' = [toWorker EXCEPT ![j] = @ \cup {m}]
        /\ UNCHANGED << running, inHand, fromWorker >>

\* PeekNamedPipe and ReadFile fail on a closed handle, a write end, and a
\* pipe whose writer is gone and that is empty.
ReadFails(h) ==
    \A j \in StdoutOf(h) : j \notin running /\ fromWorker[j] = {}

Read(c, next) ==
    \E j \in StdoutOf(call[c].r) :
        \E lines \in SUBSET fromWorker[j] \ {{}} :
            /\ fromWorker' = [fromWorker EXCEPT ![j] = @ \ lines]
            /\ call' = [call EXCEPT ![c].at = next, ![c].chunk = lines]
            /\ UNCHANGED << running, toWorker, inHand >>

Goto(c, next) == call' = [call EXCEPT ![c].at = next]

\* The call returns, and perInstanceLock is released.
Return(c) ==
    /\ holder' = [holder EXCEPT ![call[c].inst] = NoCaller]
    /\ call' = [call EXCEPT ![c].at = "idle", ![c].chunk = {}]

Listed(c) == entry[call[c].inst] = "listed"

\* Closing handles and job object, and erasing the record of instance i.
EraseChild(i) ==
    /\ entry' = [entry EXCEPT ![i] = "erased"]
    /\ buffer' = [buffer EXCEPT ![i] = {}]
    /\ running' = running \ {i}
    /\ toWorker' = [toWorker EXCEPT ![i] = {}]
    /\ inHand' = [inHand EXCEPT ![i] = {}]
    /\ fromWorker' = [fromWorker EXCEPT ![i] = {}]
    /\ UNCHANGED << stdinH, stdoutH, initialized >>

-----------------------------------------------------------------------------
(* The call *)

\* bridgeRequestIdCounter_.
SameId == nextRequest
NextId == nextRequest + 1

\* Phase 1, under mutex_: an unknown instance is an error, which changes
\* nothing; otherwise the handles are copied.
Lookup(c, i) ==
    /\ call[c].at = "idle"
    /\ entry[i] = "listed"
    /\ nextRequest <= MaxRequest
    /\ call' = [call EXCEPT ![c] =
                  [at |-> "queue", inst |-> i, w |-> stdinH[i], r |-> stdoutH[i],
                   needs |-> ~initialized[i], id |-> nextRequest, chunk |-> {}]]
    /\ nextRequest' = NextId
    /\ UNCHANGED << childVars, workerVars, holder >>

\* Phase 2: perInstanceLock.
TakeStdioMutex(c) ==
    /\ call[c].at = "queue"
    /\ holder[call[c].inst] = NoCaller
    /\ holder' = [holder EXCEPT ![call[c].inst] = c]
    /\ Goto(c, IF call[c].needs THEN "recheck" ELSE "write")
    /\ UNCHANGED << childVars, workerVars, nextRequest >>

\* The second look at mcpInitialized, under mutex_.
RecheckTrustingCopy(c) ==
    /\ call[c].at = "recheck"
    /\ Listed(c)
    /\ Goto(c, "hsWrite")
    /\ UNCHANGED << childVars, workerVars, holder, nextRequest >>
Recheck(c) ==
    /\ call[c].at = "recheck"
    /\ IF Listed(c)
       THEN /\ Goto(c, IF initialized[call[c].inst] THEN "write" ELSE "hsWrite")
            /\ UNCHANGED holder
       ELSE Return(c)
    /\ UNCHANGED << childVars, workerVars, nextRequest >>

HandshakeWrite(c) ==
    /\ call[c].at = "hsWrite"
    /\ \/ /\ Write(call[c].w, << call[c].inst, 0 >>)
          /\ Goto(c, "hsRead")
          /\ UNCHANGED holder
       \/ /\ WriteFails(call[c].w)
          /\ Return(c)
          /\ UNCHANGED workerVars
    /\ UNCHANGED << childVars, nextRequest >>

\* One poll of the read loop: bytes, an error, or (Timeout) the deadline.
HandshakeRead(c) ==
    /\ call[c].at = "hsRead"
    /\ \/ Read(c, "hsScan") /\ UNCHANGED holder
       \/ /\ ReadFails(call[c].r)
          /\ Return(c)
          /\ UNCHANGED workerVars
    /\ UNCHANGED << childVars, nextRequest >>

\* The lines of c's instance that may stay buffered once the reply msg was
\* found: those behind it.  Without it every line is consumed.
Matching(c, msg) ==
    {l \in buffer[call[c].inst] \cup call[c].chunk : l.msg = msg}

KeepRest(c, msg) ==
    \E rest \in SUBSET ((buffer[call[c].inst] \cup call[c].chunk) \ Matching(c, msg)) :
        buffer' = [buffer EXCEPT ![call[c].inst] = rest]

DropAll(c) == buffer' = [buffer EXCEPT ![call[c].inst] = {}]

\* Append to stdioReadBuffer and look for the handshake id, under mutex_.
HandshakeScan(c) ==
    LET msg == << call[c].inst, 0 >> IN
    /\ call[c].at = "hsScan"
    /\ \/ /\ ~Listed(c)
          /\ Return(c)
          /\ UNCHANGED buffer
       \/ /\ Listed(c)
          /\ Matching(c, msg) # {}
          /\ KeepRest(c, msg)
          /\ call' = [call EXCEPT ![c].at = "hsNotify", ![c].chunk = {}]
          /\ UNCHANGED holder
       \/ /\ Listed(c)
          /\ Matching(c, msg) = {}
          /\ DropAll(c)
          /\ call' = [call EXCEPT ![c].at = "hsRead", ![c].chunk = {}]
          /\ UNCHANGED holder
    /\ UNCHANGED << entry, stdinH, stdoutH, initialized, workerVars, nextRequest >>

\* notifications/initialized: no reply, but the write may fail or block.
HandshakeNotify(c) ==
    /\ call[c].at = "hsNotify"
    /\ \/ /\ \E j \in StdinOf(call[c].w) \cap running :
                Cardinality(toWorker[j]) < PipeSize
          /\ Goto(c, "hsMark")
          /\ UNCHANGED holder
       \/ /\ WriteFails(call[c].w)
          /\ Return(c)
    /\ UNCHANGED << childVars, workerVars, nextRequest >>

\* mcpInitialized and healthProbePassed, under mutex_.
HandshakeMark(c) ==
    /\ call[c].at = "hsMark"
    /\ initialized' = [initialized EXCEPT ![call[c].inst] = @ \/ Listed(c)]
    /\ Goto(c, "write")
    /\ UNCHANGED << entry, stdinH, stdoutH, buffer, workerVars, holder, nextRequest >>

\* Phase 3: the request goes to whatever the copied handle is now.
WriteRequest(c) ==
    /\ call[c].at = "write"
    /\ \/ /\ Write(call[c].w, << call[c].inst, call[c].id >>)
          /\ Goto(c, "read")
       \/ /\ WriteFails(call[c].w)
          /\ Goto(c, "cleanup")
          /\ UNCHANGED workerVars
    /\ UNCHANGED << childVars, holder, nextRequest >>

\* WriteFile failed: the child record goes, under mutex_.
Cleanup(c) ==
    /\ call[c].at = "cleanup"
    /\ IF Listed(c) THEN EraseChild(call[c].inst)
       ELSE UNCHANGED << childVars, workerVars >>
    /\ Return(c)
    /\ UNCHANGED nextRequest

\* Phase 5.
ReadReply(c) ==
    /\ call[c].at = "read"
    /\ \/ Read(c, "scan") /\ UNCHANGED holder
       \/ /\ ReadFails(call[c].r)
          /\ Return(c)
          /\ UNCHANGED workerVars
    /\ UNCHANGED << childVars, nextRequest >>

\* The reply was found: the call succeeds.
SucceedThoughErased(c) ==
    /\ call[c].at = "scan"
    /\ Matching(c, << call[c].inst, call[c].id >>) # {}
    /\ KeepRest(c, << call[c].inst, call[c].id >>)
    /\ Return(c)
    /\ UNCHANGED << entry, stdinH, stdoutH, initialized, workerVars, nextRequest >>
Succeed(c) ==
    /\ call[c].at = "scan"
    /\ Listed(c)
    /\ Matching(c, << call[c].inst, call[c].id >>) # {}
    /\ KeepRest(c, << call[c].inst, call[c].id >>)
    /\ Return(c)
    /\ UNCHANGED << entry, stdinH, stdoutH, initialized, workerVars, nextRequest >>

\* It was not among the lines read, or the instance disappeared.  Append,
\* snapshot and trim are three critical sections of mutex_; an erasure in
\* between is one before the first or one after the last.
ScanAgain(c) ==
    /\ call[c].at = "scan"
    /\ \/ /\ ~Listed(c)
          /\ Return(c)
          /\ UNCHANGED buffer
       \/ /\ Listed(c)
          /\ Matching(c, << call[c].inst, call[c].id >>) = {}
          /\ DropAll(c)
          /\ call' = [call EXCEPT ![c].at = "read", ![c].chunk = {}]
          /\ UNCHANGED holder
    /\ UNCHANGED << entry, stdinH, stdoutH, initialized, workerVars, nextRequest >>

\* A read loop reaches its deadline (3 s, or timeoutMs).
ReplyLoopOnly == {"read"}
LoopsWithDeadline == {"hsRead", "read"}

HandshakeProceedsOnTimeout(c) ==
    /\ call[c].at \in {"hsRead", "read"}
    /\ IF call[c].at = "hsRead" THEN Goto(c, "write") /\ UNCHANGED holder
       ELSE Return(c)
    /\ UNCHANGED << childVars, workerVars, nextRequest >>
Timeout(c) ==
    /\ call[c].at \in LoopsWithDeadline
    /\ Return(c)
    /\ UNCHANGED << childVars, workerVars, nextRequest >>

CallStep(c) ==
    \/ TakeStdioMutex(c)
    \/ Recheck(c)
    \/ HandshakeWrite(c)
    \/ HandshakeRead(c)
    \/ HandshakeScan(c)
    \/ HandshakeNotify(c)
    \/ HandshakeMark(c)
    \/ WriteRequest(c)
    \/ Cleanup(c)
    \/ ReadReply(c)
    \/ Succeed(c)
    \/ ScanAgain(c)

-----------------------------------------------------------------------------
(* Supervisor and workers *)

\* startInstanceLocked: a new instance with its two pipes, under handle
\* values that are free.
Spawn(i, w, r) ==
    /\ entry[i] = "none"
    /\ {w, r} \cap InUse = {}
    /\ w # r
    /\ entry' = [entry EXCEPT ![i] = "listed"]
    /\ stdinH' = [stdinH EXCEPT ![i] = w]
    /\ stdoutH' = [stdoutH EXCEPT ![i] = r]
    /\ running' = running \cup {i}
    /\ UNCHANGED << initialized, buffer, toWorker, inHand, fromWorker, holder,
                    call, nextRequest >>

\* A reap, a removal or a shutdown.
Erase(i) ==
    /\ entry[i] = "listed"
    /\ EraseChild(i)
    /\ UNCHANGED << holder, call, nextRequest >>

WorkerReads(i) ==
    /\ i \in running
    /\ \E m \in toWorker[i] :
          /\ toWorker' = [toWorker EXCEPT ![i] = @ \ {m}]
          /\ inHand' = [inHand EXCEPT ![i] = @ \cup {m}]
    /\ UNCHANGED << childVars, running, fromWorker, holder, call, nextRequest >>

WorkerAnswers(i) ==
    /\ i \in running
    /\ \E m \in inHand[i] :
          /\ inHand' = [inHand EXCEPT ![i] = @ \ {m}]
          /\ fromWorker' = [fromWorker EXCEPT ![i] = @ \cup {[by |-> i, msg |-> m]}]
    /\ UNCHANGED << childVars, running, toWorker, holder, call, nextRequest >>

WorkerExits(i) ==
    /\ i \in running
    /\ running' = running \ {i}
    /\ UNCHANGED << childVars, toWorker, inHand, fromWorker, holder, call,
                    nextRequest >>

-----------------------------------------------------------------------------
BridgeInit ==
    /\ entry = [i \in Inst |-> "none"]
    /\ stdinH = [i \in Inst |-> NullHandle]
    /\ stdoutH = [i \in Inst |-> NullHandle]
    /\ initialized = [i \in Inst |-> FALSE]
    /\ buffer = [i \in Inst |-> {}]
    /\ running = {}
    /\ toWorker = [i \in Inst |-> {}]
    /\ inHand = [i \in Inst |-> {}]
    /\ fromWorker = [i \in Inst |-> {}]
    /\ holder = [i \in Inst |-> NoCaller]
    /\ call = [c \in Caller |-> IdleCall]
    /\ nextRequest = 1

BridgeNext ==
    \/ \E c \in Caller, i \in Inst : Lookup(c, i)
    \/ \E c \in Caller : CallStep(c)
    \/ \E c \in Caller : Timeout(c)
    \/ \E i \in Inst, w, r \in Handle : Spawn(i, w, r)
    \/ \E i \in Inst : Erase(i)
    \/ \E i \in Inst : WorkerReads(i)
    \/ \E i \in Inst : WorkerAnswers(i)
    \/ \E i \in Inst : WorkerExits(i)

BridgeSpec == BridgeInit /\ [][BridgeNext]_bridgeVars

\* Fairness: threads are scheduled and deadlines pass.
BridgeFairSpec ==
    /\ BridgeSpec
    /\ \A c \in Caller : WF_bridgeVars(CallStep(c)) /\ WF_bridgeVars(Timeout(c))

\* In addition every worker keeps reading its stdin, whether or not it answers.
BridgeWithReadingWorkers ==
    /\ BridgeFairSpec
    /\ \A i \in Inst : WF_bridgeVars(WorkerReads(i))

-----------------------------------------------------------------------------
(* Properties *)

\* Every variable holds values of its C++ type, the record of an instance has
\* a buffer only while it is listed, and calls in progress have ids of their
\* own (bridgeRequestIdCounter_).
BridgeTypeOK ==
    /\ entry \in [Inst -> {"none", "listed", "erased"}]
    /\ stdinH \in [Inst -> Handle]
    /\ stdoutH \in [Inst -> Handle]
    /\ initialized \in [Inst -> BOOLEAN]
    /\ buffer \in [Inst -> SUBSET Line]
    /\ running \subseteq {i \in Inst : entry[i] = "listed"}
    /\ toWorker \in [Inst -> SUBSET Message]
    /\ inHand \in [Inst -> SUBSET Message]
    /\ fromWorker \in [Inst -> SUBSET Line]
    /\ holder \in [Inst -> Caller \cup {NoCaller}]
    /\ call \in [Caller -> CallRecord]
    /\ nextRequest \in Nat
    /\ \A c, d \in Caller :
          /\ call[c].id < nextRequest
          /\ call[c].id = call[d].id => c = d \/ call[c].id = 0

\* A call succeeds only with a reply to its own request that its own worker
\* wrote, although it reads through handle values that may belong to another
\* worker by then.
SuccessIsOwnReply ==
    [][\A c \in Caller : Succeed(c) =>
          Matching(c, << call[c].inst, call[c].id >>)
            \subseteq [by : {call[c].inst}, msg : Message]]_bridgeVars

\* No request reaches the worker it is addressed to before that worker has
\* answered an initialize request, whatever handshakes failed or timed out.
HandshakeComesFirst ==
    [][\A i \in Inst, n \in 1..MaxRequest :
          << i, n >> \in toWorker'[i] \ toWorker[i] => initialized[i]]_bridgeVars

\* A worker that completed the handshake is never sent initialize again by a
\* call to it ("the second caller will find mcpInitialized already true").
NoSecondHandshake ==
    [][\A i \in Inst :
          << i, 0 >> \in toWorker'[i] \ toWorker[i] => ~initialized[i]]_bridgeVars

\* The handshake with a worker comes before every request to it, and is made once.
OneHandshakeFirst == HandshakeComesFirst /\ NoSecondHandshake

\* MasterControlContracts.h on sendStdioJsonRpc: "Times out after timeoutMs":
\* every call returns.
CallsReturn == \A c \in Caller : call[c].at # "idle" ~> call[c].at = "idle"

\* MasterControlRuntime.cpp, ChildProcess::stdioMutex: "the erased-entry case
\* degrades to the handled instance disappeared error": a call's request
\* never reaches a worker other than its own.
NoStrayRequest ==
    [][\A i, j \in Inst, n \in 1..MaxRequest :
          << i, n >> \in toWorker'[j] \ toWorker[j] => i = j]_bridgeVars
=============================================================================
