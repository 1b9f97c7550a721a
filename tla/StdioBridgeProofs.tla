-------------------------- MODULE StdioBridgeProofs --------------------------
(***************************************************************************)
(* Proofs about StdioBridge, for any number of instances, callers, handle  *)
(* values and requests.                                                    *)
(***************************************************************************)
EXTENDS StdioBridge, TLAPS

-----------------------------------------------------------------------------
(* What the updates of a call's record do *)

\* A call that moves on keeps its instance, handles and id; the other calls
\* are not touched (perInstanceLock and the locals of sendStdioJsonRpc).
LEMMA GotoEffect ==
    ASSUME call \in [Caller -> CallRecord], NEW c \in Caller, NEW a \in Steps,
           Goto(c, a)
    PROVE  /\ call' \in [Caller -> CallRecord]
           /\ \A d \in Caller : d # c => call'[d] = call[d]
           /\ call'[c].at = a
           /\ call'[c].inst = call[c].inst
           /\ call'[c].w = call[c].w
           /\ call'[c].r = call[c].r
           /\ call'[c].needs = call[c].needs
           /\ call'[c].id = call[c].id
           /\ call'[c].chunk = call[c].chunk
  BY DEF Goto, CallRecord

LEMMA ChunkEffect ==
    ASSUME call \in [Caller -> CallRecord], NEW c \in Caller, NEW a \in Steps,
           NEW s \in SUBSET Line,
           call' = [call EXCEPT ![c].at = a, ![c].chunk = s]
    PROVE  /\ call' \in [Caller -> CallRecord]
           /\ \A d \in Caller : d # c => call'[d] = call[d]
           /\ call'[c].at = a
           /\ call'[c].inst = call[c].inst
           /\ call'[c].w = call[c].w
           /\ call'[c].r = call[c].r
           /\ call'[c].needs = call[c].needs
           /\ call'[c].id = call[c].id
           /\ call'[c].chunk = s
  BY DEF CallRecord
-----------------------------------------------------------------------------
(* The inductive invariant *)

\* A call past perInstanceLock holds the stdioMutex of its instance.
Held == \A c \in Caller : call[c].at \in Locked => holder[call[c].inst] = c

\* A call's handle copies are those of its instance for as long as the
\* instance is listed: ids and records are never reused.
OwnHandles ==
    \A c \in Caller : call[c].at # "idle" =>
        /\ entry[call[c].inst] # "none"
        /\ Listed(c) => /\ call[c].w = stdinH[call[c].inst]
                        /\ call[c].r = stdoutH[call[c].inst]

\* Listed instances share no handle value.
HandlesApart ==
    \A i, j \in Inst : entry[i] = "listed" /\ entry[j] = "listed" =>
        /\ stdinH[i] # stdoutH[j]
        /\ stdinH[i] = stdinH[j] => i = j
        /\ stdoutH[i] = stdoutH[j] => i = j

\* A pipe and a buffer hold lines of their own worker only.
Attributed ==
    \A i \in Inst : \A l \in fromWorker[i] \cup buffer[i] : l.by = i

\* So does what a call has read, while its instance is listed.
ChunkAttributed ==
    \A c \in Caller : (call[c].at \in {"hsScan", "scan"} /\ Listed(c)) =>
        \A l \in call[c].chunk : l.by = call[c].inst

\* Where the handshake stands at each step of a call.
HandshakeState ==
    \A c \in Caller :
        /\ call[c].at = "write" /\ Listed(c) => initialized[call[c].inst]
        /\ call[c].at = "queue" /\ ~call[c].needs => initialized[call[c].inst]
        /\ call[c].at \in {"hsWrite", "hsRead", "hsScan", "hsNotify", "hsMark"}
              => ~initialized[call[c].inst]

\* Request ids start at 1.
Numbered ==
    /\ nextRequest >= 1
    /\ \A c \in Caller : call[c].at # "idle" => call[c].id >= 1

BridgeInv ==
    /\ BridgeTypeOK
    /\ Held
    /\ OwnHandles
    /\ HandlesApart
    /\ Attributed
    /\ ChunkAttributed
    /\ HandshakeState
    /\ Numbered

-----------------------------------------------------------------------------
(* Effects of whole steps *)

\* Every step of a call leaves its instance, handles and id as they were, and
\* the other calls alone.
LEMMA CallStepEffect ==
    ASSUME BridgeTypeOK, NEW c \in Caller, CallStep(c) \/ Timeout(c)
    PROVE  /\ call' \in [Caller -> CallRecord]
           /\ \A d \in Caller : d # c => call'[d] = call[d]
           /\ call'[c].inst = call[c].inst
           /\ call'[c].w = call[c].w
           /\ call'[c].r = call[c].r
           /\ call'[c].needs = call[c].needs
           /\ call'[c].id = call[c].id
           /\ nextRequest' = nextRequest
           /\ call[c].at # "idle"
<1>0. call \in [Caller -> CallRecord] BY DEF BridgeTypeOK
<1>a. Steps = {"idle", "queue", "recheck", "hsWrite", "hsRead", "hsScan",
              "hsNotify", "hsMark", "write", "cleanup", "read", "scan"}
  BY DEF Steps
<1>1. CASE \E a \in Steps : Goto(c, a) /\ call[c].at # "idle" /\ nextRequest' = nextRequest
  BY <1>0, <1>1, GotoEffect
<1>2. CASE \E a \in Steps, x \in SUBSET Line :
              /\ call' = [call EXCEPT ![c].at = a, ![c].chunk = x]
              /\ call[c].at # "idle" /\ nextRequest' = nextRequest
  BY <1>0, <1>2, ChunkEffect
<1>b. {} \in SUBSET Line OBVIOUS
<1>3. Return(c) /\ call[c].at # "idle" /\ nextRequest' = nextRequest =>
         \E a \in Steps, x \in SUBSET Line :
              /\ call' = [call EXCEPT ![c].at = a, ![c].chunk = x]
              /\ call[c].at # "idle" /\ nextRequest' = nextRequest
  BY <1>a, <1>b DEF Return
<1>4. ASSUME NEW a \in Steps, Read(c, a), call[c].at # "idle", nextRequest' = nextRequest
      PROVE  \E x \in SUBSET Line :
              /\ call' = [call EXCEPT ![c].at = a, ![c].chunk = x]
              /\ call[c].at # "idle" /\ nextRequest' = nextRequest
  <2>1. fromWorker \in [Inst -> SUBSET Line] BY DEF BridgeTypeOK
  <2>2. PICK j \in StdoutOf(call[c].r) : \E lines \in SUBSET fromWorker[j] \ {{}} :
            call' = [call EXCEPT ![c].at = a, ![c].chunk = lines]
    BY <1>4 DEF Read
  <2>3. j \in Inst BY <2>2 DEF StdoutOf
  <2> QED BY <2>1, <2>2, <2>3, <1>4
<1>5. CASE TakeStdioMutex(c)  BY <1>5, <1>a, <1>1 DEF TakeStdioMutex
<1>6. CASE Recheck(c)         BY <1>6, <1>a, <1>1, <1>2, <1>3 DEF Recheck
<1>7. CASE HandshakeWrite(c)  BY <1>7, <1>a, <1>1, <1>2, <1>3 DEF HandshakeWrite
<1>8. CASE HandshakeRead(c)   BY <1>8, <1>a, <1>4, <1>2, <1>3 DEF HandshakeRead
<1>9. CASE HandshakeScan(c)   BY <1>9, <1>a, <1>b, <1>2, <1>3 DEF HandshakeScan
<1>10. CASE HandshakeNotify(c) BY <1>10, <1>a, <1>1, <1>2, <1>3 DEF HandshakeNotify
<1>11. CASE HandshakeMark(c)  BY <1>11, <1>a, <1>1 DEF HandshakeMark
<1>12. CASE WriteRequest(c)   BY <1>12, <1>a, <1>1 DEF WriteRequest
<1>13. CASE Cleanup(c)        BY <1>13, <1>2, <1>3 DEF Cleanup
<1>14. CASE ReadReply(c)      BY <1>14, <1>a, <1>4, <1>2, <1>3 DEF ReadReply
<1>15. CASE Succeed(c)        BY <1>15, <1>2, <1>3 DEF Succeed
<1>16. CASE ScanAgain(c)      BY <1>16, <1>a, <1>b, <1>2, <1>3 DEF ScanAgain
<1>17. CASE Timeout(c)        BY <1>17, <1>2, <1>3 DEF Timeout, LoopsWithDeadline
<1> QED
  BY <1>5, <1>6, <1>7, <1>8, <1>9, <1>10, <1>11, <1>12, <1>13, <1>14, <1>15,
     <1>16, <1>17 DEF CallStep

\* What a step of a call does to the records of the children: nothing, or it
\* erases that of its own instance (the write-failure path).
LEMMA CallStepChildren ==
    ASSUME BridgeTypeOK, NEW c \in Caller, CallStep(c) \/ Timeout(c)
    PROVE  /\ stdinH' = stdinH
           /\ stdoutH' = stdoutH
           /\ \/ UNCHANGED << entry, running >>
              \/ EraseChild(call[c].inst) /\ Listed(c)
           /\ \/ UNCHANGED initialized
              \/ HandshakeMark(c)
<1>1. CASE TakeStdioMutex(c)
  BY <1>1 DEF TakeStdioMutex, childVars, workerVars
<1>2. CASE Recheck(c)
  BY <1>2 DEF Recheck, childVars, workerVars
<1>3. CASE HandshakeWrite(c)
  BY <1>3 DEF HandshakeWrite, Write, childVars, workerVars
<1>4. CASE HandshakeRead(c)
  BY <1>4 DEF HandshakeRead, Read, childVars, workerVars
<1>5. CASE HandshakeScan(c)
  BY <1>5 DEF HandshakeScan, workerVars
<1>6. CASE HandshakeNotify(c)
  BY <1>6 DEF HandshakeNotify, childVars, workerVars
<1>7. CASE HandshakeMark(c)
  BY <1>7 DEF HandshakeMark, workerVars
<1>8. CASE WriteRequest(c)
  BY <1>8 DEF WriteRequest, Write, childVars, workerVars
<1>9. CASE Cleanup(c)
  BY <1>9 DEF Cleanup, EraseChild, childVars, workerVars
<1>10. CASE ReadReply(c)
  BY <1>10 DEF ReadReply, Read, childVars, workerVars
<1>11. CASE Succeed(c)
  BY <1>11 DEF Succeed, workerVars
<1>12. CASE ScanAgain(c)
  BY <1>12 DEF ScanAgain, workerVars
<1>13. CASE Timeout(c)
  BY <1>13 DEF Timeout, childVars, workerVars
<1> QED
  BY <1>1, <1>2, <1>3, <1>4, <1>5, <1>6, <1>7, <1>8, <1>9, <1>10, <1>11,
     <1>12, <1>13 DEF CallStep

\* What it does to pipes and buffers: lines are only moved, to a call that
\* reads them from the handle it holds or to the buffer of its instance.
LEMMA CallStepLines ==
    ASSUME BridgeTypeOK, NEW c \in Caller, CallStep(c) \/ Timeout(c)
    PROVE  /\ \A i \in Inst : fromWorker'[i] \subseteq fromWorker[i]
           /\ fromWorker' \in [Inst -> SUBSET Line]
           /\ buffer' \in [Inst -> SUBSET Line]
           /\ \A i \in Inst : buffer'[i] \subseteq
                 buffer[i] \cup (IF i = call[c].inst /\ Listed(c)
                                    /\ call[c].at \in {"hsScan", "scan"}
                                 THEN call[c].chunk ELSE {})
<1>0. /\ fromWorker \in [Inst -> SUBSET Line]
      /\ buffer \in [Inst -> SUBSET Line]
      /\ call[c] \in CallRecord /\ call[c].inst \in Inst
      /\ call[c].chunk \in SUBSET Line
  BY DEF BridgeTypeOK, CallRecord
<1>r. ASSUME NEW a, Read(c, a)
      PROVE  /\ \A i \in Inst : fromWorker'[i] \subseteq fromWorker[i]
             /\ fromWorker' \in [Inst -> SUBSET Line]
  <2>1. PICK j, lines : fromWorker' = [fromWorker EXCEPT ![j] = @ \ lines]
    BY <1>r DEF Read
  <2> QED
    BY <1>0, <2>1
<1>k. ASSUME NEW msg, KeepRest(c, msg)
      PROVE  /\ buffer' \in [Inst -> SUBSET Line]
             /\ \A i \in Inst : buffer'[i] \subseteq
                 buffer[i] \cup (IF i = call[c].inst THEN call[c].chunk ELSE {})
  BY <1>0, <1>k DEF KeepRest
<1>d. ASSUME DropAll(c)
      PROVE  /\ buffer' \in [Inst -> SUBSET Line]
             /\ \A i \in Inst : buffer'[i] \subseteq buffer[i]
  BY <1>0, <1>d DEF DropAll
<1>1. CASE TakeStdioMutex(c)
  BY <1>0, <1>1 DEF TakeStdioMutex, childVars, workerVars
<1>2. CASE Recheck(c)
  BY <1>0, <1>2 DEF Recheck, childVars, workerVars
<1>3. CASE HandshakeWrite(c)
  BY <1>0, <1>3 DEF HandshakeWrite, Write, childVars, workerVars
<1>4. CASE HandshakeRead(c)
  BY <1>0, <1>r, <1>4 DEF HandshakeRead, childVars, workerVars
<1>5. CASE HandshakeScan(c)
  BY <1>0, <1>k, <1>d, <1>5 DEF HandshakeScan, workerVars
<1>6. CASE HandshakeNotify(c)
  BY <1>0, <1>6 DEF HandshakeNotify, childVars, workerVars
<1>7. CASE HandshakeMark(c)
  BY <1>0, <1>7 DEF HandshakeMark, workerVars
<1>8. CASE WriteRequest(c)
  BY <1>0, <1>8 DEF WriteRequest, Write, childVars, workerVars
<1>9. CASE Cleanup(c)
  BY <1>0, <1>9 DEF Cleanup, EraseChild, childVars, workerVars
<1>10. CASE ReadReply(c)
  BY <1>0, <1>r, <1>10 DEF ReadReply, childVars, workerVars
<1>11. CASE Succeed(c)
  BY <1>0, <1>k, <1>11 DEF Succeed, workerVars
<1>12. CASE ScanAgain(c)
  BY <1>0, <1>d, <1>12 DEF ScanAgain, workerVars
<1>13. CASE Timeout(c)
  BY <1>0, <1>13 DEF Timeout, childVars, workerVars
<1> QED
  BY <1>1, <1>2, <1>3, <1>4, <1>5, <1>6, <1>7, <1>8, <1>9, <1>10, <1>11,
     <1>12, <1>13 DEF CallStep

\* What it writes: at most the message of its own step, through its handle.
LEMMA CallStepWrites ==
    ASSUME BridgeTypeOK, NEW c \in Caller, CallStep(c) \/ Timeout(c)
    PROVE  /\ toWorker' \in [Inst -> SUBSET Message]
           /\ inHand' \in [Inst -> SUBSET Message]
           /\ \A j \in Inst, m \in Message : m \in toWorker'[j] \ toWorker[j] =>
                /\ j \in StdinOf(call[c].w)
                /\ \/ HandshakeWrite(c) /\ m = << call[c].inst, 0 >>
                   \/ WriteRequest(c) /\ m = << call[c].inst, call[c].id >>
<1>0. /\ toWorker \in [Inst -> SUBSET Message]
      /\ inHand \in [Inst -> SUBSET Message]
      /\ << call[c].inst, 0 >> \in Message
      /\ << call[c].inst, call[c].id >> \in Message
  BY DEF BridgeTypeOK, CallRecord, Message
<1>e. ASSUME NEW i \in Inst, EraseChild(i)
      PROVE  /\ toWorker' \in [Inst -> SUBSET Message]
             /\ inHand' \in [Inst -> SUBSET Message]
             /\ \A j \in Inst : toWorker'[j] \subseteq toWorker[j]
  BY <1>0, <1>e DEF EraseChild
<1>w. ASSUME NEW h, NEW m \in Message, Write(h, m)
      PROVE  /\ toWorker' \in [Inst -> SUBSET Message]
             /\ inHand' \in [Inst -> SUBSET Message]
             /\ \A j \in Inst : toWorker'[j] \subseteq toWorker[j] \cup {m}
             /\ \A j \in Inst : toWorker'[j] # toWorker[j] => j \in StdinOf(h)
  BY <1>0, <1>w DEF Write
<1>1. CASE TakeStdioMutex(c)
  BY <1>0, <1>1 DEF TakeStdioMutex, workerVars
<1>2. CASE Recheck(c)
  BY <1>0, <1>2 DEF Recheck, workerVars
<1>3. CASE HandshakeWrite(c)
  <2>1. CASE Write(call[c].w, << call[c].inst, 0 >>)
    BY <1>0, <1>w, <1>3, <2>1
  <2>2. CASE UNCHANGED workerVars
    BY <1>0, <2>2 DEF workerVars
  <2> QED BY <1>3, <2>1, <2>2 DEF HandshakeWrite
<1>4. CASE HandshakeRead(c)
  BY <1>0, <1>4 DEF HandshakeRead, Read, workerVars
<1>5. CASE HandshakeScan(c)
  BY <1>0, <1>5 DEF HandshakeScan, workerVars
<1>6. CASE HandshakeNotify(c)
  BY <1>0, <1>6 DEF HandshakeNotify, workerVars
<1>7. CASE HandshakeMark(c)
  BY <1>0, <1>7 DEF HandshakeMark, workerVars
<1>8. CASE WriteRequest(c)
  <2>1. CASE Write(call[c].w, << call[c].inst, call[c].id >>)
    BY <1>0, <1>w, <1>8, <2>1
  <2>2. CASE UNCHANGED workerVars
    BY <1>0, <2>2 DEF workerVars
  <2> QED BY <1>8, <2>1, <2>2 DEF WriteRequest
<1>9. CASE Cleanup(c)
  <2>1. CASE EraseChild(call[c].inst)
    BY <1>0, <1>e, <2>1 DEF Message, BridgeTypeOK, CallRecord
  <2>2. CASE UNCHANGED workerVars
    BY <1>0, <2>2 DEF workerVars
  <2> QED BY <1>9, <2>1, <2>2 DEF Cleanup
<1>10. CASE ReadReply(c)
  BY <1>0, <1>10 DEF ReadReply, Read, workerVars
<1>11. CASE Succeed(c)
  BY <1>0, <1>11 DEF Succeed, workerVars
<1>12. CASE ScanAgain(c)
  BY <1>0, <1>12 DEF ScanAgain, workerVars
<1>13. CASE Timeout(c)
  BY <1>0, <1>13 DEF Timeout, workerVars
<1> QED
  BY <1>1, <1>2, <1>3, <1>4, <1>5, <1>6, <1>7, <1>8, <1>9, <1>10, <1>11,
     <1>12, <1>13 DEF CallStep

\* What it does to the mutex of its instance: takes a free one, or keeps or
\* releases the one it holds.
LEMMA CallStepMutex ==
    ASSUME BridgeTypeOK, NEW c \in Caller, CallStep(c) \/ Timeout(c)
    PROVE  \/ /\ call[c].at = "queue"
              /\ holder[call[c].inst] = NoCaller
              /\ holder' = [holder EXCEPT ![call[c].inst] = c]
           \/ /\ call[c].at \in Locked
              /\ holder' = holder
           \/ /\ call[c].at \in Locked
              /\ call'[c].at = "idle"
              /\ holder' = [holder EXCEPT ![call[c].inst] = NoCaller]
<1>0. call \in [Caller -> CallRecord] BY DEF BridgeTypeOK
<1>r. Return(c) => /\ call'[c].at = "idle"
                   /\ holder' = [holder EXCEPT ![call[c].inst] = NoCaller]
  BY <1>0 DEF Return, CallRecord
<1>l. Locked = {"recheck", "hsWrite", "hsRead", "hsScan", "hsNotify", "hsMark",
                "write", "cleanup", "read", "scan"}
  BY DEF Locked, Steps
<1>1. CASE TakeStdioMutex(c)  BY <1>1 DEF TakeStdioMutex
<1>2. CASE Recheck(c)         BY <1>2, <1>r, <1>l DEF Recheck
<1>3. CASE HandshakeWrite(c)  BY <1>3, <1>r, <1>l DEF HandshakeWrite
<1>4. CASE HandshakeRead(c)   BY <1>4, <1>r, <1>l DEF HandshakeRead
<1>5. CASE HandshakeScan(c)   BY <1>5, <1>r, <1>l DEF HandshakeScan
<1>6. CASE HandshakeNotify(c) BY <1>6, <1>r, <1>l DEF HandshakeNotify
<1>7. CASE HandshakeMark(c)   BY <1>7, <1>r, <1>l DEF HandshakeMark
<1>8. CASE WriteRequest(c)    BY <1>8, <1>r, <1>l DEF WriteRequest
<1>9. CASE Cleanup(c)         BY <1>9, <1>r, <1>l DEF Cleanup
<1>10. CASE ReadReply(c)      BY <1>10, <1>r, <1>l DEF ReadReply
<1>11. CASE Succeed(c)        BY <1>11, <1>r, <1>l DEF Succeed
<1>12. CASE ScanAgain(c)      BY <1>12, <1>r, <1>l DEF ScanAgain
<1>13. CASE Timeout(c)        BY <1>13, <1>r, <1>l DEF Timeout, LoopsWithDeadline
<1> QED
  BY <1>1, <1>2, <1>3, <1>4, <1>5, <1>6, <1>7, <1>8, <1>9, <1>10, <1>11,
     <1>12, <1>13 DEF CallStep

\* Lookup starts a call with fresh id and the handles of a listed instance.
LEMMA LookupEffect ==
    ASSUME BridgeTypeOK, NEW c \in Caller, NEW i \in Inst, Lookup(c, i)
    PROVE  /\ call' \in [Caller -> CallRecord]
           /\ \A d \in Caller : d # c => call'[d] = call[d]
           /\ call'[c].at = "queue"
           /\ call'[c].inst = i
           /\ call'[c].w = stdinH[i]
           /\ call'[c].r = stdoutH[i]
           /\ call'[c].needs = ~initialized[i]
           /\ call'[c].id = nextRequest
           /\ nextRequest' = nextRequest + 1
<1>1. [at |-> "queue", inst |-> i, w |-> stdinH[i], r |-> stdoutH[i],
       needs |-> ~initialized[i], id |-> nextRequest, chunk |-> {}] \in CallRecord
  BY DEF BridgeTypeOK, CallRecord, Steps
<1> QED BY <1>1 DEF Lookup, NextId, BridgeTypeOK

\* The supervisor and the workers leave the calls alone.
LEMMA OthersEffect ==
    ASSUME \/ \E i \in Inst, w, r \in Handle : Spawn(i, w, r)
           \/ \E i \in Inst : Erase(i)
           \/ \E i \in Inst : WorkerReads(i)
           \/ \E i \in Inst : WorkerAnswers(i)
           \/ \E i \in Inst : WorkerExits(i)
    PROVE  UNCHANGED << holder, call, nextRequest, initialized >>
  BY DEF Spawn, Erase, EraseChild, WorkerReads, WorkerAnswers, WorkerExits,
         childVars

-----------------------------------------------------------------------------
(* Invariance, one conjunct at a time *)

Others ==
    \/ \E i \in Inst, w, r \in Handle : Spawn(i, w, r)
    \/ \E i \in Inst : Erase(i)
    \/ \E i \in Inst : WorkerReads(i)
    \/ \E i \in Inst : WorkerAnswers(i)
    \/ \E i \in Inst : WorkerExits(i)

LEMMA BridgeNextCases ==
    ASSUME BridgeNext
    PROVE  \/ \E c \in Caller, i \in Inst : Lookup(c, i)
           \/ \E c \in Caller : CallStep(c) \/ Timeout(c)
           \/ Others
  BY DEF BridgeNext, Others

\* Ids in flight are distinct, positive and below the counter.
IdsDistinct ==
    \A c, d \in Caller :
        /\ call[c].id < nextRequest
        /\ call[c].id = call[d].id => c = d \/ call[c].id = 0

LEMMA IdsStep ==
    ASSUME BridgeTypeOK, Numbered, BridgeNext
    PROVE  IdsDistinct' /\ Numbered'
<1>0. /\ call \in [Caller -> CallRecord]
      /\ nextRequest \in Nat
      /\ \A c \in Caller : call[c].id \in Nat
      /\ IdsDistinct
  BY DEF BridgeTypeOK, IdsDistinct, CallRecord
<1>1. ASSUME NEW c \in Caller, NEW i \in Inst, Lookup(c, i)
      PROVE  IdsDistinct' /\ Numbered'
  <2>1. /\ call'[c].id = nextRequest
        /\ \A d \in Caller : d # c => call'[d] = call[d]
        /\ nextRequest' = nextRequest + 1
    BY <1>1, LookupEffect
  <2> QED BY <2>1, <1>0 DEF IdsDistinct, Numbered
<1>2. ASSUME NEW c \in Caller, CallStep(c) \/ Timeout(c)
      PROVE  IdsDistinct' /\ Numbered'
  <2>1. /\ \A d \in Caller : call'[d].id = call[d].id
        /\ \A d \in Caller : call'[d].at # "idle" => call[d].at # "idle"
        /\ nextRequest' = nextRequest
    BY <1>2, CallStepEffect
  <2> QED BY <2>1, <1>0 DEF IdsDistinct, Numbered
<1>3. ASSUME Others
      PROVE  IdsDistinct' /\ Numbered'
  <2>1. UNCHANGED << call, nextRequest >> BY <1>3, OthersEffect DEF Others
  <2> QED BY <2>1, <1>0 DEF IdsDistinct, Numbered
<1> QED BY <1>1, <1>2, <1>3, BridgeNextCases

LEMMA TypeStep ==
    ASSUME BridgeTypeOK, Numbered, BridgeNext
    PROVE  BridgeTypeOK'
<1>0. /\ entry \in [Inst -> {"none", "listed", "erased"}]
      /\ stdinH \in [Inst -> Handle]
      /\ stdoutH \in [Inst -> Handle]
      /\ initialized \in [Inst -> BOOLEAN]
      /\ buffer \in [Inst -> SUBSET Line]
      /\ running \subseteq {i \in Inst : entry[i] = "listed"}
      /\ toWorker \in [Inst -> SUBSET Message]
      /\ inHand \in [Inst -> SUBSET Message]
      /\ fromWorker \in [Inst -> SUBSET Line]
      /\ holder \in [Inst -> Caller \cup {NoCaller}]
      /\ call \in [Caller -> CallRecord]
      /\ nextRequest \in Nat
      /\ \A c \in Caller : call[c].inst \in Inst
  BY DEF BridgeTypeOK, CallRecord
<1>i. IdsDistinct' BY IdsStep
<1>q. SUFFICES /\ entry' \in [Inst -> {"none", "listed", "erased"}]
               /\ stdinH' \in [Inst -> Handle]
               /\ stdoutH' \in [Inst -> Handle]
               /\ initialized' \in [Inst -> BOOLEAN]
               /\ buffer' \in [Inst -> SUBSET Line]
               /\ running' \subseteq {i \in Inst : entry'[i] = "listed"}
               /\ toWorker' \in [Inst -> SUBSET Message]
               /\ inHand' \in [Inst -> SUBSET Message]
               /\ fromWorker' \in [Inst -> SUBSET Line]
               /\ holder' \in [Inst -> Caller \cup {NoCaller}]
               /\ call' \in [Caller -> CallRecord]
               /\ nextRequest' \in Nat
  BY <1>i DEF BridgeTypeOK, IdsDistinct
<1>1. CASE \E c \in Caller, i \in Inst : Lookup(c, i)
  <2>1. PICK c \in Caller, i \in Inst : Lookup(c, i) BY <1>1
  <2>2. call' \in [Caller -> CallRecord] /\ nextRequest' = nextRequest + 1
    BY <2>1, LookupEffect
  <2>3. /\ UNCHANGED << entry, stdinH, stdoutH, initialized, buffer >>
        /\ UNCHANGED << running, toWorker, inHand, fromWorker, holder >>
    BY <2>1 DEF Lookup, childVars, workerVars
  <2> QED BY <2>2, <2>3, <1>0
<1>2. CASE \E c \in Caller : CallStep(c) \/ Timeout(c)
  <2>1. PICK c \in Caller : CallStep(c) \/ Timeout(c) BY <1>2
  <2>2. call' \in [Caller -> CallRecord] /\ nextRequest' \in Nat
    BY <2>1, <1>0, CallStepEffect
  <2>3. /\ fromWorker' \in [Inst -> SUBSET Line]
        /\ buffer' \in [Inst -> SUBSET Line]
    BY <2>1, CallStepLines
  <2>4. /\ toWorker' \in [Inst -> SUBSET Message]
        /\ inHand' \in [Inst -> SUBSET Message]
    BY <2>1, CallStepWrites
  <2>5. holder' \in [Inst -> Caller \cup {NoCaller}]
    BY <2>1, <1>0, CallStepMutex
  <2>6. /\ entry' \in [Inst -> {"none", "listed", "erased"}]
        /\ running' \subseteq {i \in Inst : entry'[i] = "listed"}
        /\ stdinH' \in [Inst -> Handle]
        /\ stdoutH' \in [Inst -> Handle]
    <3>1. CASE UNCHANGED << entry, running >>
      BY <3>1, <2>1, <1>0, CallStepChildren
    <3>2. CASE EraseChild(call[c].inst)
      BY <3>2, <2>1, <1>0 DEF EraseChild
    <3> QED BY <3>1, <3>2, <2>1, CallStepChildren
  <2>7. initialized' \in [Inst -> BOOLEAN]
    <3>1. CASE HandshakeMark(c) BY <3>1, <1>0 DEF HandshakeMark, Listed
    <3> QED BY <3>1, <2>1, <1>0, CallStepChildren
  <2> QED BY <2>2, <2>3, <2>4, <2>5, <2>6, <2>7
<1>3. CASE Others
  <2>0. /\ holder' \in [Inst -> Caller \cup {NoCaller}]
        /\ call' \in [Caller -> CallRecord]
        /\ nextRequest' \in Nat
        /\ initialized' \in [Inst -> BOOLEAN]
    BY <1>3, <1>0, OthersEffect DEF Others
  <2>1. ASSUME NEW i \in Inst, NEW w \in Handle, NEW r \in Handle, Spawn(i, w, r)
        PROVE  /\ entry' \in [Inst -> {"none", "listed", "erased"}]
               /\ stdinH' \in [Inst -> Handle]
               /\ stdoutH' \in [Inst -> Handle]
               /\ buffer' \in [Inst -> SUBSET Line]
               /\ running' \subseteq {j \in Inst : entry'[j] = "listed"}
               /\ toWorker' \in [Inst -> SUBSET Message]
               /\ inHand' \in [Inst -> SUBSET Message]
               /\ fromWorker' \in [Inst -> SUBSET Line]
    BY <2>1, <1>0 DEF Spawn
  <2>2. ASSUME NEW i \in Inst, Erase(i)
        PROVE  /\ entry' \in [Inst -> {"none", "listed", "erased"}]
               /\ stdinH' \in [Inst -> Handle]
               /\ stdoutH' \in [Inst -> Handle]
               /\ buffer' \in [Inst -> SUBSET Line]
               /\ running' \subseteq {j \in Inst : entry'[j] = "listed"}
               /\ toWorker' \in [Inst -> SUBSET Message]
               /\ inHand' \in [Inst -> SUBSET Message]
               /\ fromWorker' \in [Inst -> SUBSET Line]
    BY <2>2, <1>0 DEF Erase, EraseChild
  <2>3. ASSUME NEW i \in Inst, WorkerReads(i) \/ WorkerExits(i)
        PROVE  /\ UNCHANGED << entry, stdinH, stdoutH, buffer, fromWorker >>
               /\ running' \subseteq running
               /\ toWorker' \in [Inst -> SUBSET Message]
               /\ inHand' \in [Inst -> SUBSET Message]
    BY <2>3, <1>0 DEF WorkerReads, WorkerExits, childVars
  <2>4. ASSUME NEW i \in Inst, WorkerAnswers(i)
        PROVE  /\ UNCHANGED << entry, stdinH, stdoutH, buffer, running, toWorker >>
               /\ inHand' \in [Inst -> SUBSET Message]
               /\ fromWorker' \in [Inst -> SUBSET Line]
    <3>1. PICK m \in inHand[i] :
             /\ inHand' = [inHand EXCEPT ![i] = @ \ {m}]
             /\ fromWorker' = [fromWorker EXCEPT ![i] = @ \cup {[by |-> i, msg |-> m]}]
      BY <2>4 DEF WorkerAnswers
    <3>2. [by |-> i, msg |-> m] \in Line BY <3>1, <1>0 DEF Line
    <3> QED BY <2>4, <3>1, <3>2, <1>0 DEF WorkerAnswers, childVars
  <2> QED BY <1>3, <1>0, <2>0, <2>1, <2>2, <2>3, <2>4 DEF Others
<1> QED BY <1>1, <1>2, <1>3, BridgeNextCases

\* perInstanceLock excludes: two calls past it are on different instances.
LEMMA HeldStep ==
    ASSUME BridgeTypeOK, Held, BridgeNext
    PROVE  Held'
<1>0. /\ call \in [Caller -> CallRecord]
      /\ holder \in [Inst -> Caller \cup {NoCaller}]
      /\ \A c \in Caller : call[c].inst \in Inst /\ call[c].at \in Steps
      /\ NoCaller \notin Caller
  BY BridgeAssumption DEF BridgeTypeOK, CallRecord
<1>l. "idle" \notin Locked /\ "queue" \notin Locked BY DEF Locked
<1>1. ASSUME NEW c \in Caller, NEW i \in Inst, Lookup(c, i) PROVE Held'
  <2>1. /\ call'[c].at = "queue"
        /\ \A d \in Caller : d # c => call'[d] = call[d]
    BY <1>1, LookupEffect
  <2>2. holder' = holder BY <1>1 DEF Lookup
  <2> QED BY <2>1, <2>2, <1>l DEF Held
<1>2. ASSUME NEW c \in Caller, CallStep(c) \/ Timeout(c) PROVE Held'
  <2>1. /\ \A d \in Caller : d # c => call'[d] = call[d]
        /\ call'[c].inst = call[c].inst
    BY <1>2, CallStepEffect
  <2> SUFFICES ASSUME NEW d \in Caller, call'[d].at \in Locked
               PROVE  holder'[call'[d].inst] = d
    BY DEF Held
  <2>2. CASE /\ call[c].at = "queue"
             /\ holder[call[c].inst] = NoCaller
             /\ holder' = [holder EXCEPT ![call[c].inst] = c]
    BY <1>0, <2>1, <2>2 DEF Held
  <2>3. CASE call[c].at \in Locked /\ holder' = holder
    BY <1>0, <2>1, <2>3 DEF Held
  <2>4. CASE /\ call[c].at \in Locked
             /\ call'[c].at = "idle"
             /\ holder' = [holder EXCEPT ![call[c].inst] = NoCaller]
    <3>1. d # c BY <2>4, <1>l
    <3>2. holder[call[d].inst] = d BY <3>1, <2>1 DEF Held
    <3>3. holder[call[c].inst] = c BY <2>4 DEF Held
    <3>4. call[d].inst # call[c].inst BY <3>1, <3>2, <3>3
    <3> QED BY <3>1, <3>2, <3>4, <2>1, <2>4, <1>0
  <2> QED BY <1>2, <2>2, <2>3, <2>4, CallStepMutex
<1>3. ASSUME Others PROVE Held'
  <2>1. UNCHANGED << holder, call >> BY <1>3, OthersEffect DEF Others
  <2> QED BY <2>1 DEF Held
<1> QED BY <1>1, <1>2, <1>3, BridgeNextCases

\* A listed instance was listed before with the same handles, unless it has
\* just been spawned.
LEMMA ListedStep ==
    ASSUME BridgeTypeOK, BridgeNext,
           NEW i \in Inst, entry'[i] = "listed"
    PROVE  \/ /\ entry[i] = "listed"
              /\ stdinH'[i] = stdinH[i]
              /\ stdoutH'[i] = stdoutH[i]
           \/ \E w, r \in Handle : Spawn(i, w, r)
<1>0. /\ entry \in [Inst -> {"none", "listed", "erased"}]
      /\ stdinH \in [Inst -> Handle]
      /\ stdoutH \in [Inst -> Handle]
      /\ \A c \in Caller : call[c].inst \in Inst
  BY DEF BridgeTypeOK, CallRecord
<1>1. ASSUME NEW c \in Caller, NEW j \in Inst, Lookup(c, j)
      PROVE  UNCHANGED << entry, stdinH, stdoutH >>
  BY <1>1 DEF Lookup, childVars
<1>2. ASSUME NEW c \in Caller, CallStep(c) \/ Timeout(c)
      PROVE  entry[i] = "listed" /\ UNCHANGED << stdinH, stdoutH >>
  BY <1>0, <1>2, CallStepChildren DEF EraseChild
<1>3. ASSUME NEW j \in Inst, NEW w \in Handle, NEW r \in Handle, Spawn(j, w, r)
      PROVE  \/ /\ entry[i] = "listed"
                /\ stdinH'[i] = stdinH[i]
                /\ stdoutH'[i] = stdoutH[i]
             \/ Spawn(i, w, r)
  BY <1>0, <1>3 DEF Spawn
<1>4. ASSUME NEW j \in Inst, Erase(j) \/ WorkerReads(j) \/ WorkerAnswers(j) \/ WorkerExits(j)
      PROVE  entry[i] = "listed" /\ UNCHANGED << stdinH, stdoutH >>
  BY <1>0, <1>4 DEF Erase, EraseChild, WorkerReads, WorkerAnswers, WorkerExits, childVars
<1> QED BY <1>1, <1>2, <1>3, <1>4, BridgeNextCases DEF Others

\* An instance id is never reused: once it is spawned it is not "none" again.
LEMMA SpawnedStep ==
    ASSUME BridgeTypeOK, BridgeNext, NEW i \in Inst, entry[i] # "none"
    PROVE  entry'[i] # "none"
<1>0. /\ entry \in [Inst -> {"none", "listed", "erased"}]
      /\ \A c \in Caller : call[c].inst \in Inst
  BY DEF BridgeTypeOK, CallRecord
<1>1. ASSUME NEW c \in Caller, NEW j \in Inst, Lookup(c, j)
      PROVE  entry'[i] # "none"
  BY <1>1 DEF Lookup, childVars
<1>2. ASSUME NEW c \in Caller, CallStep(c) \/ Timeout(c)
      PROVE  entry'[i] # "none"
  BY <1>0, <1>2, CallStepChildren DEF EraseChild
<1>3. ASSUME Others
      PROVE  entry'[i] # "none"
  BY <1>0, <1>3 DEF Others, Spawn, Erase, EraseChild, WorkerReads,
     WorkerAnswers, WorkerExits, childVars
<1> QED BY <1>1, <1>2, <1>3, BridgeNextCases

LEMMA HandlesStep ==
    ASSUME BridgeTypeOK, OwnHandles, HandlesApart, BridgeNext
    PROVE  OwnHandles' /\ HandlesApart'
<1>0. /\ call \in [Caller -> CallRecord]
      /\ \A c \in Caller : call[c].inst \in Inst
      /\ entry \in [Inst -> {"none", "listed", "erased"}]
      /\ stdinH \in [Inst -> Handle]
      /\ stdoutH \in [Inst -> Handle]
  BY DEF BridgeTypeOK, CallRecord
<1>1. HandlesApart'
  <2> SUFFICES ASSUME NEW i \in Inst, NEW j \in Inst,
                      entry'[i] = "listed", entry'[j] = "listed"
               PROVE  /\ stdinH'[i] # stdoutH'[j]
                      /\ stdinH'[i] = stdinH'[j] => i = j
                      /\ stdoutH'[i] = stdoutH'[j] => i = j
    BY DEF HandlesApart
  <2>1. CASE \E k \in Inst, w, r \in Handle : Spawn(k, w, r)
    <3>1. PICK k \in Inst, w \in Handle, r \in Handle : Spawn(k, w, r) BY <2>1
    <3>2. \A m \in Inst : entry[m] = "listed" =>
             /\ stdinH[m] \in InUse /\ stdoutH[m] \in InUse
             /\ m # k
             /\ w # stdinH[m] /\ w # stdoutH[m]
             /\ r # stdinH[m] /\ r # stdoutH[m]
      BY <3>1 DEF Spawn, InUse
    <3>3. \A m \in Inst : entry'[m] = "listed" /\ m # k =>
             /\ entry[m] = "listed"
             /\ stdinH'[m] = stdinH[m]
             /\ stdoutH'[m] = stdoutH[m]
      BY <3>1, <1>0 DEF Spawn
    <3>4. w # r /\ stdinH'[k] = w /\ stdoutH'[k] = r BY <3>1, <1>0 DEF Spawn
    <3> QED BY <3>2, <3>3, <3>4 DEF HandlesApart
  <2>2. CASE ~ \E k \in Inst, w, r \in Handle : Spawn(k, w, r)
    <3>1. /\ entry[i] = "listed" /\ entry[j] = "listed"
          /\ stdinH'[i] = stdinH[i] /\ stdoutH'[i] = stdoutH[i]
          /\ stdinH'[j] = stdinH[j] /\ stdoutH'[j] = stdoutH[j]
      BY <2>2, ListedStep
    <3> QED BY <3>1 DEF HandlesApart
  <2> QED BY <2>1, <2>2
<1>2. OwnHandles'
  <2>0. SUFFICES ASSUME NEW d \in Caller, call'[d].at # "idle"
               PROVE  /\ entry'[call'[d].inst] # "none"
                      /\ entry'[call'[d].inst] = "listed" =>
                            /\ call'[d].w = stdinH'[call'[d].inst]
                            /\ call'[d].r = stdoutH'[call'[d].inst]
    BY DEF OwnHandles, Listed
  <2>1. ASSUME /\ call[d].at # "idle"
               /\ call'[d].inst = call[d].inst
               /\ call'[d].w = call[d].w
               /\ call'[d].r = call[d].r
        PROVE  /\ entry'[call'[d].inst] # "none"
               /\ entry'[call'[d].inst] = "listed" =>
                     /\ call'[d].w = stdinH'[call'[d].inst]
                     /\ call'[d].r = stdoutH'[call'[d].inst]
    <3>1. entry[call[d].inst] # "none" BY <2>1 DEF OwnHandles
    <3>2. ~ \E w, r \in Handle : Spawn(call[d].inst, w, r) BY <3>1 DEF Spawn
    <3>3. entry'[call[d].inst] # "none" BY <3>1, <1>0, SpawnedStep
    <3>4. entry'[call[d].inst] = "listed" =>
            /\ entry[call[d].inst] = "listed"
            /\ stdinH'[call[d].inst] = stdinH[call[d].inst]
            /\ stdoutH'[call[d].inst] = stdoutH[call[d].inst]
      BY <3>2, <1>0, ListedStep
    <3> QED BY <2>1, <3>3, <3>4 DEF OwnHandles, Listed
  <2>2. ASSUME NEW c \in Caller, NEW i \in Inst, Lookup(c, i)
        PROVE  /\ entry'[call'[d].inst] # "none"
               /\ entry'[call'[d].inst] = "listed" =>
                     /\ call'[d].w = stdinH'[call'[d].inst]
                     /\ call'[d].r = stdoutH'[call'[d].inst]
    <3>1. /\ call'[c].inst = i
          /\ call'[c].w = stdinH[i]
          /\ call'[c].r = stdoutH[i]
          /\ \A e \in Caller : e # c => call'[e] = call[e]
      BY <2>2, LookupEffect
    <3>2. entry[i] = "listed" /\ UNCHANGED << entry, stdinH, stdoutH >>
      BY <2>2 DEF Lookup, childVars
    <3> QED BY <3>1, <3>2, <2>0, <2>1
  <2>3. ASSUME NEW c \in Caller, CallStep(c) \/ Timeout(c)
        PROVE  /\ call[d].at # "idle"
               /\ call'[d].inst = call[d].inst
               /\ call'[d].w = call[d].w
               /\ call'[d].r = call[d].r
    BY <2>0, <2>3, CallStepEffect
  <2>4. Others => UNCHANGED call BY OthersEffect DEF Others
  <2> QED BY <2>0, <2>1, <2>2, <2>3, <2>4, BridgeNextCases
<1> QED BY <1>1, <1>2

\* Where a step of a call may lead, as far as the invariant asks.
Shaking == {"hsWrite", "hsRead", "hsScan", "hsNotify", "hsMark"}

LEMMA CallStepTarget ==
    ASSUME BridgeTypeOK, NEW c \in Caller, CallStep(c) \/ Timeout(c)
    PROVE  /\ call'[c].at # "queue"
           /\ call'[c].at \in {"hsScan", "scan"} =>
                \E a \in Steps : Read(c, a) /\ UNCHANGED << entry, stdoutH >>
           /\ call'[c].at = "write" =>
                \/ call[c].at = "queue" /\ ~call[c].needs /\ UNCHANGED initialized
                \/ initialized[call[c].inst] /\ UNCHANGED initialized
                \/ HandshakeMark(c)
           /\ call'[c].at \in Shaking =>
                /\ call[c].at \in Shaking \/ ~initialized[call[c].inst]
                /\ UNCHANGED initialized
<1>0. /\ call \in [Caller -> CallRecord]
      /\ call[c].chunk \in SUBSET Line
  BY DEF BridgeTypeOK, CallRecord
<1>a. Steps = {"idle", "queue", "recheck", "hsWrite", "hsRead", "hsScan",
              "hsNotify", "hsMark", "write", "cleanup", "read", "scan"}
  BY DEF Steps
<1>g. \A a \in Steps : Goto(c, a) => call'[c].at = a
  BY <1>0, GotoEffect
<1>r. Return(c) => call'[c].at = "idle"
  BY <1>0 DEF Return, CallRecord
<1>e. ASSUME NEW a \in Steps, Read(c, a) PROVE call'[c].at = a
  BY <1>0, <1>e DEF Read, CallRecord
<1>k. \A a \in Steps : call' = [call EXCEPT ![c].at = a, ![c].chunk = {}] =>
          call'[c].at = a
  BY <1>0 DEF CallRecord
<1>1. CASE TakeStdioMutex(c)
  BY <1>1, <1>a, <1>g DEF TakeStdioMutex, childVars, Shaking
<1>2. CASE Recheck(c)
  BY <1>2, <1>a, <1>g, <1>r DEF Recheck, childVars, Shaking
<1>3. CASE HandshakeWrite(c)
  BY <1>3, <1>a, <1>g, <1>r DEF HandshakeWrite, childVars, Shaking
<1>4. CASE HandshakeRead(c)
  BY <1>4, <1>a, <1>e, <1>r DEF HandshakeRead, childVars, Shaking
<1>5. CASE HandshakeScan(c)
  BY <1>5, <1>a, <1>k, <1>r DEF HandshakeScan, Shaking
<1>6. CASE HandshakeNotify(c)
  BY <1>6, <1>a, <1>g, <1>r DEF HandshakeNotify, childVars, Shaking
<1>7. CASE HandshakeMark(c)
  BY <1>7, <1>a, <1>g DEF HandshakeMark, Shaking
<1>8. CASE WriteRequest(c)
  BY <1>8, <1>a, <1>g DEF WriteRequest, childVars, Shaking
<1>9. CASE Cleanup(c)
  BY <1>9, <1>r DEF Cleanup, Shaking
<1>10. CASE ReadReply(c)
  BY <1>10, <1>a, <1>e, <1>r DEF ReadReply, childVars, Shaking
<1>11. CASE Succeed(c)
  BY <1>11, <1>r DEF Succeed, Shaking
<1>12. CASE ScanAgain(c)
  BY <1>12, <1>a, <1>k, <1>r DEF ScanAgain, Shaking
<1>13. CASE Timeout(c)
  BY <1>13, <1>r DEF Timeout, LoopsWithDeadline, Shaking
<1> QED
  BY <1>1, <1>2, <1>3, <1>4, <1>5, <1>6, <1>7, <1>8, <1>9, <1>10, <1>11,
     <1>12, <1>13 DEF CallStep

\* A call in progress whose instance is listed now found it listed before.
LEMMA StillListed ==
    ASSUME BridgeTypeOK, OwnHandles, BridgeNext, NEW c \in Caller,
           call[c].at # "idle", call'[c].inst = call[c].inst, Listed(c)'
    PROVE  Listed(c)
<1>1. call[c].inst \in Inst BY DEF BridgeTypeOK, CallRecord
<1>2. entry[call[c].inst] # "none" BY DEF OwnHandles
<1>3. ~ \E w, r \in Handle : Spawn(call[c].inst, w, r) BY <1>2 DEF Spawn
<1> QED BY <1>1, <1>3, ListedStep DEF Listed

LEMMA AttributedStep ==
    ASSUME BridgeTypeOK, Attributed, ChunkAttributed, BridgeNext
    PROVE  Attributed'
<1>0. /\ fromWorker \in [Inst -> SUBSET Line]
      /\ buffer \in [Inst -> SUBSET Line]
  BY DEF BridgeTypeOK
<1>1. ASSUME NEW c \in Caller, NEW i \in Inst, Lookup(c, i) PROVE Attributed'
  BY <1>1 DEF Lookup, childVars, workerVars, Attributed
<1>2. ASSUME NEW c \in Caller, CallStep(c) \/ Timeout(c) PROVE Attributed'
  BY <1>2, CallStepLines DEF Attributed, ChunkAttributed
<1>3. ASSUME NEW i \in Inst, NEW w \in Handle, NEW r \in Handle, Spawn(i, w, r)
      PROVE  Attributed'
  BY <1>3 DEF Spawn, Attributed
<1>4. ASSUME NEW i \in Inst, Erase(i) PROVE Attributed'
  BY <1>0, <1>4 DEF Erase, EraseChild, Attributed
<1>5. ASSUME NEW i \in Inst, WorkerReads(i) \/ WorkerExits(i) PROVE Attributed'
  BY <1>5 DEF WorkerReads, WorkerExits, childVars, Attributed
<1>6. ASSUME NEW i \in Inst, WorkerAnswers(i) PROVE Attributed'
  <2>1. PICK m \in inHand[i] :
            fromWorker' = [fromWorker EXCEPT ![i] = @ \cup {[by |-> i, msg |-> m]}]
    BY <1>6 DEF WorkerAnswers
  <2>2. buffer' = buffer BY <1>6 DEF WorkerAnswers, childVars
  <2> QED BY <2>1, <2>2, <1>0 DEF Attributed
<1> QED BY <1>1, <1>2, <1>3, <1>4, <1>5, <1>6, BridgeNextCases DEF Others

LEMMA ChunkAttributedStep ==
    ASSUME BridgeTypeOK, OwnHandles, HandlesApart, Attributed, ChunkAttributed,
           BridgeNext
    PROVE  ChunkAttributed'
<1>0. /\ call \in [Caller -> CallRecord]
      /\ \A c \in Caller : call[c].inst \in Inst
      /\ fromWorker \in [Inst -> SUBSET Line]
  BY DEF BridgeTypeOK, CallRecord
<1> SUFFICES ASSUME NEW d \in Caller, call'[d].at \in {"hsScan", "scan"}, Listed(d)'
             PROVE  \A l \in call'[d].chunk : l.by = call'[d].inst
  BY DEF ChunkAttributed
<1>1. CASE call'[d] = call[d]
  <2>1. Listed(d) BY <1>1, StillListed
  <2> QED BY <1>1, <2>1 DEF ChunkAttributed
<1>2. ASSUME NEW c \in Caller, NEW i \in Inst, Lookup(c, i)
      PROVE  call'[d] = call[d]
  BY <1>2, LookupEffect
<1>3. ASSUME CallStep(d) \/ Timeout(d)
      PROVE  \A l \in call'[d].chunk : l.by = call'[d].inst
  <2>1. PICK a \in Steps : Read(d, a) /\ UNCHANGED << entry, stdoutH >>
    BY <1>3, CallStepTarget
  <2>2. PICK j \in StdoutOf(call[d].r) : \E lines \in SUBSET fromWorker[j] \ {{}} :
            call' = [call EXCEPT ![d].at = a, ![d].chunk = lines]
    BY <2>1 DEF Read
  <2>3. PICK lines \in SUBSET fromWorker[j] \ {{}} :
            call' = [call EXCEPT ![d].at = a, ![d].chunk = lines]
    BY <2>2
  <2>4. j \in Inst /\ entry[j] = "listed" /\ stdoutH[j] = call[d].r
    BY <2>2 DEF StdoutOf
  <2>5. lines \in SUBSET Line BY <2>3, <2>4, <1>0
  <2>6. call'[d].chunk = lines BY <2>3, <1>0 DEF CallRecord
  <2>7. call[d].at # "idle" /\ call'[d].inst = call[d].inst
    BY <1>3, CallStepEffect
  <2>8. Listed(d) BY <2>7, StillListed
  <2>9. call[d].r = stdoutH[call[d].inst] BY <2>7, <2>8 DEF OwnHandles
  <2>10. j = call[d].inst
    BY <2>4, <2>8, <2>9, <1>0 DEF HandlesApart, Listed
  <2> QED BY <2>3, <2>4, <2>6, <2>7, <2>10 DEF Attributed
<1>4. ASSUME NEW c \in Caller, c # d, CallStep(c) \/ Timeout(c)
      PROVE  call'[d] = call[d]
  BY <1>4, CallStepEffect
<1>5. Others => call'[d] = call[d] BY OthersEffect DEF Others
<1> QED BY <1>1, <1>2, <1>3, <1>4, <1>5, BridgeNextCases

LEMMA HandshakeStep ==
    ASSUME BridgeTypeOK, Held, OwnHandles, HandshakeState, BridgeNext
    PROVE  HandshakeState'
<1>0. /\ call \in [Caller -> CallRecord]
      /\ initialized \in [Inst -> BOOLEAN]
      /\ \A c \in Caller : call[c].inst \in Inst /\ call[c].needs \in BOOLEAN
  BY DEF BridgeTypeOK, CallRecord
<1>l. Shaking \subseteq Locked /\ "write" \in Locked BY DEF Locked, Steps, Shaking
<1>q. SUFFICES ASSUME NEW d \in Caller
             PROVE  /\ call'[d].at = "write" /\ Listed(d)' =>
                          initialized'[call'[d].inst]
                    /\ call'[d].at = "queue" /\ ~call'[d].needs =>
                          initialized'[call'[d].inst]
                    /\ call'[d].at \in Shaking => ~initialized'[call'[d].inst]
  BY DEF HandshakeState, Shaking
<1>h. /\ call[d].at = "write" /\ Listed(d) => initialized[call[d].inst]
      /\ call[d].at = "queue" /\ ~call[d].needs => initialized[call[d].inst]
      /\ call[d].at \in Shaking => ~initialized[call[d].inst]
  BY DEF HandshakeState, Shaking
<1>1. ASSUME call'[d] = call[d], initialized' = initialized
      PROVE  /\ call'[d].at = "write" /\ Listed(d)' => initialized'[call'[d].inst]
             /\ call'[d].at = "queue" /\ ~call'[d].needs =>
                   initialized'[call'[d].inst]
             /\ call'[d].at \in Shaking => ~initialized'[call'[d].inst]
  BY <1>1, <1>h, StillListed
<1>2. ASSUME NEW c \in Caller, c # d, HandshakeMark(c), call'[d] = call[d],
             call[c].at = "hsMark"
      PROVE  /\ call'[d].at = "write" /\ Listed(d)' => initialized'[call'[d].inst]
             /\ call'[d].at = "queue" /\ ~call'[d].needs =>
                   initialized'[call'[d].inst]
             /\ call'[d].at \in Shaking => ~initialized'[call'[d].inst]
  <2>1. initialized' = [initialized EXCEPT ![call[c].inst] = @ \/ Listed(c)]
    BY <1>2 DEF HandshakeMark
  <2>2. /\ initialized[call[d].inst] => initialized'[call[d].inst]
        /\ call[d].inst # call[c].inst =>
              initialized'[call[d].inst] = initialized[call[d].inst]
    BY <2>1, <1>0
  <2>3. call[d].at \in Shaking => call[d].inst # call[c].inst
    BY <1>2, <1>l DEF Held, Shaking
  <2> QED BY <1>2, <1>h, <2>2, <2>3, StillListed
<1>3. ASSUME CallStep(d) \/ Timeout(d)
      PROVE  /\ call'[d].at = "write" /\ Listed(d)' => initialized'[call'[d].inst]
             /\ call'[d].at = "queue" /\ ~call'[d].needs =>
                   initialized'[call'[d].inst]
             /\ call'[d].at \in Shaking => ~initialized'[call'[d].inst]
  <2>1. call'[d].inst = call[d].inst /\ call[d].at # "idle"
    BY <1>3, CallStepEffect
  <2>2. HandshakeMark(d) /\ Listed(d)' => initialized'[call[d].inst]
    BY <2>1, <1>0, StillListed DEF HandshakeMark
  <2> QED BY <1>3, <2>1, <2>2, <1>h, CallStepTarget
<1>4. ASSUME NEW c \in Caller, c # d, CallStep(c) \/ Timeout(c)
      PROVE  /\ call'[d] = call[d]
             /\ initialized' = initialized \/ HandshakeMark(c)
  BY <1>4, CallStepEffect, CallStepChildren
<1>5. ASSUME NEW c \in Caller, NEW i \in Inst, Lookup(c, i)
      PROVE  /\ call'[d].at = "write" /\ Listed(d)' => initialized'[call'[d].inst]
             /\ call'[d].at = "queue" /\ ~call'[d].needs =>
                   initialized'[call'[d].inst]
             /\ call'[d].at \in Shaking => ~initialized'[call'[d].inst]
  <2>1. initialized' = initialized BY <1>5 DEF Lookup, childVars
  <2>2. CASE d # c BY <1>5, <2>1, <2>2, <1>1, LookupEffect
  <2>3. CASE d = c
    <3>1. /\ call'[d].at = "queue" /\ call'[d].inst = i
          /\ call'[d].needs = ~initialized[i]
      BY <1>5, <2>3, LookupEffect
    <3> QED BY <3>1, <2>1, <1>0 DEF Shaking
  <2> QED BY <2>2, <2>3
<1>6. Others => call'[d] = call[d] /\ initialized' = initialized
  BY OthersEffect DEF Others
<1>7. \A c \in Caller : HandshakeMark(c) => call[c].at = "hsMark"
  BY DEF HandshakeMark
<1> QED BY <1>1, <1>2, <1>3, <1>4, <1>5, <1>6, <1>7, BridgeNextCases

-----------------------------------------------------------------------------
(* Theorems *)

LEMMA BridgeInvInit == BridgeInit => BridgeInv
<1> SUFFICES ASSUME BridgeInit PROVE BridgeInv OBVIOUS
<1>1. NullHandle \in Handle BY BridgeAssumption DEF NullHandle
<1>2. (CHOOSE i \in Inst : TRUE) \in Inst BY BridgeAssumption
<1>3. IdleCall \in CallRecord
  BY <1>1, <1>2 DEF IdleCall, CallRecord, Steps
<1>4. \A c \in Caller : call[c].at = "idle" /\ call[c].id = 0
  BY DEF BridgeInit, IdleCall
<1>5. BridgeTypeOK
  BY <1>1, <1>3, <1>4 DEF BridgeInit, BridgeTypeOK
<1>6. Held BY <1>4 DEF Held, Locked
<1>7. OwnHandles BY <1>4 DEF OwnHandles
<1>8. HandlesApart BY DEF BridgeInit, HandlesApart
<1>9. Attributed BY DEF BridgeInit, Attributed
<1>10. ChunkAttributed BY <1>4 DEF ChunkAttributed
<1>11. HandshakeState BY <1>4 DEF HandshakeState
<1>12. Numbered BY <1>4 DEF BridgeInit, Numbered
<1> QED BY <1>5, <1>6, <1>7, <1>8, <1>9, <1>10, <1>11, <1>12 DEF BridgeInv

LEMMA BridgeInvStep == BridgeInv /\ [BridgeNext]_bridgeVars => BridgeInv'
<1>1. ASSUME BridgeInv, BridgeNext PROVE BridgeInv'
  BY <1>1, TypeStep, IdsStep, HeldStep, HandlesStep, AttributedStep,
     ChunkAttributedStep, HandshakeStep DEF BridgeInv
<1>2. ASSUME BridgeInv, UNCHANGED bridgeVars PROVE BridgeInv'
  BY <1>2 DEF BridgeInv, BridgeTypeOK, Held, OwnHandles, HandlesApart,
     Attributed, ChunkAttributed, HandshakeState, Numbered, Listed,
     bridgeVars, childVars, workerVars
<1> QED BY <1>1, <1>2

\* The invariant behind the properties of sendStdioJsonRpc.
THEOREM BridgeInvariant == BridgeSpec => []BridgeInv
  BY BridgeInvInit, BridgeInvStep, PTL DEF BridgeSpec

\* Every variable of the bridge keeps its type, and request ids are distinct.
THEOREM BridgeTypes == BridgeSpec => []BridgeTypeOK
<1>1. BridgeInv => BridgeTypeOK BY DEF BridgeInv
<1> QED BY <1>1, BridgeInvariant, PTL

\* sendStdioJsonRpc succeeds only with a line of its own worker, although the
\* handles it reads through may have been closed and reopened meanwhile.
THEOREM RepliesAreOwn == BridgeSpec => SuccessIsOwnReply
<1>1. ASSUME BridgeInv
      PROVE  \A c \in Caller : Succeed(c) =>
                Matching(c, << call[c].inst, call[c].id >>)
                  \subseteq [by : {call[c].inst}, msg : Message]
  <2> SUFFICES ASSUME NEW c \in Caller, Succeed(c),
                      NEW l \in Matching(c, << call[c].inst, call[c].id >>)
               PROVE  l \in [by : {call[c].inst}, msg : Message]
    OBVIOUS
  <2>1. /\ call[c].inst \in Inst
        /\ buffer[call[c].inst] \in SUBSET Line
        /\ call[c].chunk \in SUBSET Line
    BY <1>1 DEF BridgeInv, BridgeTypeOK, CallRecord
  <2>2. l \in buffer[call[c].inst] \cup call[c].chunk BY DEF Matching
  <2>3. l.by = call[c].inst
    BY <1>1, <2>1, <2>2 DEF BridgeInv, Attributed, ChunkAttributed, Succeed
  <2>4. l \in Line BY <2>1, <2>2
  <2> QED BY <2>3, <2>4 DEF Line
<1> QED BY <1>1, BridgeInvariant, PTL DEF SuccessIsOwnReply

\* No request of a call reaches its worker before the handshake is complete.
THEOREM HandshakeIsFirst == BridgeSpec => HandshakeComesFirst
<1>1. ASSUME BridgeInv, BridgeNext, NEW i \in Inst, NEW n \in 1..MaxRequest,
             << i, n >> \in toWorker'[i] \ toWorker[i]
      PROVE  initialized[i]
  <2>0. /\ BridgeTypeOK
        /\ << i, n >> \in Message
        /\ \A c \in Caller : call[c].inst \in Inst /\ call[c].id \in Nat
    BY <1>1 DEF BridgeInv, BridgeTypeOK, Message, CallRecord
  <2>1. ASSUME NEW c \in Caller, CallStep(c) \/ Timeout(c) PROVE initialized[i]
    <3>1. /\ i \in StdinOf(call[c].w)
          /\ WriteRequest(c)
          /\ i = call[c].inst
      BY <2>0, <2>1, <1>1, CallStepWrites
    <3> QED BY <3>1, <1>1 DEF BridgeInv, HandshakeState, StdinOf, Listed, WriteRequest
  <2>2. ASSUME NEW c \in Caller, NEW j \in Inst, Lookup(c, j) PROVE FALSE
    BY <2>2, <1>1 DEF Lookup, workerVars
  <2>3. ASSUME Others PROVE FALSE
    <3>1. toWorker \in [Inst -> SUBSET Message] BY <2>0 DEF BridgeTypeOK
    <3> QED BY <2>3, <3>1, <1>1 DEF Others, Spawn, Erase, EraseChild, WorkerReads,
          WorkerAnswers, WorkerExits
  <2> QED BY <2>1, <2>2, <2>3, <1>1, BridgeNextCases
<1>2. ASSUME BridgeInv, [BridgeNext]_bridgeVars
      PROVE  [\A i \in Inst, n \in 1..MaxRequest :
                << i, n >> \in toWorker'[i] \ toWorker[i] => initialized[i]]_bridgeVars
  BY <1>1, <1>2
<1> QED BY <1>2, BridgeInvariant, PTL DEF BridgeSpec, HandshakeComesFirst

\* A worker that completed the handshake is not sent initialize again.
THEOREM HandshakeHappensOnce == BridgeSpec => NoSecondHandshake
<1>1. ASSUME BridgeInv, BridgeNext, NEW i \in Inst,
             << i, 0 >> \in toWorker'[i] \ toWorker[i]
      PROVE  ~initialized[i]
  <2>0. /\ BridgeTypeOK
        /\ << i, 0 >> \in Message
        /\ \A c \in Caller : call[c].inst \in Inst /\ call[c].id \in Nat
    BY <1>1 DEF BridgeInv, BridgeTypeOK, Message, CallRecord
  <2>1. ASSUME NEW c \in Caller, CallStep(c) \/ Timeout(c) PROVE ~initialized[i]
    <3>1. call[c].id >= 1
      BY <2>1, <2>0, <1>1, CallStepEffect DEF BridgeInv, Numbered
    <3>2. HandshakeWrite(c) /\ i = call[c].inst
      BY <2>0, <2>1, <3>1, <1>1, CallStepWrites
    <3> QED BY <3>2, <1>1 DEF BridgeInv, HandshakeState, HandshakeWrite
  <2>2. ASSUME NEW c \in Caller, NEW j \in Inst, Lookup(c, j) PROVE FALSE
    BY <2>2, <1>1 DEF Lookup, workerVars
  <2>3. ASSUME Others PROVE FALSE
    <3>1. toWorker \in [Inst -> SUBSET Message] BY <2>0 DEF BridgeTypeOK
    <3> QED BY <2>3, <3>1, <1>1 DEF Others, Spawn, Erase, EraseChild, WorkerReads,
          WorkerAnswers, WorkerExits
  <2> QED BY <2>1, <2>2, <2>3, <1>1, BridgeNextCases
<1>2. ASSUME BridgeInv, [BridgeNext]_bridgeVars
      PROVE  [\A i \in Inst :
                << i, 0 >> \in toWorker'[i] \ toWorker[i] => ~initialized[i]]_bridgeVars
  BY <1>1, <1>2
<1> QED BY <1>2, BridgeInvariant, PTL DEF BridgeSpec, NoSecondHandshake

\* With any number of callers and workers the handshake is first, and only once.
THEOREM HandshakeIsOrderly == BridgeSpec => OneHandshakeFirst
  BY HandshakeIsFirst, HandshakeHappensOnce DEF OneHandshakeFirst
=============================================================================
