--------------------------- MODULE GovernanceProofs ---------------------------
(***************************************************************************)
(* Proofs about the approval queue (GovernanceApprovals) and the catalogs  *)
(* (EndpointCatalogs), for every value of the constants.                   *)
(***************************************************************************)
EXTENDS MCGovernance, TLAPS

-----------------------------------------------------------------------------
(* The inductive invariant of the approval queue *)

\* An operator inside approve() works on an action that it has claimed.
ClaimsStand ==
    \A o \in Operator : ~At(o, "idle") =>
        /\ approver[o].id \in ActionId
        /\ action[approver[o].id].status = "approved"

\* The executor has written for an action that is executed, or whose approval
\* is about to say so, and for no other.
RunsCounted ==
    \A i \in ActionId :
        runs[i] = IF \/ action[i].status = "executed"
                     \/ \E o \in Operator : At(o, "done") /\ approver[o].id = i
                  THEN 1 ELSE 0

\* What the file holds at each place of an approval.  A file that no write has
\* torn is whole except between the truncation and the write.
ProfileKnown ==
    /\ \A o \in Operator :
        /\ At(o, "write") => profile = Truncated
        /\ At(o, "done") => profile.doctrine = action[approver[o].id].payload
    /\ (\A o \in Operator : ~At(o, "write") /\ ~At(o, "done")) /\ (profile.whole \/ ~torn)
            => profile.doctrine = applied
    /\ ~torn /\ (\A o \in Operator : ~At(o, "write")) => profile.whole /\ profile.sections

\* The copy an approval writes back is a document, with its other sections if
\* no write has torn the file.
CopyKnown ==
    \A o \in Operator : At(o, "open") \/ At(o, "write") =>
        /\ approver[o].copy.whole
        /\ ~torn => approver[o].copy.sections

ApvInv == ApvTypeOK /\ ClaimsStand /\ RunsCounted /\ ProfileKnown /\ CopyKnown

-----------------------------------------------------------------------------
(* The approval queue *)

LEMMA ProfilesAreTyped ==
    /\ Truncated \in Profile /\ EmptyProfile \in Profile /\ ShippedProfile \in Profile
    /\ Waiting \in Approver
    /\ Unqueued \in ActionRecord
  BY ApprovalAssumption DEF Truncated, EmptyProfile, ShippedProfile, Profile, Waiting,
     Approver, Unqueued, ActionRecord, Status

\* The queue's lock is held by one operator at most, so two operators are never
\* inside approve() together.
LEMMA OneInside ==
    ASSUME ApvTypeOK, NEW o \in Operator, NEW q \in Operator, ~At(o, "idle"), ~At(q, "idle")
    PROVE  o = q
  BY DEF ApvTypeOK, At

\* The start of the process, and each restart, begin with an empty queue and
\* no approval under way.
LEMMA InitHolds == ApvInit => ApvInv
<1> SUFFICES ASSUME ApvInit PROVE ApvInv
  OBVIOUS
<1>1. \A o \in Operator : approver[o].pc = "idle"
  BY DEF ApvInit, Waiting
<1>2. ApvTypeOK
  <2>1. \A o \in Operator : approver[o].pc # "idle" <=> queueLock = o
    BY <1>1, ApprovalAssumption DEF ApvInit
  <2> QED
    BY <2>1, ProfilesAreTyped, ApprovalAssumption DEF ApvInit, ApvTypeOK
<1>3. ClaimsStand /\ CopyKnown
  BY <1>1 DEF ClaimsStand, CopyKnown, At
<1>4. RunsCounted
  BY <1>1 DEF RunsCounted, ApvInit, Unqueued, At
<1>5. ProfileKnown
  BY <1>1 DEF ProfileKnown, ApvInit, ShippedProfile, At
<1> QED
  BY <1>2, <1>3, <1>4, <1>5 DEF ApvInv

LEMMA RestartPreserves == ApvInv /\ Restart => ApvInv'
<1> SUFFICES ASSUME ApvInv, Restart PROVE ApvInv'
  OBVIOUS
<1> USE DEF ApvInv
<1>1. \A o \in Operator : approver'[o].pc = "idle"
  BY DEF Restart, Waiting
<1>2. ApvTypeOK'
  <2>1. \A o \in Operator : approver'[o].pc # "idle" <=> queueLock' = o
    BY <1>1, ApprovalAssumption DEF Restart
  <2>2. profile.doctrine \in Payload \cup {NoDoctrine} /\ profile.whole \in BOOLEAN
    BY DEF ApvTypeOK, Profile
  <2> QED
    BY <2>1, <2>2, ProfilesAreTyped, ApprovalAssumption DEF Restart, ApvTypeOK
<1>3. ClaimsStand' /\ CopyKnown'
  BY <1>1 DEF ClaimsStand, CopyKnown, At
<1>4. RunsCounted'
  BY <1>1 DEF RunsCounted, Restart, Unqueued, At
<1>5. ProfileKnown'
  <2>1. ~torn' => profile.whole /\ ~torn
    BY DEF Restart
  <2>2. ~torn' => profile.sections
    <3> SUFFICES ASSUME ~torn' PROVE profile.sections
      OBVIOUS
    <3>1. \A o \in Operator : ~At(o, "write")
      BY <2>1 DEF ProfileKnown, Truncated
    <3> QED
      BY <2>1, <3>1 DEF ProfileKnown
  <2> QED
    BY <1>1, <2>1, <2>2 DEF ProfileKnown, Restart, At
<1> QED
  BY <1>2, <1>3, <1>4, <1>5

\* Staging, rejecting and claiming change one action's record and nothing of
\* the profile.
LEMMA StagePreserves ==
    ASSUME ApvInv, NEW o \in Operator, NEW p \in Payload, Stage(o, p)
    PROVE  ApvInv'
<1> USE DEF ApvInv
<1>1. PICK i \in ActionId :
        /\ action[i].status = "none"
        /\ action' = [action EXCEPT ![i] = [status |-> "pending", payload |-> p]]
  BY DEF Stage
<1>2. ApvTypeOK'
  <2>1. [status |-> "pending", payload |-> p] \in ActionRecord
    BY DEF ActionRecord, Status
  <2> QED
    BY <1>1, <2>1 DEF ApvTypeOK, Stage
<1>3. \A q \in Operator : ~At(q, "idle") => approver[q].id # i
  BY <1>1 DEF ClaimsStand
<1>4. \A j \in ActionId \ {i} : action'[j] = action[j]
  BY <1>1 DEF ApvTypeOK
<1>5. action'[i].status = "pending"
  BY <1>1 DEF ApvTypeOK
<1>6. ClaimsStand' /\ CopyKnown'
  BY <1>3, <1>4 DEF ClaimsStand, CopyKnown, Stage, At
<1>7. RunsCounted'
  BY <1>1, <1>4, <1>5 DEF RunsCounted, Stage, At
<1>8. ProfileKnown'
  <2>1. \A q \in Operator : At(q, "done") => action'[approver[q].id] = action[approver[q].id]
    BY <1>3, <1>4 DEF ClaimsStand, At
  <2> QED
    BY <2>1 DEF ProfileKnown, Stage, At
<1> QED
  BY <1>2, <1>6, <1>7, <1>8

LEMMA RejectPreserves ==
    ASSUME ApvInv, NEW o \in Operator, NEW i \in ActionId, Reject(o, i)
    PROVE  ApvInv'
<1> USE DEF ApvInv
<1>1. /\ action[i].status = "pending"
      /\ action' = [action EXCEPT ![i].status = "rejected"]
  BY DEF Reject
<1>2. ApvTypeOK'
  BY <1>1 DEF ApvTypeOK, Reject, ActionRecord, Status
<1>3. \A q \in Operator : ~At(q, "idle") => approver[q].id # i
  BY <1>1 DEF ClaimsStand
<1>4. \A j \in ActionId \ {i} : action'[j] = action[j]
  BY <1>1 DEF ApvTypeOK
<1>5. action'[i].status = "rejected"
  BY <1>1 DEF ApvTypeOK, ActionRecord
<1>6. ClaimsStand' /\ CopyKnown'
  BY <1>3, <1>4 DEF ClaimsStand, CopyKnown, Reject, At
<1>7. RunsCounted'
  BY <1>1, <1>4, <1>5 DEF RunsCounted, Reject, At
<1>8. ProfileKnown'
  <2>1. \A q \in Operator : At(q, "done") => action'[approver[q].id] = action[approver[q].id]
    BY <1>3, <1>4 DEF ClaimsStand, At
  <2> QED
    BY <2>1 DEF ProfileKnown, Reject, At
<1> QED
  BY <1>2, <1>6, <1>7, <1>8

LEMMA ClaimPreserves ==
    ASSUME ApvInv, NEW o \in Operator, NEW i \in ActionId, Claim(o, i)
    PROVE  ApvInv'
<1> USE DEF ApvInv
<1>1. /\ queueLock = NoOperator /\ approver[o].pc = "idle"
      /\ action[i].status = "pending"
      /\ action' = [action EXCEPT ![i].status = "approved"]
      /\ queueLock' = o
      /\ approver' = [approver EXCEPT ![o] = [Waiting EXCEPT !.pc = "load", !.id = i]]
      /\ UNCHANGED << profile, runs, applied, torn, doctrineInForce >>
  BY DEF Claim, Free
<1>2. /\ approver'[o].pc = "load" /\ approver'[o].id = i
      /\ \A q \in Operator \ {o} : approver'[q] = approver[q]
  BY <1>1 DEF ApvTypeOK, Waiting
<1>3. \A q \in Operator : approver[q].pc = "idle"
  BY <1>1, ApprovalAssumption DEF ApvTypeOK
<1>4. \A q \in Operator : approver'[q].pc # "idle" <=> q = o
  BY <1>2, <1>3
<1>5. /\ action'[i].status = "approved"
      /\ \A j \in ActionId \ {i} : action'[j] = action[j]
  BY <1>1 DEF ApvTypeOK, ActionRecord
<1>6. ApvTypeOK'
  <2>1. [Waiting EXCEPT !.pc = "load", !.id = i] \in Approver
    <3>1. EmptyProfile \in Profile /\ i \in 0 .. MaxActions
      BY ProfilesAreTyped, ApprovalAssumption DEF ActionId
    <3> QED
      BY <3>1 DEF Waiting, Approver
  <2>2. approver' \in [Operator -> Approver]
    BY <1>1, <2>1 DEF ApvTypeOK
  <2>3. action' \in [ActionId -> ActionRecord]
    BY <1>1 DEF ApvTypeOK, ActionRecord, Status
  <2> QED
    BY <1>1, <1>4, <2>2, <2>3 DEF ApvTypeOK
<1>7. ClaimsStand' /\ CopyKnown'
  BY <1>2, <1>4, <1>5 DEF ClaimsStand, CopyKnown, At
<1>8. RunsCounted'
  BY <1>1, <1>2, <1>3, <1>4, <1>5 DEF RunsCounted, At
<1>9. ProfileKnown'
  BY <1>1, <1>2, <1>3, <1>4 DEF ProfileKnown, At
<1> QED
  BY <1>6, <1>7, <1>8, <1>9

LEMMA LoadPreserves ==
    ASSUME ApvInv, NEW o \in Operator, Load(o)
    PROVE  ApvInv'
<1> USE DEF ApvInv
<1>1. /\ approver[o].pc = "load"
      /\ UNCHANGED << action, queueLock, profile, runs, applied, torn, doctrineInForce >>
  BY DEF Load, At
<1>2. /\ approver'[o].pc = "open"
      /\ approver'[o].id = approver[o].id
      /\ approver'[o].copy = IF profile.whole THEN profile ELSE EmptyProfile
      /\ \A q \in Operator \ {o} : approver'[q] = approver[q]
  BY DEF Load, ApvTypeOK, Approver
<1>3. \A q \in Operator \ {o} : approver[q].pc = "idle"
  BY <1>1, OneInside DEF At
<1>4. ApvTypeOK'
  <2>1. approver' \in [Operator -> Approver]
    BY ProfilesAreTyped DEF Load, ApvTypeOK, Approver
  <2> QED
    BY <1>1, <1>2, <2>1 DEF ApvTypeOK
<1>5. ClaimsStand'
  BY <1>1, <1>2, <1>3 DEF ClaimsStand, At
<1>6. RunsCounted'
  BY <1>1, <1>2, <1>3 DEF RunsCounted, At
<1>7. ProfileKnown'
  BY <1>1, <1>2, <1>3 DEF ProfileKnown, At
<1>8. CopyKnown'
  <2>1. \A q \in Operator : ~At(q, "write")
    BY <1>1, <1>3 DEF At
  <2>2. ~torn => profile.whole /\ profile.sections
    BY <2>1 DEF ProfileKnown
  <2> QED
    BY <1>1, <1>2, <1>3, <2>2 DEF CopyKnown, At, EmptyProfile
<1> QED
  BY <1>4, <1>5, <1>6, <1>7, <1>8

LEMMA OpenPreserves ==
    ASSUME ApvInv, NEW o \in Operator, Open(o)
    PROVE  ApvInv'
<1> USE DEF ApvInv
<1>1. /\ approver[o].pc = "open"
      /\ UNCHANGED << action, queueLock, runs, applied, torn, doctrineInForce >>
  BY DEF Open, At
<1>2. /\ \/ approver'[o].pc = "write" /\ profile' = Truncated
         \/ approver'[o].pc = "failed" /\ profile' = profile
      /\ approver'[o].id = approver[o].id
      /\ approver'[o].copy = approver[o].copy
      /\ \A q \in Operator \ {o} : approver'[q] = approver[q]
  BY DEF Open, ApvTypeOK, Approver
<1>3. \A q \in Operator \ {o} : approver[q].pc = "idle"
  BY <1>1, OneInside DEF At
<1>4. ApvTypeOK'
  <2>1. approver' \in [Operator -> Approver]
    BY DEF Open, ApvTypeOK, Approver
  <2> QED
    BY <1>1, <1>2, <2>1, ProfilesAreTyped DEF ApvTypeOK
<1>5. ClaimsStand' /\ CopyKnown'
  BY <1>1, <1>2, <1>3 DEF ClaimsStand, CopyKnown, At
<1>6. RunsCounted'
  BY <1>1, <1>2, <1>3 DEF RunsCounted, At
<1>7. ProfileKnown'
  <2>1. CASE approver'[o].pc = "write" /\ profile' = Truncated
    BY <1>1, <1>2, <1>3, <2>1 DEF ProfileKnown, At
  <2>2. CASE approver'[o].pc = "failed" /\ profile' = profile
    BY <1>1, <1>2, <1>3, <2>2 DEF ProfileKnown, At
  <2> QED
    BY <1>2, <2>1, <2>2
<1> QED
  BY <1>4, <1>5, <1>6, <1>7

LEMMA WritePreserves ==
    ASSUME ApvInv, NEW o \in Operator, Write(o)
    PROVE  ApvInv'
<1> DEFINE i == approver[o].id
           Written == [approver[o].copy EXCEPT !.doctrine = action[i].payload]
<1> USE DEF ApvInv
<1>1. /\ approver[o].pc = "write"
      /\ UNCHANGED << action, queueLock, applied, doctrineInForce >>
  BY DEF Write, At
<1>2. /\ approver'[o].id = i
      /\ approver'[o].pc \in {"done", "failed"}
      /\ \A q \in Operator \ {o} : approver'[q] = approver[q]
  BY DEF Write, ApvTypeOK, Approver
<1>3. \A q \in Operator \ {o} : approver[q].pc = "idle"
  BY <1>1, OneInside DEF At
<1>4. i \in ActionId /\ action[i].status = "approved" /\ runs[i] = 0
  BY <1>1, <1>3 DEF ClaimsStand, RunsCounted, At
<1>5. approver[o].copy \in Profile /\ action[i].payload \in Payload \cup {NoDoctrine}
  BY <1>4 DEF ApvTypeOK, Approver, ActionRecord
<1>6. /\ Written \in Profile
      /\ Written.doctrine = action[i].payload
      /\ Written.whole
      /\ ~torn => Written.sections
  BY <1>1, <1>5 DEF CopyKnown, At, Profile
<1>7. \/ /\ approver'[o].pc = "done" /\ torn' = torn
         /\ profile' = Written /\ runs' = [runs EXCEPT ![i] = 1]
      \/ /\ approver'[o].pc = "failed" /\ torn' = TRUE
         /\ profile' = profile /\ runs' = runs
  BY <1>4 DEF Write, ApvTypeOK, Approver
<1>8. ApvTypeOK'
  <2>1. approver' \in [Operator -> Approver]
    BY DEF Write, ApvTypeOK, Approver
  <2>2. runs' \in [ActionId -> Nat]
    BY <1>7 DEF ApvTypeOK
  <2>3. profile' \in Profile
    <3> HIDE DEF Written
    <3> QED
      BY <1>6, <1>7 DEF ApvTypeOK
  <2>4. torn' \in BOOLEAN
    BY <1>7, Zenon DEF ApvTypeOK
  <2> QED
    BY <1>1, <1>2, <2>1, <2>2, <2>3, <2>4 DEF ApvTypeOK
<1>9. ClaimsStand' /\ CopyKnown'
  BY <1>1, <1>2, <1>3, <1>4 DEF ClaimsStand, CopyKnown, At
<1>10. RunsCounted'
  <2>1. \A j \in ActionId \ {i} : runs'[j] = runs[j]
    BY <1>7 DEF ApvTypeOK
  <2>2. runs'[i] = IF approver'[o].pc = "done" THEN 1 ELSE 0
    BY <1>4, <1>7 DEF ApvTypeOK
  <2>3. \A j \in ActionId : (\E q \in Operator : At(q, "done") /\ approver[q].id = j)'
                            <=> j = i /\ approver'[o].pc = "done"
    BY <1>2, <1>3 DEF At
  <2>4. \A j \in ActionId : ~ \E q \in Operator : At(q, "done") /\ approver[q].id = j
    BY <1>1, <1>3 DEF At
  <2> QED
    BY <1>1, <1>4, <2>1, <2>2, <2>3, <2>4 DEF RunsCounted
<1>11. ProfileKnown'
  <2>1. CASE approver'[o].pc = "done"
    BY <1>1, <1>2, <1>3, <1>6, <1>7, <2>1 DEF ProfileKnown, At
  <2>2. CASE approver'[o].pc = "failed"
    <3>1. profile' = Truncated /\ torn'
      BY <1>1, <1>7, <2>2 DEF ProfileKnown, At
    <3> QED
      BY <1>1, <1>2, <1>3, <2>2, <3>1 DEF ProfileKnown, At, Truncated
  <2> QED
    BY <1>2, <2>1, <2>2
<1> QED
  BY <1>8, <1>9, <1>10, <1>11

LEMMA FinishPreserves ==
    ASSUME ApvInv, NEW o \in Operator, Finish(o)
    PROVE  ApvInv'
<1> DEFINE i == approver[o].id
           Outcome == IF At(o, "done") THEN "executed" ELSE "execute-failed"
<1> USE DEF ApvInv
<1>1. /\ approver[o].pc \in {"done", "failed"}
      /\ action' = [action EXCEPT ![i].status = Outcome]
      /\ applied' = IF At(o, "done") THEN action[i].payload ELSE applied
      /\ queueLock' = NoOperator
      /\ approver' = [approver EXCEPT ![o] = Waiting]
      /\ UNCHANGED << profile, runs, torn, doctrineInForce >>
  BY DEF Finish
<1>2. \A q \in Operator \ {o} : approver[q].pc = "idle"
  BY <1>1, OneInside DEF At
<1>3. \A q \in Operator : approver'[q].pc = "idle"
  BY <1>1, <1>2 DEF ApvTypeOK, Waiting
<1>4. i \in ActionId /\ action[i].status = "approved"
  BY <1>1 DEF ClaimsStand, At
<1>5. /\ action'[i].status = Outcome
      /\ \A j \in ActionId \ {i} : action'[j] = action[j]
  BY <1>1, <1>4 DEF ApvTypeOK, ActionRecord
<1>6. ApvTypeOK'
  <2>1. action' \in [ActionId -> ActionRecord]
    BY <1>1, <1>4 DEF ApvTypeOK, ActionRecord, Status
  <2>2. applied' \in Payload \cup {NoDoctrine}
    BY <1>1, <1>4 DEF ApvTypeOK, ActionRecord
  <2>3. approver' \in [Operator -> Approver]
    BY <1>1, ProfilesAreTyped DEF ApvTypeOK
  <2>4. \A q \in Operator : approver'[q].pc # "idle" <=> queueLock' = q
    BY <1>1, <1>3, ApprovalAssumption
  <2> QED
    BY <1>1, <2>1, <2>2, <2>3, <2>4 DEF ApvTypeOK
<1>7. ClaimsStand' /\ CopyKnown'
  BY <1>3 DEF ClaimsStand, CopyKnown, At
<1>8. RunsCounted'
  <2>1. \A j \in ActionId : (\E q \in Operator : At(q, "done") /\ approver[q].id = j)
                            <=> j = i /\ At(o, "done")
    BY <1>2 DEF At
  <2>2. ~ (\E q \in Operator : At(q, "done"))'
    BY <1>3 DEF At
  <2>3. runs'[i] = IF At(o, "done") THEN 1 ELSE 0
    BY <1>1, <1>4, <2>1 DEF RunsCounted
  <2>4. Outcome = "executed" <=> At(o, "done")
    OBVIOUS
  <2> QED
    BY <1>1, <1>4, <1>5, <2>1, <2>2, <2>3, <2>4 DEF RunsCounted
<1>9. ProfileKnown'
  <2>1. (profile.whole \/ ~torn) => profile.doctrine = applied'
    BY <1>1, <1>2 DEF ProfileKnown, At
  <2>2. ~torn => profile.whole /\ profile.sections
    BY <1>1, <1>2 DEF ProfileKnown, At
  <2> QED
    BY <1>1, <1>3, <2>1, <2>2 DEF ProfileKnown, At
<1> QED
  BY <1>6, <1>7, <1>8, <1>9

LEMMA StutterPreserves == ApvInv /\ UNCHANGED apvVars => ApvInv'
  BY DEF ApvInv, ApvTypeOK, ClaimsStand, RunsCounted, ProfileKnown, CopyKnown, apvVars, At

LEMMA StepPreserves == ApvInv /\ [ApvNext]_apvVars => ApvInv'
<1> SUFFICES ASSUME ApvInv, ApvNext PROVE ApvInv'
  BY StutterPreserves
<1>1. CASE Restart
  BY <1>1, RestartPreserves
<1>2. ASSUME NEW o \in Operator, NEW p \in Payload, Stage(o, p) PROVE ApvInv'
  BY <1>2, StagePreserves
<1>3. ASSUME NEW o \in Operator, NEW i \in ActionId, Reject(o, i) \/ Claim(o, i) PROVE ApvInv'
  BY <1>3, RejectPreserves, ClaimPreserves
<1>4. ASSUME NEW o \in Operator, Proceed(o) PROVE ApvInv'
  BY <1>4, LoadPreserves, OpenPreserves, WritePreserves, FinishPreserves DEF Proceed
<1> QED
  BY <1>1, <1>2, <1>3, <1>4 DEF ApvNext

\* What the invariant says of the three promises of the queue.
LEMMA InvariantImpliesExact == ApvInv => ApprovalsAreExact
<1> SUFFICES ASSUME ApvInv PROVE ApprovalsAreExact
  OBVIOUS
<1> USE DEF ApvInv
<1>1. AppliedExactlyOnce
  <2> SUFFICES ASSUME NEW i \in ActionId
               PROVE  /\ runs[i] <= 1
                      /\ action[i].status = "executed" => runs[i] = 1
                      /\ action[i].status \in {"none", "pending", "rejected", "execute-failed"}
                            => runs[i] = 0
    BY DEF AppliedExactlyOnce
  <2>1. (\E o \in Operator : At(o, "done") /\ approver[o].id = i)
            => action[i].status = "approved"
    BY DEF ClaimsStand, At
  <2> QED
    BY <2>1 DEF RunsCounted
<1>2. ProfileHoldsLastExecuted
  <2>1. queueLock = NoOperator => \A o \in Operator : approver[o].pc = "idle"
    BY ApprovalAssumption DEF ApvTypeOK
  <2> QED
    BY <2>1 DEF ProfileHoldsLastExecuted, ProfileKnown, At
<1>3. SectionsOutliveApprovals
  <2>1. ASSUME NEW o \in Operator, At(o, "write") PROVE profile.whole = FALSE
    BY <2>1 DEF ProfileKnown, Truncated
  <2> QED
    BY <2>1 DEF SectionsOutliveApprovals, ProfileKnown
<1> QED
  BY <1>1, <1>2, <1>3 DEF ApprovalsAreExact

-----------------------------------------------------------------------------
(* The catalogs *)

\* A group that is about to be written has a member that was found.
CollectedMembers ==
    \A c \in Caller : Applying(c, "upsertGroup") => request[c].members # {}

CatInv == ECTypeOK /\ CatalogsConsistent /\ CollectedMembers

\* What a step of a request or of the inventory leaves as it was when it does
\* not write the document.
LEMMA CatalogsUntouched ==
    ASSUME CatInv, ECTypeOK', CollectedMembers', UNCHANGED endpointVars
    PROVE  CatInv'
  BY DEF CatInv, CatalogsConsistent, NoEmptyGroup, SeededEndpointsStay, CatalogsOnDisk,
     endpointVars

LEMMA RequestsAreTyped ==
    /\ NoRequest \in Request /\ NoRequest.op = "none" /\ NoRequest.pc = "idle"
    /\ NoGroup \in Group
    /\ Seeded \in [Id -> Kind] /\ Ungrouped \in [Id -> Group]
<1>1. (CHOOSE i \in Id : TRUE) \in Id
  BY CatalogAssumption
<1>2. NoGroup \in Group
  BY DEF NoGroup, Group
<1> QED
  BY <1>1, <1>2 DEF NoRequest, Request, Seeded, Ungrouped, Kind

\* What answering or advancing a request does to the requests.
LEMMA AnswerKeepsRequests ==
    ASSUME ECTypeOK, CollectedMembers, NEW c \in Caller, Answer(c)
    PROVE  /\ request' \in [Caller -> Request]
           /\ \A d \in Caller : request'[d].op = "none" <=> request'[d].pc = "idle"
           /\ CollectedMembers'
<1>1. \A d \in Caller : request'[d] = IF d = c THEN NoRequest ELSE request[d]
  BY DEF Answer, ECTypeOK
<1>2. request' \in [Caller -> Request]
  BY RequestsAreTyped DEF Answer, ECTypeOK
<1>3. \A d \in Caller : request'[d].op = "none" <=> request'[d].pc = "idle"
  BY <1>1, RequestsAreTyped DEF ECTypeOK
<1>4. CollectedMembers'
  BY <1>1, RequestsAreTyped DEF CollectedMembers, Applying
<1> QED
  BY <1>2, <1>3, <1>4

LEMMA AdvanceKeepsRequests ==
    ASSUME ECTypeOK, CollectedMembers, NEW c \in Caller, request[c].pc # "idle",
           NEW pc \in {"promote", "unpool"}, Then(c, pc)
    PROVE  /\ request' \in [Caller -> Request]
           /\ \A d \in Caller : request'[d].op = "none" <=> request'[d].pc = "idle"
           /\ CollectedMembers'
<1>1. /\ request'[c].pc = pc /\ request'[c].op = request[c].op
      /\ \A d \in Caller \ {c} : request'[d] = request[d]
  BY DEF Then, ECTypeOK, Request
<1>2. request' \in [Caller -> Request]
  BY DEF Then, ECTypeOK, Request
<1>3. \A d \in Caller : request'[d].op = "none" <=> request'[d].pc = "idle"
  BY <1>1 DEF ECTypeOK
<1>4. CollectedMembers'
  BY <1>1 DEF CollectedMembers, Applying
<1> QED
  BY <1>2, <1>3, <1>4

\* A service that changed the catalogs, wrote the document and answered or
\* advanced the request keeps the invariant.
LEMMA WritePreservesCatalogs ==
    ASSUME CatInv, NEW ok \in BOOLEAN, WriteDocument(ok),
           kindOf' \in [Id -> Kind], group' \in [Id -> Group],
           NoEmptyGroup', SeededEndpointsStay',
           RefreshAsync \/ UNCHANGED refresh,
           request' \in [Caller -> Request],
           \A d \in Caller : request'[d].op = "none" <=> request'[d].pc = "idle",
           CollectedMembers',
           UNCHANGED << promoted, inventory, blocked, requests >>
    PROVE  CatInv'
<1>1. written' \in BOOLEAN
  BY DEF WriteDocument
<1>2. onDisk' \in [kindOf : [Id -> Kind], group : [Id -> Group]]
  BY DEF WriteDocument, CatInv, ECTypeOK
<1>3. refresh' \in [pc : {"none", "spawned", "probing", "published"}, copy : [Id -> Kind]]
  BY DEF RefreshAsync, CatInv, ECTypeOK
<1>4. CatalogsOnDisk'
  BY DEF WriteDocument, CatalogsOnDisk
<1> QED
  BY <1>1, <1>2, <1>3, <1>4 DEF CatInv, ECTypeOK, CatalogsConsistent

LEMMA UpsertSubAgentPreserves ==
    ASSUME CatInv, NEW c \in Caller, NEW ok \in BOOLEAN, UpsertSubAgent(c, ok)
    PROVE  CatInv'
<1> USE DEF CatInv
<1>1. request[c].id \in Id /\ kindOf[request[c].id] # "seeded" /\ request[c].pc # "idle"
  BY DEF UpsertSubAgent, Applying, AgentRefused, ECTypeOK, Request
<1>2. kindOf' \in [Id -> Kind] /\ group' \in [Id -> Group]
  BY DEF UpsertSubAgent, ECTypeOK, Kind
<1>3. NoEmptyGroup' /\ SeededEndpointsStay'
  BY <1>1, CatalogAssumption DEF UpsertSubAgent, CatalogsConsistent, NoEmptyGroup,
     SeededEndpointsStay, ECTypeOK
<1>4. /\ request' \in [Caller -> Request]
      /\ \A d \in Caller : request'[d].op = "none" <=> request'[d].pc = "idle"
      /\ CollectedMembers'
  BY <1>1, AnswerKeepsRequests, AdvanceKeepsRequests DEF UpsertSubAgent
<1> QED
  BY <1>2, <1>3, <1>4, WritePreservesCatalogs DEF UpsertSubAgent

LEMMA RemoveSubAgentPreserves ==
    ASSUME CatInv, NEW c \in Caller, NEW ok \in BOOLEAN, RemoveSubAgent(c, ok)
    PROVE  CatInv'
<1> DEFINE i == request[c].id
<1> USE DEF CatInv
<1>1. i \in Id /\ kindOf[i] # "seeded" /\ request[c].pc # "idle"
  BY DEF RemoveSubAgent, Applying, ECTypeOK, Request
<1>2. \A g \in Id : Without(group[g], i) \in Group
  BY RequestsAreTyped DEF Without, ECTypeOK, Group
<1>3. kindOf' \in [Id -> Kind] /\ group' \in [Id -> Group]
  BY <1>2 DEF RemoveSubAgent, ECTypeOK, Kind
<1>4. NoEmptyGroup'
  <2> SUFFICES ASSUME NEW g \in Id, Without(group[g], i).present
               PROVE  Without(group[g], i).members # {}
    BY DEF NoEmptyGroup, RemoveSubAgent
  <2>1. group[g] \in Group
    BY DEF ECTypeOK
  <2>2. ~(group[g].members \subseteq {i})
    BY DEF Without, NoGroup
  <2>3. Without(group[g], i).members = group[g].members \ {i}
    BY <2>1, <2>2 DEF Without, Group
  <2> QED
    BY <2>2, <2>3
<1>5. SeededEndpointsStay'
  BY <1>1, CatalogAssumption DEF RemoveSubAgent, CatalogsConsistent, SeededEndpointsStay,
     ECTypeOK
<1>6. /\ request' \in [Caller -> Request]
      /\ \A d \in Caller : request'[d].op = "none" <=> request'[d].pc = "idle"
      /\ CollectedMembers'
  BY <1>1, AnswerKeepsRequests, AdvanceKeepsRequests DEF RemoveSubAgent
<1> QED
  BY <1>3, <1>4, <1>5, <1>6, WritePreservesCatalogs DEF RemoveSubAgent

LEMMA McpServerPreserves ==
    ASSUME CatInv, NEW c \in Caller, NEW ok \in BOOLEAN,
           UpsertMcpServer(c, ok) \/ RemoveMcpServer(c, ok)
    PROVE  CatInv'
<1> USE DEF CatInv
<1>1. request[c].id \in Id /\ kindOf[request[c].id] # "seeded"
  BY DEF UpsertMcpServer, RemoveMcpServer, ECTypeOK, Request
<1>2. kindOf' \in [Id -> Kind] /\ group' \in [Id -> Group]
  BY DEF UpsertMcpServer, RemoveMcpServer, ECTypeOK, Kind
<1>3. NoEmptyGroup' /\ SeededEndpointsStay'
  BY <1>1, CatalogAssumption DEF UpsertMcpServer, RemoveMcpServer, CatalogsConsistent,
     NoEmptyGroup, SeededEndpointsStay, ECTypeOK
<1>4. /\ request' \in [Caller -> Request]
      /\ \A d \in Caller : request'[d].op = "none" <=> request'[d].pc = "idle"
      /\ CollectedMembers'
  BY AnswerKeepsRequests DEF UpsertMcpServer, RemoveMcpServer
<1> QED
  BY <1>2, <1>3, <1>4, WritePreservesCatalogs DEF UpsertMcpServer, RemoveMcpServer

LEMMA GroupPreserves ==
    ASSUME CatInv, NEW c \in Caller, NEW ok \in BOOLEAN,
           UpsertGroup(c, ok) \/ RemoveGroup(c, ok)
    PROVE  CatInv'
<1> USE DEF CatInv
<1>1. request[c].id \in Id /\ request[c].members \in SUBSET Id
  BY DEF ECTypeOK, Request
<1>2. kindOf' = kindOf
  BY DEF UpsertGroup, RemoveGroup
<1>3. group' \in [Id -> Group] /\ NoEmptyGroup'
  <2>1. CASE UpsertGroup(c, ok)
    <3>1. request[c].members # {}
      BY <2>1 DEF UpsertGroup, CollectedMembers
    <3> QED
      BY <1>1, <2>1, <3>1 DEF UpsertGroup, ECTypeOK, Group, NoEmptyGroup, CatalogsConsistent
  <2>2. CASE RemoveGroup(c, ok)
    BY <1>1, <2>2, RequestsAreTyped DEF RemoveGroup, ECTypeOK, NoGroup, NoEmptyGroup,
       CatalogsConsistent
  <2> QED
    BY <2>1, <2>2
<1>4. SeededEndpointsStay'
  BY <1>2 DEF SeededEndpointsStay, CatalogsConsistent
<1>5. /\ request' \in [Caller -> Request]
      /\ \A d \in Caller : request'[d].op = "none" <=> request'[d].pc = "idle"
      /\ CollectedMembers'
  BY AnswerKeepsRequests DEF UpsertGroup, RemoveGroup
<1>6. kindOf' \in [Id -> Kind]
  BY <1>2 DEF ECTypeOK
<1> QED
  BY <1>3, <1>4, <1>5, <1>6, WritePreservesCatalogs DEF UpsertGroup, RemoveGroup

LEMMA BeginPreserves ==
    ASSUME CatInv, NEW c \in Caller, NEW op \in CatOps, NEW i \in Id,
           NEW padded \in BOOLEAN, NEW command \in BOOLEAN, NEW ms \in SUBSET Id,
           Begin(c, op, i, padded, command, ms)
    PROVE  CatInv'
<1> DEFINE r == [pc |-> IF op = "upsertGroup" THEN "collect" ELSE "apply", op |-> op,
                 id |-> i, padded |-> padded, command |-> command, members |-> ms,
                 underBlock |-> blocked]
<1> USE DEF CatInv
<1>1. request' = [request EXCEPT ![c] = r] /\ op # "none"
  BY CatalogAssumption DEF Begin, AllCatOps
<1>2. r \in Request
  BY DEF Request, ECTypeOK
<1>3. ECTypeOK'
  <2>1. request' \in [Caller -> Request]
    BY <1>1, <1>2 DEF ECTypeOK
  <2>2. \A d \in Caller : request'[d].op = "none" <=> request'[d].pc = "idle"
    BY <1>1 DEF ECTypeOK
  <2>3. requests' \in 0 .. CatRequests
    BY CatalogAssumption DEF Begin, ECTypeOK
  <2> QED
    BY <2>1, <2>2, <2>3 DEF ECTypeOK, Begin, endpointVars
<1>4. CollectedMembers'
  BY <1>1 DEF CollectedMembers, Applying, ECTypeOK
<1> QED
  BY <1>3, <1>4, CatalogsUntouched DEF Begin

\* The steps of a request that do not write the document.
LEMMA AnswersPreserve ==
    ASSUME CatInv, NEW c \in Caller,
           CollectMembers(c) \/ Refuse(c) \/ Promote(c) \/ Unpool(c)
    PROVE  CatInv'
<1> USE DEF CatInv
<1>1. /\ UNCHANGED << endpointVars, inventory, refresh, blocked, requests >>
      /\ promoted' \in SUBSET Id
  BY DEF CollectMembers, Refuse, Promote, Unpool, ECTypeOK, Request
<1>2. CASE Answer(c)
  <2>1. ECTypeOK' /\ CollectedMembers'
    BY <1>1, <1>2, AnswerKeepsRequests DEF ECTypeOK, endpointVars
  <2> QED
    BY <1>1, <2>1, CatalogsUntouched
<1>3. CASE ~Answer(c)
  <2> DEFINE ms == request[c].members \cap Agents
  <2>1. /\ request[c].pc = "collect" /\ ms # {}
        /\ request' = [request EXCEPT ![c].pc = "apply", ![c].members = ms]
    BY <1>3 DEF CollectMembers, Refuse, Promote, Unpool
  <2>2. ms \in SUBSET Id
    BY DEF ECTypeOK, Request
  <2>3. request' \in [Caller -> Request]
    <3>1. request[c] \in Request
      BY DEF ECTypeOK
    <3>2. [request[c] EXCEPT !.pc = "apply", !.members = ms] \in Request
      <4> HIDE DEF ms
      <4> QED
        BY <2>2, <3>1 DEF Request
    <3>3. request' = [request EXCEPT ![c] = [request[c] EXCEPT !.pc = "apply", !.members = ms]]
      <4> HIDE DEF ms
      <4> QED
        BY <2>1 DEF ECTypeOK
    <3> QED
      BY <3>2, <3>3 DEF ECTypeOK
  <2>4. /\ request'[c].pc = "apply" /\ request'[c].op = request[c].op
        /\ request'[c].members = ms
        /\ \A d \in Caller \ {c} : request'[d] = request[d]
    BY <2>1 DEF ECTypeOK, Request
  <2>5. \A d \in Caller : request'[d].op = "none" <=> request'[d].pc = "idle"
    BY <2>1, <2>4 DEF ECTypeOK
  <2>6. ECTypeOK'
    BY <1>1, <2>3, <2>5 DEF ECTypeOK, endpointVars
  <2>7. CollectedMembers'
    BY <2>1, <2>4 DEF CollectedMembers, Applying
  <2> QED
    BY <1>1, <2>6, <2>7, CatalogsUntouched
<1> QED
  BY <1>2, <1>3

\* The posture, and the inventory and its refresh, touch neither the catalogs
\* nor the requests.
LEMMA InventoryPreserves ==
    ASSUME CatInv, ChangeEnvelope \/ DashboardPoll \/ Refreshing
    PROVE  CatInv'
<1> USE DEF CatInv
<1>1. UNCHANGED << endpointVars, promoted, request >>
  BY DEF ChangeEnvelope, DashboardPoll, Refreshing, CopyEndpoints, PublishInventory, ClearPending
<1>2. /\ refresh' \in [pc : {"none", "spawned", "probing", "published"}, copy : [Id -> Kind]]
      /\ inventory' \in [Id -> Kind]
  BY DEF ChangeEnvelope, DashboardPoll, RefreshAsync, Refreshing, CopyEndpoints,
     PublishInventory, ClearPending, ECTypeOK
<1>3. blocked' \in BOOLEAN
  BY DEF ChangeEnvelope, DashboardPoll, Refreshing, CopyEndpoints, PublishInventory,
     ClearPending, ECTypeOK
<1>4. requests' \in 0 .. CatRequests
  BY CatalogAssumption DEF ChangeEnvelope, DashboardPoll, Refreshing, CopyEndpoints,
     PublishInventory, ClearPending, ECTypeOK
<1>5. ECTypeOK' /\ CollectedMembers'
  BY <1>1, <1>2, <1>3, <1>4 DEF ECTypeOK, endpointVars, CollectedMembers, Applying
<1> QED
  BY <1>1, <1>5, CatalogsUntouched

LEMMA CatalogInit == ECInit => CatInv
<1> SUFFICES ASSUME ECInit PROVE CatInv
  OBVIOUS
<1>1. \A c \in Caller : request[c] = NoRequest
  BY DEF ECInit
<1>2. ECTypeOK
  <2>1. /\ onDisk \in [kindOf : [Id -> Kind], group : [Id -> Group]]
        /\ refresh \in [pc : {"none", "spawned", "probing", "published"}, copy : [Id -> Kind]]
    BY RequestsAreTyped DEF ECInit
  <2>2. /\ request \in [Caller -> Request]
        /\ \A c \in Caller : request[c].op = "none" <=> request[c].pc = "idle"
    BY <1>1, RequestsAreTyped DEF ECInit
  <2>3. requests \in 0 .. CatRequests
    BY CatalogAssumption DEF ECInit
  <2> QED
    BY <2>1, <2>2, <2>3, RequestsAreTyped DEF ECInit, ECTypeOK
<1>3. NoEmptyGroup /\ SeededEndpointsStay /\ CatalogsOnDisk
  BY CatalogAssumption DEF ECInit, NoEmptyGroup, SeededEndpointsStay, CatalogsOnDisk, Seeded,
     Ungrouped, NoGroup
<1>4. CollectedMembers
  BY <1>1, RequestsAreTyped DEF CollectedMembers, Applying
<1> QED
  BY <1>2, <1>3, <1>4 DEF CatInv, CatalogsConsistent

LEMMA CatalogStep == CatInv /\ [ECNext]_ecVars => CatInv'
<1> SUFFICES ASSUME CatInv, [ECNext]_ecVars PROVE CatInv'
  OBVIOUS
<1>1. CASE UNCHANGED ecVars
  BY <1>1 DEF CatInv, ECTypeOK, CatalogsConsistent, NoEmptyGroup, SeededEndpointsStay,
     CatalogsOnDisk, CollectedMembers, Applying, ecVars
<1>2. ASSUME NEW c \in Caller, NEW op \in CatOps, NEW i \in Id, NEW padded \in BOOLEAN,
             NEW command \in BOOLEAN, NEW ms \in SUBSET Id,
             Begin(c, op, i, padded, command, ms)
      PROVE  CatInv'
  BY <1>2, BeginPreserves
<1>3. ASSUME NEW c \in Caller, Serve(c) PROVE CatInv'
  BY <1>3, UpsertSubAgentPreserves, RemoveSubAgentPreserves, McpServerPreserves,
     GroupPreserves, AnswersPreserve DEF Serve
<1>4. CASE ChangeEnvelope \/ DashboardPoll \/ Refreshing
  BY <1>4, InventoryPreserves
<1> QED
  BY <1>1, <1>2, <1>3, <1>4 DEF ECNext

-----------------------------------------------------------------------------
(* Theorems *)

\* A step of the composition is a step of one part and leaves the other alone.
LEMMA QueueRefined == [GovNext]_govVars => [ApvNext]_apvVars
  BY DEF GovNext, govVars

LEMMA CatalogsRefined == [GovNext]_govVars => [ECNext]_ecVars
  BY DEF GovNext, govVars

\* The strengthened invariants hold of the two parts side by side.
THEOREM GovernanceInvariant == GovSpec => [](ApvInv /\ CatInv)
<1>1. GovInit => ApvInv /\ CatInv
  BY InitHolds, CatalogInit DEF GovInit
<1>2. ApvInv /\ CatInv /\ [GovNext]_govVars => ApvInv' /\ CatInv'
  BY QueueRefined, StepPreserves, CatalogsRefined, CatalogStep
<1> QED
  BY <1>1, <1>2, PTL DEF GovSpec

\* The queue, the profile and the catalogs are well typed: in particular an
\* operator is inside approve() exactly while it holds the queue's lock.
THEOREM GovernanceTypes == GovSpec => []GovTypes
<1>1. ApvInv /\ CatInv => GovTypes
  BY DEF ApvInv, CatInv, GovTypes
<1> QED
  BY <1>1, GovernanceInvariant, PTL

\* The sections of the catalogs' services in any order (upsertSubAgent,
\* removeSubAgent, upsertGroup and the rest): no group is left without a member,
\* no seeded endpoint changes, and the file holds what memory holds.
THEOREM CatalogsStayConsistent == GovSpec => []CatalogsConsistent
<1>1. CatInv => CatalogsConsistent
  BY DEF CatInv
<1> QED
  BY <1>1, GovernanceInvariant, PTL

\* Approving (GovernanceApprovalQueueService::approve and the executor): an
\* action is applied exactly once whoever approves and rejects it and wherever
\* the process stops, the profile holds the doctrine of the last executed
\* action, and its other sections stay.
THEOREM EveryApprovalIsExact == GovSpec => []ApprovalsAreExact
  BY GovernanceInvariant, InvariantImpliesExact, PTL

\* The decision on an action is final (the status tests of approve and reject):
\* only a restart, which empties the queue, changes a decided action.
THEOREM EveryDecisionIsFinal == ApvSpec => DecisionIsFinal
<1>1. ApvInv /\ [ApvNext]_apvVars =>
        [\A i \in ActionId : action[i].status \in Decided /\ ~Restart =>
            action'[i] = action[i]]_apvVars
  <2> SUFFICES ASSUME ApvInv, ApvNext, ~Restart,
                      NEW i \in ActionId, action[i].status \in Decided
               PROVE  action'[i] = action[i]
    BY DEF apvVars
  <2> USE DEF ApvInv
  <2>1. ASSUME NEW o \in Operator, NEW p \in Payload, Stage(o, p)
        PROVE  action'[i] = action[i]
    BY <2>1 DEF Stage, Decided, ApvTypeOK
  <2>2. ASSUME NEW o \in Operator, NEW j \in ActionId, Reject(o, j) \/ Claim(o, j)
        PROVE  action'[i] = action[i]
    BY <2>2 DEF Reject, Claim, Decided, ApvTypeOK
  <2>3. ASSUME NEW o \in Operator, Finish(o)
        PROVE  action'[i] = action[i]
    <3>1. approver[o].id # i
      BY <2>3 DEF Finish, ClaimsStand, At, Decided
    <3> QED
      BY <2>3, <3>1 DEF Finish, ApvTypeOK
  <2>4. ASSUME NEW o \in Operator, Load(o) \/ Open(o) \/ Write(o)
        PROVE  action'[i] = action[i]
    BY <2>4 DEF Load, Open, Write
  <2> QED
    BY <2>1, <2>2, <2>3, <2>4 DEF ApvNext, Proceed
<1>2. ApvInit => ApvInv
  BY InitHolds
<1>3. ApvInv /\ [ApvNext]_apvVars => ApvInv'
  BY StepPreserves
<1> QED
  BY <1>1, <1>2, <1>3, PTL DEF ApvSpec, DecisionIsFinal

================================================================================
