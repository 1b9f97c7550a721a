-------------------------- MODULE GovernanceApprovals --------------------------
(***************************************************************************)
(* The operator approval queue (GovernanceApprovalQueue.h) with the        *)
(* executor that applies an approved action and the CLU profile file it    *)
(* writes (MasterControlRuntime.cpp).                                      *)
(*                                                                         *)
(* POST /api/governance/profile passes CLU's enforceAction, whose outcome  *)
(* for a policy change is RequiresOperatorApproval: the request is staged. *)
(* An operator approves or rejects it.  approve() claims the action and    *)
(* runs the executor with the queue locked, so its steps are separate here *)
(* only because GET /api/governance/profile reads the file without that    *)
(* lock, and because the process may stop between them.                    *)
(***************************************************************************)
EXTENDS Naturals

CONSTANTS
    Operator,       \* administration threads that stage and decide
    NoOperator,
    MaxActions,     \* bound on the actions staged in one run of the process
    Doctrine,       \* doctrines that fit in kMaxDoctrineChars
    SplitDoctrine,  \* doctrines whose cut falls inside a UTF-8 character
    NoDoctrine

ASSUME ApprovalAssumption ==
    /\ NoOperator \notin Operator
    /\ MaxActions \in Nat
    /\ NoDoctrine \notin Doctrine \cup SplitDoctrine

VARIABLES
    action,     \* the queue: each action's status and payload
    queueLock,  \* the holder of GovernanceApprovalQueueService::mutex_
    approver,   \* each operator: its place in approve(), its action, its copy
    profile,    \* the CLU profile file
    runs,       \* history: how often the executor wrote for each action
    applied,    \* history: the doctrine of the action last marked executed
    torn,       \* history: a write of the profile has failed or was interrupted
    doctrineInForce  \* CommandLogicUnitService::profile_.doctrine, read once

apvVars == << action, queueLock, approver, profile, runs, applied, torn, doctrineInForce >>

ActionId == 1 .. MaxActions
Payload == Doctrine \cup SplitDoctrine
Status == {"none", "pending", "approved", "executed", "execute-failed", "rejected"}
Decided == {"executed", "execute-failed", "rejected"}

\* The file: its doctrine and its other sections (documents, roles, rules).
\* A truncated file is no JSON document.
Truncated == [doctrine |-> NoDoctrine, sections |-> FALSE, whole |-> FALSE]
EmptyProfile == [doctrine |-> NoDoctrine, sections |-> FALSE, whole |-> TRUE]
ShippedProfile == [doctrine |-> NoDoctrine, sections |-> TRUE, whole |-> TRUE]
Profile == [doctrine : Payload \cup {NoDoctrine}, sections : BOOLEAN, whole : BOOLEAN]

Waiting == [pc |-> "idle", id |-> 0, copy |-> EmptyProfile]
Approver == [pc : {"idle", "load", "open", "write", "done", "failed"},
             id : 0 .. MaxActions, copy : Profile]

Unqueued == [status |-> "none", payload |-> NoDoctrine]
ActionRecord == [status : Status, payload : Payload \cup {NoDoctrine}]

Free(o) == queueLock = NoOperator /\ approver[o].pc = "idle"

-----------------------------------------------------------------------------
(* The queue *)

\* stage: ++nextSequence_ names the action.
Stage(o, p) ==
    /\ Free(o)
    /\ \E i \in ActionId :
        /\ action[i].status = "none"
        /\ \A j \in ActionId : j < i => action[j].status # "none"
        /\ action' = [action EXCEPT ![i] = [status |-> "pending", payload |-> p]]
    /\ UNCHANGED << queueLock, approver, profile, runs, applied, torn, doctrineInForce >>

Reject(o, i) ==
    /\ Free(o)
    /\ action[i].status = "pending"
    /\ action' = [action EXCEPT ![i].status = "rejected"]
    /\ UNCHANGED << queueLock, approver, profile, runs, applied, torn, doctrineInForce >>

\* (mutant) The status is tested without the lock, and the executor runs
\* outside it.
ClaimUnlocked(o, i) ==
    /\ approver[o].pc = "idle"
    /\ action[i].status \in {"pending", "approved"}
    /\ action' = [action EXCEPT ![i].status = "approved"]
    /\ approver' = [approver EXCEPT ![o] = [Waiting EXCEPT !.pc = "load", !.id = i]]
    /\ UNCHANGED << queueLock, profile, runs, applied, torn, doctrineInForce >>

\* (mutant) A failed execution may be approved again.
ClaimAgain(o, i) ==
    /\ Free(o)
    /\ action[i].status \in {"pending", "execute-failed"}
    /\ action' = [action EXCEPT ![i].status = "approved"]
    /\ queueLock' = o
    /\ approver' = [approver EXCEPT ![o] = [Waiting EXCEPT !.pc = "load", !.id = i]]
    /\ UNCHANGED << profile, runs, applied, torn, doctrineInForce >>

\* approve takes the lock, refuses what is not pending, and claims the action
\* before it executes it.
Claim(o, i) ==
    /\ Free(o)
    /\ action[i].status = "pending"
    /\ action' = [action EXCEPT ![i].status = "approved"]
    /\ queueLock' = o
    /\ approver' = [approver EXCEPT ![o] = [Waiting EXCEPT !.pc = "load", !.id = i]]
    /\ UNCHANGED << profile, runs, applied, torn, doctrineInForce >>

-----------------------------------------------------------------------------
(* RuntimeGovernanceActionExecutor::applyPolicyChange *)

At(o, pc) == approver[o].pc = pc

\* (mutant) The new document is built from the doctrine alone.
LoadNothing(o) ==
    /\ At(o, "load")
    /\ approver' = [approver EXCEPT ![o].pc = "open", ![o].copy = EmptyProfile]
    /\ UNCHANGED << action, queueLock, profile, runs, applied, torn, doctrineInForce >>

\* loadProfile: a file that is no JSON document counts as an empty object.
Load(o) ==
    /\ At(o, "load")
    /\ approver' = [approver EXCEPT ![o].pc = "open",
                                    ![o].copy = IF profile.whole THEN profile
                                                ELSE EmptyProfile]
    /\ UNCHANGED << action, queueLock, profile, runs, applied, torn, doctrineInForce >>

\* writeProfile opens the file in place, which truncates it; opening may fail.
Open(o) ==
    /\ At(o, "open")
    /\ \/ /\ profile' = Truncated
          /\ approver' = [approver EXCEPT ![o].pc = "write"]
       \/ /\ approver' = [approver EXCEPT ![o].pc = "failed"]
          /\ UNCHANGED profile
    /\ UNCHANGED << action, queueLock, runs, applied, torn, doctrineInForce >>

\* (mutant) The write that fails is taken for a success.
WriteUnchecked(o) ==
    /\ At(o, "write")
    /\ \/ profile' = [approver[o].copy EXCEPT !.doctrine = action[approver[o].id].payload]
       \/ UNCHANGED profile
    /\ runs' = [runs EXCEPT ![approver[o].id] = @ + 1]
    /\ approver' = [approver EXCEPT ![o].pc = "done"]
    /\ UNCHANGED << action, queueLock, applied, torn, doctrineInForce >>

\* The document is dumped and written.  dump() throws on a doctrine cut inside
\* a character, and the write may fail: both leave the file truncated.
Write(o) ==
    LET p == action[approver[o].id].payload IN
    /\ At(o, "write")
    /\ \/ /\ p \notin SplitDoctrine
          /\ profile' = [approver[o].copy EXCEPT !.doctrine = p]
          /\ runs' = [runs EXCEPT ![approver[o].id] = @ + 1]
          /\ approver' = [approver EXCEPT ![o].pc = "done"]
          /\ UNCHANGED torn
       \/ /\ approver' = [approver EXCEPT ![o].pc = "failed"]
          /\ torn' = TRUE
          /\ UNCHANGED << profile, runs >>
    /\ UNCHANGED << action, queueLock, applied, doctrineInForce >>

\* (mutant) An executor that threw leaves approve before the outcome is set.
FinishDone(o) ==
    /\ At(o, "done")
    /\ action' = [action EXCEPT ![approver[o].id].status = "executed"]
    /\ applied' = action[approver[o].id].payload
    /\ queueLock' = NoOperator
    /\ approver' = [approver EXCEPT ![o] = Waiting]
    /\ UNCHANGED << profile, runs, torn, doctrineInForce >>

\* The rest of approve: the outcome is recorded and the lock released.
Finish(o) ==
    LET i == approver[o].id IN
    /\ approver[o].pc \in {"done", "failed"}
    /\ action' = [action EXCEPT ![i].status = IF At(o, "done") THEN "executed"
                                              ELSE "execute-failed"]
    /\ applied' = IF At(o, "done") THEN action[i].payload ELSE applied
    /\ queueLock' = NoOperator
    /\ approver' = [approver EXCEPT ![o] = Waiting]
    /\ UNCHANGED << profile, runs, torn, doctrineInForce >>

\* The queue is in memory only: a restart forgets it and numbers from one
\* again.  CommandLogicUnitService reads the profile once, when it is built.
Restart ==
    /\ action' = [i \in ActionId |-> Unqueued]
    /\ queueLock' = NoOperator
    /\ approver' = [o \in Operator |-> Waiting]
    /\ runs' = [i \in ActionId |-> 0]
    /\ applied' = profile.doctrine
    /\ torn' = (torn \/ ~profile.whole)
    /\ doctrineInForce' = profile.doctrine
    /\ UNCHANGED profile

-----------------------------------------------------------------------------

ApvInit ==
    /\ action = [i \in ActionId |-> Unqueued]
    /\ queueLock = NoOperator
    /\ approver = [o \in Operator |-> Waiting]
    /\ profile = ShippedProfile
    /\ runs = [i \in ActionId |-> 0]
    /\ applied = NoDoctrine
    /\ torn = FALSE
    /\ doctrineInForce = NoDoctrine

Proceed(o) == Load(o) \/ Open(o) \/ Write(o) \/ Finish(o)

ApvNext ==
    \/ \E o \in Operator :
        \/ \E p \in Payload : Stage(o, p)
        \/ \E i \in ActionId : Reject(o, i) \/ Claim(o, i)
        \/ Proceed(o)
    \/ Restart

\* An approval that has begun runs to its end on its own thread.
ApvFairness == \A o \in Operator : WF_apvVars(Proceed(o))

ApvSpec == ApvInit /\ [][ApvNext]_apvVars /\ ApvFairness

-----------------------------------------------------------------------------
(* Properties *)

ApvTypeOK ==
    /\ action \in [ActionId -> ActionRecord]
    /\ queueLock \in Operator \cup {NoOperator}
    /\ approver \in [Operator -> Approver]
    /\ \A o \in Operator : approver[o].pc # "idle" <=> queueLock = o
    /\ profile \in Profile
    /\ runs \in [ActionId -> Nat]
    /\ torn \in BOOLEAN
    /\ applied \in Payload \cup {NoDoctrine}
    /\ doctrineInForce \in Payload \cup {NoDoctrine}

\* An approved action is applied exactly once, whatever operators approve and
\* reject at the same time: GovernanceApprovalQueue.h, "a concurrent approve()
\* ... cannot trigger a second execution".
AppliedExactlyOnce ==
    \A i \in ActionId :
        /\ runs[i] <= 1
        /\ action[i].status = "executed" => runs[i] = 1
        /\ action[i].status \in {"none", "pending", "rejected", "execute-failed"} => runs[i] = 0

\* The decision on an action is final: an executed, failed or rejected action
\* keeps its status until the process restarts.
DecisionIsFinal ==
    [][ \A i \in ActionId : action[i].status \in Decided /\ ~Restart =>
            action'[i] = action[i] ]_apvVars

\* With no approval under way the profile holds the doctrine of the action
\* last executed, unless a write has failed, and then the file is whole again
\* only with the doctrine of a later one: POST /api/governance/profile, "GET
\* /api/governance/profile then reflects the new doctrine".
ProfileHoldsLastExecuted ==
    queueLock = NoOperator /\ (profile.whole \/ ~torn) => profile.doctrine = applied

\* Approvals keep the other sections of the profile: they are lost only after a
\* write that failed or was interrupted.
SectionsOutliveApprovals == profile.whole /\ ~torn => profile.sections

\* Every approval reaches its outcome: no claim is left at "approved".
ApprovalsEnd ==
    \A i \in ActionId : action[i].status = "approved" ~> action[i].status # "approved"

\* An action that failed left the profile as it was.
FailureLeavesProfile == queueLock = NoOperator => profile.whole

\* The doctrine CLU reports (currentGovernance) is the one in the profile.
DoctrineIsInForce ==
    queueLock = NoOperator /\ profile.whole => doctrineInForce = profile.doctrine

=============================================================================
