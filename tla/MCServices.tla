------------------------------ MODULE MCServices ------------------------------
(***************************************************************************)
(* Three services of the process, for TLC: the activity feed, the          *)
(* supervisor assignment and the HTTP server of the admin API.  They share *)
(* no state, so a behaviour runs one of them and leaves the others where   *)
(* they start: part names the one that runs.                               *)
(***************************************************************************)
EXTENDS ActivityFeed, SupervisorAssignment, HttpServer, TLC

CONSTANTS sse, poll

\* The limit that each reader asks for.
MCMaxCount == sse :> 1 @@ poll :> 2

VARIABLE part

svcVars == << part, actVars, supVars, httpVars >>

\* What a step of one service leaves alone.
FeedOnly == part = "feed" /\ UNCHANGED << part, supVars, httpVars >>
AssignmentOnly == part = "assignment" /\ UNCHANGED << part, actVars, httpVars >>
HttpOnly == part = "http" /\ UNCHANGED << part, actVars, supVars >>

SvcInit == part \in {"feed", "assignment", "http"} /\ ActInit /\ SupInit /\ HttpInit

SvcNext ==
    \/ ActNext /\ FeedOnly
    \/ SupNext /\ AssignmentOnly
    \/ HttpNext /\ HttpOnly

SvcFairness ==
    /\ \A r \in Reader : WF_svcVars((Poll(r) \/ Tick(r)) /\ FeedOnly)
    /\ WF_svcVars(TimePasses /\ AssignmentOnly) /\ WF_svcVars(ExpireConnection /\ AssignmentOnly)
    /\ WF_svcVars(AcceptThread /\ HttpOnly) /\ WF_svcVars(OwnerStep /\ HttpOnly)
    /\ \A w \in HttpWorker : WF_svcVars(CrewStep(w) /\ HttpOnly)
    /\ \A c \in Conn : WF_svcVars(StreamEnds(c) /\ HttpOnly) /\ WF_svcVars(Sends(c) /\ HttpOnly)

SvcSpec == SvcInit /\ [][SvcNext]_svcVars /\ SvcFairness

-----------------------------------------------------------------------------
(* Properties *)

\* The state of the three services is well typed.
SvcTypes == ActTypeOK /\ AsgTypeOK /\ HttpTypeOK

\* A reader of the activity feed gets events in order and misses only those it
\* was told it overran, and the feed reports healthy persistence only when the
\* file ends as the ring does.
FeedIsFaithful == EventsArriveInOrder /\ MissesOnlyOverruns /\ HealthOkMeansTailOnDisk

\* A socket is closed once, by the thread that has it, and after stop() no
\* thread of the server and no open connection is left.
ServerLeavesNothing == SocketsCloseOnce /\ NothingOutlivesStop

\* Every event reaches the readers that follow the feed, and stop() of the
\* server ends.
ServicesProgress == EventsArrive /\ StopEnds
================================================================================
