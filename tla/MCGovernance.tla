------------------------------ MODULE MCGovernance ------------------------------
(***************************************************************************)
(* The two components CLU guards, for TLC.  They share no state, so a      *)
(* behaviour runs one of them and leaves the other where it starts: part   *)
(* names the one that runs.                                                *)
(***************************************************************************)
EXTENDS GovernanceApprovals, EndpointCatalogs

VARIABLE part

govVars == << part, apvVars, ecVars >>

GovInit == part \in {"approvals", "catalogs"} /\ ApvInit /\ ECInit

GovNext ==
    \/ part = "approvals" /\ ApvNext /\ UNCHANGED << part, ecVars >>
    \/ part = "catalogs" /\ ECNext /\ UNCHANGED << part, apvVars >>

GovFairness ==
    /\ \A o \in Operator : WF_govVars(part = "approvals" /\ Proceed(o) /\ UNCHANGED << part, ecVars >>)
    /\ WF_govVars(part = "catalogs" /\ Refreshing /\ UNCHANGED << part, apvVars >>)
    /\ WF_govVars(part = "catalogs" /\ DashboardPoll /\ UNCHANGED << part, apvVars >>)

GovSpec == GovInit /\ [][GovNext]_govVars /\ GovFairness

-----------------------------------------------------------------------------
(* Properties *)

\* The state of the approval queue, of the policy profile and of the catalogs
\* is well typed; an action that executes has its executor.
GovTypes == ApvTypeOK /\ ECTypeOK

\* An approved change reaches the policy profile once, whoever approves it and
\* however often; the profile on disk is the one the last execution wrote; and
\* it keeps the sections that the change was not about.
ApprovalsAreExact == AppliedExactlyOnce /\ ProfileHoldsLastExecuted /\ SectionsOutliveApprovals

\* Whatever the order of the sections' calls: no group is left without a
\* member, no seeded endpoint disappears, and the file has what memory has.
CatalogsConsistent == NoEmptyGroup /\ SeededEndpointsStay /\ CatalogsOnDisk
=================================================================================
