------------------------------- MODULE MCApple -------------------------------
(* AppleOperations for TLC. *)
EXTENDS AppleOperations

\* Two Apple hosts: one for both platforms, one that keeps signing defaults.
MCHostForms == {[enabled |-> TRUE, lanes |-> {"macos", "ios"}, companion |-> TRUE, defaults |-> {}]}
MCSigningForm == [enabled |-> TRUE, lanes |-> {"ios"}, companion |-> FALSE,
                  defaults |-> {"signingIdentity", "keychainProfile", "teamId"}]
MCFirstHosts == {[h \in {"h1", "h2"} |-> IF h = "h1" THEN f ELSE MCSigningForm] : f \in MCHostForms}
MCProbes == {Facility}
MCSharedRequests ==
    [tool : {"ios.simulator.list", "macos.toolchain.route"}, keys : {{}}, preferred : {"h1"}]

\* The list of operations says what happened to each of them, an operation that
\* was canceled is not sent, and a replay sends what was recorded.
OperationsAreHonest == RecordsAreLive /\ EndsFinished /\ CanceledNeverRuns /\ ReplayIsHonest

\* Every operation that was accepted ends, and the service stops.
OperationsEnd == OperationsFinish /\ ServiceStops
==============================================================================
