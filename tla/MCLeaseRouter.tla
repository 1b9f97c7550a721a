---------------------------- MODULE MCLeaseRouter ----------------------------
(* Constants of LeaseRouter for TLC. *)
EXTENDS LeaseRouter

\* A ceiling of two; one lease per instance (a cap of zero counts as one)
\* without a floor, or two with a floor of one: the operator may lower the cap
\* under the leases of an instance.
TwoInstances == {[min |-> 0, max |-> 2, cap |-> 0], [min |-> 1, max |-> 2, cap |-> 2]}

\* A pool held at one instance.
OneInstance == {[min |-> 1, max |-> 1, cap |-> 1]}
=============================================================================
