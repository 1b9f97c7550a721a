-------------------------- MODULE MCWorkerSupervisor --------------------------
(* Constants of WorkerSupervisor for TLC. *)
EXTENDS WorkerSupervisor, TLC

\* A dark pool, a pool with a floor and room to grow, and two policies the
\* validation of upsertPool refuses.
MCPolicies == {[min |-> 0, max |-> 1, cap |-> 1],
               [min |-> 1, max |-> 2, cap |-> 1],
               [min |-> 2, max |-> 1, cap |-> 1],
               [min |-> -1, max |-> 0, cap |-> 1]}

\* One valid policy: a floor of one, a ceiling of two.
OnePolicy == {[min |-> 1, max |-> 2, cap |-> 1]}

PoolSymmetry == Permutations(Pool)
=============================================================================
