---------------------------- MODULE MCPaidEffects ----------------------------
(* PaidEffects with a few workers and addresses.                           *)
EXTENDS PaidEffects, TLC

Symmetry == Permutations(Worker) \cup Permutations(Address)
=============================================================================
