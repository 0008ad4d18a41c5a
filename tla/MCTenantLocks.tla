---------------------------- MODULE MCTenantLocks ----------------------------
(* Two to four tasks; which one takes which part does not matter. *)
EXTENDS TenantLocks, TLC

CONSTANTS t1, t2, t3, t4

Symmetry == Permutations(Tasks)
==============================================================================
