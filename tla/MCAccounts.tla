------------------------------ MODULE MCAccounts -----------------------------
(* Accounts with a few names, which are all alike. *)
EXTENDS Accounts, TLC

CONSTANTS n1, n2, n3, n4, k1, s1, s2

Alike == Permutations(Names)
==============================================================================
