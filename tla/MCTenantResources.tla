-------------------------- MODULE MCTenantResources --------------------------
(* TenantResources with two users, one organization and one name of either  *)
(* kind.                                                                    *)
EXTENDS TenantResources, TLC

CONSTANTS u1, u2, o1, n1

UsersAlike == Permutations(Users)
==============================================================================
