---------------------------- MODULE MCPersistence ----------------------------
(* Persistence with one fact of each of some kinds. *)
EXTENDS Persistence, TLC

CONSTANTS k1, p1, o1, m1, l1, d1, s1, s2

AllKinds == (k1 :> "key" @@ p1 :> "plugin" @@ o1 :> "organization"
             @@ m1 :> "member" @@ l1 :> "pipeline" @@ d1 :> "daemon")

KeyPluginOrganization == [f \in {k1, p1, o1} |-> AllKinds[f]]
OneKey == [f \in {k1} |-> AllKinds[f]]
OnePlugin == [f \in {p1} |-> AllKinds[f]]
==============================================================================
