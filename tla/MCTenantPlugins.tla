--------------------------- MODULE MCTenantPlugins ---------------------------
(* Two instances, told apart by alone.  One request at a time: two users,   *)
(* one organization, two versions of a plugin and another one.  Two at a    *)
(* time: a third user and one plugin, for what must hold whatever comes     *)
(* between the sections of a request.                                       *)
EXTENDS TenantPlugins, TLC

CONSTANTS u1, u2, u3, o1, a1, a2, b1, s1, s2

TwoPlugins == (a1 :> "a" @@ a2 :> "a" @@ b1 :> "b")
FoundedByU1 == (o1 :> u1)

VARIABLE alone

MCInit == Init /\ alone \in BOOLEAN

MCNext ==
    /\ Next
    /\ UNCHANGED alone
    /\ \A s \in Slots : req'[s] # None =>
          IF alone THEN s = s1 /\ req'[s].user # u3 ELSE req'[s].hash = a1
    /\ alone => \A o \in Orgs : u3 \notin members'[o]

MCSpec == MCInit /\ [][MCNext]_<<vars, alone>>

\* Requests about any plugins at any time (MCTenantPluginsVersions.cfg).
AtOnceSpec == MCInit /\ [][Next /\ UNCHANGED alone]_<<vars, alone>>
------------------------------------------------------------------------------
(* One request at a time: whatever was uploaded, replaced, shared and         *)
(* removed before, references have workers (RefsHaveWorkers).                 *)
AloneRefsHaveWorkers == alone => RefsHaveWorkers

(* ... and a removal leaves no worker that nobody refers to, also none of the *)
(* old versions that uploads left there (CleansUp).                           *)
AloneCleanupIsComplete == [][alone => CleansUp]_<<vars, alone>>
==============================================================================
