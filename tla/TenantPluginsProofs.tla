------------------------- MODULE TenantPluginsProofs -------------------------
(****************************************************************************)
(* Proofs about TenantPlugins, for any users, organizations and plugins.    *)
(*                                                                          *)
(* Tenants are kept apart, with any number of requests at the same time.    *)
(* VisibleIsEarned is not inductive: what a request shows to a user was     *)
(* decided steps before, when other requests had not yet come in between.   *)
(* Sharing adds what every request under way may rely on: the plugin it is  *)
(* about was made by its user, its user is still in the organization, and   *)
(* so is everybody it has left to show the plugin to.                       *)
(*                                                                          *)
(* References have workers, versions are replaced and removals clean up,    *)
(* with one request at a time.  What that request may rely on says why: it  *)
(* has a worker before the reference to it is made, it asks users and       *)
(* organizations before the worker goes, and nobody comes in between.       *)
(* MCTenantPlugins is extended for its instance with one request at a time. *)
(*                                                                          *)
(* What a plugin reads (EnvVars): the offer it gets is the first in order   *)
(* among those that were there all the time of the lookup, for any          *)
(* organizations and whatever changes meanwhile.                            *)
(****************************************************************************)
EXTENDS MCTenantPlugins, EnvVars, FiniteSetTheorems, SequenceTheorems, TLAPS

\* Requests whose plugin is in the user's made plugins.
Earned == {"see"} \cup Sharing

RequestOK(r) ==
    /\ r.at \in Earned => r.hash \in made[r.user]
    /\ r.at \in Sharing => r.org \in Orgs /\ r.user \in members[r.org]
    /\ r.at = "show" => r.left \subseteq members[r.org]

\* What requests under way may rely on.
RequestsOK == \A s \in Slots : req[s] # None => RequestOK(req[s])

\* Users hold only what they made.
RefsAreMade == \A u \in Users : refs[u] \subseteq made[u]

IInv == TypeOK /\ RefsAreMade /\ RequestsOK /\ VisibleIsEarned
------------------------------------------------------------------------------
\* The absence of a request is not a request.
LEMMA NoRequest == None \notin Request
BY NoneAssumption

\* Where neither an organization nor what is left matters.
Plain == (Uploading \cup Removing) \ Cleaning

\* A request whose fields change is a request.
LEMMA RequestUpdates ==
    ASSUME NEW r \in Request, NEW h \in Hashes \cup {None},
           NEW rest \in SUBSET (Users \cup Hashes \cup Orgs)
    PROVE  /\ \A where \in Plain :
                 /\ [r EXCEPT !.at = where] \in Request
                 /\ [r EXCEPT !.at = where, !.other = h] \in Request
                 /\ [r EXCEPT !.at = where, !.left = rest] \in Request
           /\ rest \subseteq r.left => [r EXCEPT !.left = rest] \in Request
           /\ r.at \in Sharing => \A where \in Sharing :
                 /\ [r EXCEPT !.at = where] \in Request
                 /\ rest \subseteq Users => [r EXCEPT !.at = where, !.left = rest] \in Request
           /\ rest \subseteq Hashes => \A where \in Cleaning :
                 /\ [r EXCEPT !.at = where, !.left = rest] \in Request
                 /\ [r EXCEPT !.left = rest, !.other = h, !.at = where] \in Request
           /\ r.at \in Cleaning => \A where \in Cleaning : [r EXCEPT !.at = where] \in Request
<1> USE DEF Request, Plain, Uploading, Removing, Cleaning, Sharing
<1>1. \A where \in Plain :
         /\ [r EXCEPT !.at = where] \in Request
         /\ [r EXCEPT !.at = where, !.other = h] \in Request
         /\ [r EXCEPT !.at = where, !.left = rest] \in Request
  OBVIOUS
<1>2. rest \subseteq r.left => [r EXCEPT !.left = rest] \in Request
  OBVIOUS
<1>3. r.at \in Sharing => \A where \in Sharing :
         /\ [r EXCEPT !.at = where] \in Request
         /\ rest \subseteq Users => [r EXCEPT !.at = where, !.left = rest] \in Request
  OBVIOUS
<1>4. rest \subseteq Hashes => \A where \in Cleaning :
         /\ [r EXCEPT !.at = where, !.left = rest] \in Request
         /\ [r EXCEPT !.left = rest, !.other = h, !.at = where] \in Request
  OBVIOUS
<1>5. r.at \in Cleaning => \A where \in Cleaning : [r EXCEPT !.at = where] \in Request
  OBVIOUS
<1> QED
  BY <1>1, <1>2, <1>3, <1>4, <1>5

\* What a request under way carries is typed.
LEMMA ThereType ==
    ASSUME TypeOK, NEW s \in Slots, req[s] # None
    PROVE  /\ req[s] \in Request
           /\ req[s].user \in Users
           /\ req[s].hash \in Hashes
           /\ req[s].other \in Hashes \cup {None}
           /\ req[s].left \in SUBSET (Users \cup Hashes \cup Orgs)
           /\ req[s].at \in Sharing => req[s].org \in Orgs /\ req[s].left \subseteq Users
           /\ req[s].at \in Cleaning => req[s].left \subseteq Hashes
BY DEF TypeOK, Request

\* The requests keep their type when one of them goes on or ends.
LEMMA RequestsType ==
    ASSUME TypeOK, NEW s \in Slots, NEW r \in Request \cup {None},
           req' = [req EXCEPT ![s] = r]
    PROVE  req' \in [Slots -> Request \cup {None}]
BY DEF TypeOK

\* A request that goes on is well typed.
LEMMA GotoType ==
    ASSUME TypeOK, NEW s \in Slots, req[s] # None, NEW where, Goto(s, where),
           \/ where \in Plain
           \/ {req[s].at, where} \subseteq Sharing
           \/ {req[s].at, where} \subseteq Cleaning
    PROVE  req' \in [Slots -> Request \cup {None}]
<1>1. req[s] \in Request
  BY ThereType
<1>2. None \in Hashes \cup {None} /\ {} \in SUBSET (Users \cup Hashes \cup Orgs)
  OBVIOUS
<1>3. [req[s] EXCEPT !.at = where] \in Request
  BY <1>1, <1>2, RequestUpdates
<1>4. req' = [req EXCEPT ![s] = [req[s] EXCEPT !.at = where]]
  BY DEF Goto
<1> QED
  BY <1>3, <1>4, RequestsType

\* A request that ends leaves the others well typed.
LEMMA EndType ==
    ASSUME TypeOK, NEW s \in Slots, End(s)
    PROVE  req' \in [Slots -> Request \cup {None}]
BY RequestsType DEF End

\* A step of a request keeps the types.
LEMMA TypeStep == TypeOK /\ [Next]_vars => TypeOK'
<1> SUFFICES ASSUME TypeOK, [Next]_vars PROVE TypeOK'
  OBVIOUS
<1> USE TenantAssumption DEF TypeOK
<1>1. ASSUME NEW s \in Slots, NEW u \in Users, NEW h \in Hashes, UploadCheck(s, u, h)
      PROVE TypeOK'
  <2>1. [user |-> u, hash |-> h, org |-> None,
         at |-> IF h \in registry THEN "ref" ELSE "insert",
         other |-> None, left |-> {}] \in Request
    BY DEF Request, Uploading, Cleaning, Sharing
  <2> QED
    BY <1>1, <2>1, RequestsType DEF UploadCheck, Begin
<1>2. ASSUME NEW s \in Slots, NEW u \in Users, NEW h \in Hashes, RemoveLookup(s, u, h)
      PROVE TypeOK'
  BY ZenonT(30), <1>2 DEF RemoveLookup, Begin, Request, Removing, Cleaning, Sharing
<1>3. ASSUME NEW s \in Slots, NEW u \in Users, NEW h \in Hashes, NEW o \in Orgs,
             ShareLookup(s, u, h, o)
      PROVE TypeOK'
  BY ZenonT(30), <1>3 DEF ShareLookup, Begin, Request, Cleaning, Sharing
<1>4. ASSUME NEW o \in Orgs, NEW u \in Users, AddUser(o, u) PROVE TypeOK'
  BY <1>4 DEF AddUser
<1>5. CASE UNCHANGED vars
  BY <1>5 DEF vars
<1>6. ASSUME NEW s \in Slots, UploadStep(s) PROVE TypeOK'
  <2>1. CASE UploadInsert(s)
    BY <2>1, GotoType, ThereType DEF UploadInsert, At, Plain, Uploading, Removing, Cleaning, Sharing
  <2>2. CASE UploadRef(s)
    <3> DEFINE old == OldVersions(req[s].user, req[s].hash)
    <3>1. PICK gone \in IF old = {} THEN {None} ELSE old :
            /\ refs' = [refs EXCEPT ![req[s].user] = (@ \ {gone}) \cup {req[s].hash}]
            /\ org_refs' = [o \in Orgs |->
                  IF o \in OrgsOf(req[s].user) /\ org_refs[o] \cap old # {}
                  THEN (org_refs[o] \ old) \cup {req[s].hash} ELSE org_refs[o]]
            /\ made' = [made EXCEPT ![req[s].user] = @ \cup {req[s].hash}]
            /\ req' = [req EXCEPT ![s].at = "see", ![s].other = gone]
      BY <2>2 DEF UploadRef
    <3>2. gone \in Hashes \cup {None}
      BY <2>2, <3>1, ThereType DEF At, OldVersions, UploadRef
    <3>3. req' = [req EXCEPT ![s] = [req[s] EXCEPT !.at = "see", !.other = gone]]
      BY <3>1
    <3>4. req' \in [Slots -> Request \cup {None}]
      <4>1. [req[s] EXCEPT !.at = "see", !.other = gone] \in Request
        BY <2>2, <3>2, ThereType, RequestUpdates DEF At, UploadRef, Plain, Uploading, Cleaning
      <4> QED
        BY <3>3, <4>1, RequestsType
    <3>5. req[s].user \in Users /\ req[s].hash \in Hashes
      BY <2>2, ThereType DEF At, UploadRef
    <3> HIDE DEF old
    <3>6. refs' \in [Users -> SUBSET Hashes] /\ made' \in [Users -> SUBSET Hashes]
      BY <3>1, <3>5
    <3>7. org_refs' \in [Orgs -> SUBSET Hashes]
      BY <3>1, <3>5
    <3> QED
      BY <2>2, <3>4, <3>6, <3>7 DEF UploadRef
  <2>3. CASE UploadSee(s)
    BY <2>3, GotoType, ThereType DEF UploadSee, Seen, At, Plain, Uploading, Removing, Cleaning, Sharing
  <2>4. CASE UploadUsedByUser(s)
    BY <2>4, GotoType, EndType DEF UploadUsedByUser, At, Plain, Uploading, Cleaning
  <2>5. CASE UploadUsedByOrg(s)
    BY <2>5, GotoType, EndType DEF UploadUsedByOrg, At, Plain, Uploading, Cleaning
  <2>6. CASE UploadDrop(s)
    BY <2>6, EndType DEF At, UploadDrop
  <2> QED
    BY <1>6, <2>1, <2>2, <2>3, <2>4, <2>5, <2>6 DEF UploadStep
<1>7. ASSUME NEW s \in Slots, RemoveStep(s) PROVE TypeOK'
  <2>1. CASE RemoveRef(s)
    BY <2>1, GotoType, ThereType DEF RemoveRef, At, Plain, Uploading, Removing, Cleaning, Sharing
  <2>2. CASE RemoveOrgs(s)
    <3>1. [req[s] EXCEPT !.at = "shared", !.left = OrgsOf(req[s].user)] \in Request
      BY <2>2, ThereType, RequestUpdates DEF At, RemoveOrgs, OrgsOf, Plain, Removing, Cleaning
    <3> QED
      BY <2>2, <3>1, RequestsType DEF RemoveOrgs
  <2>3. CASE RemoveShared(s)
    <3>1. ASSUME NEW o PROVE [req[s] EXCEPT !.left = req[s].left \ {o}] \in Request
      BY <2>3, ThereType, RequestUpdates DEF At, RemoveShared, Plain, Removing, Cleaning
    <3>2. CASE req[s].left = {} /\ Goto(s, "hide")
      BY <2>3, <3>2, GotoType DEF At, RemoveShared, Plain, Removing, Cleaning
    <3>3. ASSUME NEW o \in req[s].left,
                 IF req[s].hash \in org_refs[o] THEN Goto(s, "keys")
                 ELSE req' = [req EXCEPT ![s].left = @ \ {o}]
          PROVE TypeOK'
      BY <2>3, <3>1, <3>3, GotoType, RequestsType DEF At, RemoveShared, Plain, Removing, Cleaning
    <3> QED
      BY <2>3, <3>2, <3>3 DEF RemoveShared
  <2>4. CASE RemoveHide(s)
    BY <2>4, GotoType, ThereType DEF RemoveHide, At, Plain, Uploading, Removing, Cleaning, Sharing
  <2>5. CASE CleanupKeys(s)
    <3>1. [req[s] EXCEPT !.at = "clean", !.left = Candidates(req[s].hash)] \in Request
      BY <2>5, ThereType, RequestUpdates DEF At, CleanupKeys, Candidates, Cleaning
    <3> QED
      BY <2>5, <3>1, RequestsType DEF CleanupKeys
  <2>6. CASE CleanupNext(s)
    <3>1. CASE req[s].left = {} /\ End(s)
      BY <2>6, <3>1, EndType DEF At, CleanupNext
    <3>2. ASSUME NEW g \in req[s].left,
                 req' = [req EXCEPT ![s].left = @ \ {g}, ![s].other = g,
                                    ![s].at = IF UsedByUser(g) THEN "clean" ELSE "clean org"]
          PROVE TypeOK'
      <4>1. g \in Hashes
        BY <2>6, <3>2, ThereType DEF At, CleanupNext, Cleaning
      <4>2. [req[s] EXCEPT !.left = req[s].left \ {g}, !.other = g,
                           !.at = IF UsedByUser(g) THEN "clean" ELSE "clean org"]
              \in Request
        BY <2>6, <3>2, <4>1, ThereType, RequestUpdates DEF At, CleanupNext, Cleaning
      <4> QED
        BY <2>6, <3>2, <4>2, RequestsType DEF CleanupNext
    <3> QED
      BY <2>6, <3>1, <3>2 DEF CleanupNext
  <2>7. CASE CleanupOrg(s)
    BY <2>7, GotoType, ThereType DEF CleanupOrg, At, Plain, Uploading, Removing, Cleaning, Sharing
  <2>8. CASE CleanupDrop(s)
    BY <2>8, GotoType, ThereType DEF CleanupDrop, At, Plain, Uploading, Removing, Cleaning, Sharing
  <2> QED
    BY <1>7, <2>1, <2>2, <2>3, <2>4, <2>5, <2>6, <2>7, <2>8 DEF RemoveStep
<1>8. ASSUME NEW s \in Slots, ShareStep(s) PROVE TypeOK'
  <2>1. CASE ShareRef(s)
    BY <2>1, GotoType, ThereType DEF ShareRef, At, Plain, Uploading, Removing, Cleaning, Sharing
  <2>2. CASE ShareMembers(s)
    <3>1. [req[s] EXCEPT !.at = "show", !.left = Audience(req[s].org)] \in Request
      BY <2>2, ThereType, RequestUpdates DEF At, ShareMembers, Audience, Sharing
    <3> QED
      BY <2>2, <3>1, RequestsType DEF ShareMembers
  <2>3. CASE ShareShow(s)
    <3>1. CASE req[s].left = {} /\ End(s) /\ UNCHANGED visible
      BY <2>3, <3>1, EndType DEF At, ShareShow
    <3>2. ASSUME NEW u \in req[s].left,
                 visible' = [visible EXCEPT ![u] = @ \cup {req[s].hash}],
                 req' = [req EXCEPT ![s].left = @ \ {u}]
          PROVE TypeOK'
      <4>1. [req[s] EXCEPT !.left = req[s].left \ {u}] \in Request
        BY <2>3, ThereType, RequestUpdates DEF At, ShareShow, Sharing
      <4>2. req[s].hash \in Hashes
        BY <2>3, ThereType DEF At, ShareShow
      <4> QED
        BY ZenonT(30), <2>3, <3>2, <4>1, <4>2, RequestsType DEF ShareShow
    <3> QED
      BY <2>3, <3>1, <3>2 DEF ShareShow
  <2> QED
    BY <1>8, <2>1, <2>2, <2>3 DEF ShareStep
<1> QED
  BY <1>1, <1>2, <1>3, <1>4, <1>5, <1>6, <1>7, <1>8 DEF Next

\* A server without plugins is well typed.
LEMMA InitType == Init => TypeOK
<1>1. ASSUME Init PROVE TypeOK
  <2>1. members \in [Orgs -> SUBSET Users]
    BY <1>1, TenantAssumption DEF Init
  <2>2. req \in [Slots -> Request \cup {None}]
    BY <1>1 DEF Init
  <2> QED
    BY <1>1, <2>1, <2>2 DEF Init, TypeOK
<1> QED
  BY <1>1

\* Every request keeps the types of the registry, of the references of users
\* and organizations and of what the requests under way carry.
THEOREM TypeCorrect == Spec => []TypeOK
BY InitType, TypeStep, PTL DEF Spec
------------------------------------------------------------------------------
(* Tenants are kept apart *)

\* Nobody leaves an organization, and what was made was made.
Grows ==
    /\ \A o \in Orgs : members[o] \subseteq members'[o]
    /\ \A u \in Users : made[u] \subseteq made'[u]

\* A request goes on: the others stay where they are.
Only(s) == \A t \in Slots \ {s} : req'[t] = req[t]

\* What the other requests rely on stays true while one goes on.
LEMMA OthersRely ==
    ASSUME TypeOK, RequestsOK, Grows, NEW s \in Slots, Only(s),
           (req[s] # None => RequestOK(req[s]))'
    PROVE  RequestsOK'
<1> SUFFICES ASSUME NEW t \in Slots, req'[t] # None PROVE RequestOK(req[t])'
  BY DEF RequestsOK
<1>1. CASE t = s
  BY <1>1
<1>2. CASE t # s
  <2>1. req'[t] = req[t] /\ req[t] # None
    BY <1>2 DEF Only
  <2>2. RequestOK(req[t]) /\ req[t] \in Request
    BY <2>1 DEF RequestsOK, TypeOK
  <2> QED
    BY <2>1, <2>2 DEF RequestOK, Grows, Request, Earned, Sharing
<1> QED
  BY <1>1, <1>2

\* What was visible and earned stays earned.
LEMMA StaysEarned ==
    ASSUME TypeOK, VisibleIsEarned, Grows,
           \A u \in Users : \A h \in visible'[u] :
              \/ h \in visible[u]
              \/ h \in made'[u]
              \/ \E v \in Users, o \in Orgs : {u, v} \subseteq members'[o] /\ h \in made'[v]
    PROVE  VisibleIsEarned'
BY DEF VisibleIsEarned, Grows

\* A step after which its request carries nothing to rely on, and which shows
\* and makes nothing, keeps everything.
LEMMA Unearned ==
    ASSUME IInv, NEW s \in Slots, Only(s), UNCHANGED <<members, made>>,
           req'[s] = None \/ req'[s].at \notin Earned,
           \A u \in Users : refs'[u] \subseteq refs[u] /\ visible'[u] \subseteq visible[u]
    PROVE  RefsAreMade' /\ RequestsOK' /\ VisibleIsEarned'
<1>1. Grows
  BY DEF Grows
<1>2. RefsAreMade'
  BY DEF IInv, RefsAreMade
<1>3. RequestsOK'
  <2>1. (req[s] # None => RequestOK(req[s]))'
    BY DEF RequestOK, Earned, Sharing
  <2> QED
    BY <1>1, <2>1, OthersRely DEF IInv
<1>4. VisibleIsEarned'
  BY <1>1, StaysEarned DEF IInv
<1> QED
  BY <1>2, <1>3, <1>4

\* Where a request goes when it goes on, and that the others do not.
LEMMA GoesTo ==
    ASSUME TypeOK, NEW s \in Slots, NEW r, req' = [req EXCEPT ![s] = r]
    PROVE  Only(s) /\ req'[s] = r
BY DEF TypeOK, Only

\* A request that goes on carries what it carried.
LEMMA GotoGoes ==
    ASSUME TypeOK, NEW s \in Slots, req[s] # None, NEW where, Goto(s, where)
    PROVE  /\ Only(s)
           /\ req'[s].at = where
           /\ req'[s].user = req[s].user
           /\ req'[s].hash = req[s].hash
           /\ req'[s].org = req[s].org
<1>1. req[s] \in Request
  BY ThereType
<1>2. Only(s) /\ req'[s] = [req[s] EXCEPT !.at = where]
  BY GoesTo DEF Goto
<1> QED
  BY <1>1, <1>2 DEF Request

\* A request that ends is gone and the others are where they were.
LEMMA EndGoes ==
    ASSUME TypeOK, NEW s \in Slots, End(s)
    PROVE  Only(s) /\ req'[s] = None
BY GoesTo DEF End

\* A request that begins is where it begins.
LEMMA BeginGoes ==
    ASSUME TypeOK, NEW s \in Slots, NEW u \in Users, NEW h \in Hashes, NEW where,
           Begin(s, u, h, None, where)
    PROVE  Only(s) /\ req'[s].at = where
<1>1. Only(s) /\ req'[s] = [user |-> u, hash |-> h, org |-> None, at |-> where,
                            other |-> None, left |-> {}]
  BY GoesTo DEF Begin
<1> QED
  BY <1>1

\* A step of a request keeps tenants apart.
LEMMA ApartStep ==
    ASSUME IInv, TypeOK', [Next]_vars
    PROVE  RefsAreMade' /\ RequestsOK' /\ VisibleIsEarned'
<1> USE DEF IInv
<1>1. ASSUME NEW s \in Slots, NEW u \in Users, NEW h \in Hashes, UploadCheck(s, u, h)
      PROVE  RefsAreMade' /\ RequestsOK' /\ VisibleIsEarned'
  <2>1. PICK where \in {"ref", "insert"} : Begin(s, u, h, None, where)
    BY <1>1 DEF UploadCheck
  <2>2. Only(s) /\ req'[s].at = where
    BY <2>1, BeginGoes
  <2> QED
    BY <1>1, <2>2, Unearned DEF UploadCheck, Earned, Sharing
<1>2. ASSUME NEW s \in Slots, NEW u \in Users, NEW h \in Hashes, RemoveLookup(s, u, h)
      PROVE  RefsAreMade' /\ RequestsOK' /\ VisibleIsEarned'
  <2>1. Begin(s, u, h, None, "unref")
    BY <1>2 DEF RemoveLookup
  <2>2. Only(s) /\ req'[s].at = "unref"
    BY <2>1, BeginGoes
  <2> QED
    BY <1>2, <2>2, Unearned DEF RemoveLookup, Earned, Sharing
<1>3. ASSUME NEW s \in Slots, NEW u \in Users, NEW h \in Hashes, NEW o \in Orgs,
             ShareLookup(s, u, h, o)
      PROVE  RefsAreMade' /\ RequestsOK' /\ VisibleIsEarned'
  <2>1. Grows
    BY <1>3 DEF ShareLookup, Grows
  <2>2. /\ Only(s)
        /\ req'[s] = [user |-> u, hash |-> h, org |-> o, at |-> "share",
                      other |-> None, left |-> {}]
    BY <1>3, GoesTo DEF ShareLookup, Begin
  <2>3. h \in made[u] /\ u \in members[o]
    BY <1>3 DEF ShareLookup, RefsAreMade
  <2>4. RequestOK(req[s])'
    BY <1>3, <2>2, <2>3 DEF RequestOK, ShareLookup
  <2> QED
    BY <1>3, <2>1, <2>2, <2>4, OthersRely, StaysEarned DEF ShareLookup, RefsAreMade
<1>4. ASSUME NEW o \in Orgs, NEW u \in Users, AddUser(o, u)
      PROVE  RefsAreMade' /\ RequestsOK' /\ VisibleIsEarned'
  <2>1. Grows
    BY <1>4 DEF AddUser, Grows, TypeOK
  <2>2. RequestsOK'
    <3> SUFFICES ASSUME NEW s \in Slots, req'[s] # None PROVE RequestOK(req[s])'
      BY DEF RequestsOK
    <3>1. (req[s] # None => RequestOK(req[s])) /\ req'[s] = req[s] /\ req[s] \in Request
      BY <1>4 DEF AddUser, RequestsOK, TypeOK
    <3> QED
      BY <2>1, <3>1 DEF RequestOK, Grows, Request, Earned, Sharing
  <2> QED
    BY <1>4, <2>1, <2>2, StaysEarned DEF AddUser, RefsAreMade
<1>5. CASE UNCHANGED vars
  <2>1. RequestsOK'
    BY <1>5 DEF vars, RequestsOK, RequestOK
  <2>2. Grows
    BY <1>5 DEF vars, Grows
  <2> QED
    BY <1>5, <2>1, <2>2, StaysEarned DEF vars, RefsAreMade
<1>6. ASSUME NEW s \in Slots, UploadStep(s)
      PROVE  RefsAreMade' /\ RequestsOK' /\ VisibleIsEarned'
  <2>1. req[s] # None /\ req[s] \in Request
    BY <1>6, ThereType DEF UploadStep, UploadInsert, UploadRef, UploadSee, UploadUsedByUser,
                            UploadUsedByOrg, UploadDrop, At
  <2>2. CASE UploadInsert(s)
    <3>1. Only(s) /\ req'[s].at = "ref"
      BY <2>1, <2>2, GotoGoes DEF UploadInsert
    <3> QED
      BY <2>2, <3>1, Unearned DEF UploadInsert, Earned, Sharing
  <2>3. CASE UploadRef(s)
    <3> DEFINE u == req[s].user
               h == req[s].hash
    <3>1. PICK gone \in Hashes \cup {None} :
            /\ refs' = [refs EXCEPT ![u] = (@ \ {gone}) \cup {h}]
            /\ req' = [req EXCEPT ![s] = [req[s] EXCEPT !.at = "see", !.other = gone]]
      BY <2>1, <2>3 DEF UploadRef, OldVersions, TypeOK
    <3>2. made' = [made EXCEPT ![u] = @ \cup {h}] /\ UNCHANGED <<visible, members>>
      BY <2>3 DEF UploadRef
    <3>3. u \in Users /\ h \in Hashes
      BY <2>1 DEF Request
    <3>4. Grows
      BY <3>2, <3>3 DEF Grows, TypeOK
    <3>5. Only(s) /\ req'[s] = [req[s] EXCEPT !.at = "see", !.other = gone]
      BY <3>1, GoesTo
    <3>6. RequestOK(req[s])'
      <4>1. req'[s].user = u /\ req'[s].hash = h /\ req'[s].at = "see"
        BY <2>1, <3>5 DEF Request
      <4>2. h \in made'[u]
        BY <3>2, <3>3 DEF TypeOK
      <4> QED
        BY <4>1, <4>2 DEF RequestOK, Sharing
    <3>7. RefsAreMade'
      BY <3>1, <3>2, <3>3 DEF RefsAreMade, TypeOK
    <3> QED
      BY <3>2, <3>4, <3>5, <3>6, <3>7, OthersRely, StaysEarned
  <2>4. CASE UploadSee(s)
    <3>1. Grows
      BY <2>4 DEF UploadSee, Grows
    <3>2. Only(s) /\ req'[s] = [req[s] EXCEPT !.at = "used by user"]
      BY <2>4, GoesTo DEF UploadSee, Goto
    <3>3. (req[s] # None => RequestOK(req[s]))'
      BY <2>1, <3>2 DEF RequestOK, Request, Earned, Sharing
    <3>4. req[s].hash \in made[req[s].user]
      BY <2>1, <2>4 DEF UploadSee, At, RequestsOK, RequestOK, Earned
    <3>5. VisibleIsEarned'
      <4>1. \A v \in Users : \A h \in visible'[v] : h \in visible[v] \/ h \in made'[v]
        BY ZenonT(30), <2>4, <3>4 DEF UploadSee, Seen, TypeOK
      <4> QED
        BY <3>1, <4>1, StaysEarned
    <3> QED
      BY <2>4, <3>1, <3>2, <3>3, <3>5, OthersRely DEF UploadSee, RefsAreMade
  <2>5. CASE UploadUsedByUser(s)
    <3>1. Only(s) /\ (req'[s] = None \/ req'[s].at = "used by org")
      BY <2>1, <2>5, GotoGoes, EndGoes DEF UploadUsedByUser
    <3> QED
      BY <2>5, <3>1, Unearned DEF UploadUsedByUser, Earned, Sharing
  <2>6. CASE UploadUsedByOrg(s)
    <3>1. Only(s) /\ (req'[s] = None \/ req'[s].at = "drop new")
      BY <2>1, <2>6, GotoGoes, EndGoes DEF UploadUsedByOrg
    <3> QED
      BY <2>6, <3>1, Unearned DEF UploadUsedByOrg, Earned, Sharing
  <2>7. CASE UploadDrop(s)
    BY <2>7, GoesTo, Unearned DEF UploadDrop, End
  <2> QED
    BY <1>6, <2>2, <2>3, <2>4, <2>5, <2>6, <2>7 DEF UploadStep
<1>7. ASSUME NEW s \in Slots, RemoveStep(s)
      PROVE  RefsAreMade' /\ RequestsOK' /\ VisibleIsEarned'
  <2>1. req[s] # None /\ req[s] \in Request
    BY <1>7, ThereType DEF RemoveStep, RemoveRef, RemoveOrgs, RemoveShared, RemoveHide,
                            CleanupKeys, CleanupNext, CleanupOrg, CleanupDrop, At
  <2>2. req[s].at \notin Earned
    BY <1>7 DEF RemoveStep, RemoveRef, RemoveOrgs, RemoveShared, RemoveHide,
                CleanupKeys, CleanupNext, CleanupOrg, CleanupDrop, At, Earned, Sharing
  <2>3. Only(s) /\ (req'[s] = None \/ req'[s].at \notin Earned)
    <3> USE <2>1 DEF Earned, Sharing
    <3>1. CASE RemoveRef(s)
      BY <3>1, GotoGoes DEF RemoveRef
    <3>2. CASE RemoveOrgs(s)
      <4>0. req' = [req EXCEPT ![s] = [req[s] EXCEPT !.at = "shared", !.left = OrgsOf(req[s].user)]]
        BY <3>2 DEF RemoveOrgs
      <4>1. /\ Only(s)
            /\ req'[s] = [req[s] EXCEPT !.at = "shared", !.left = OrgsOf(req[s].user)]
        BY <4>0, GoesTo
      <4> QED
        BY <4>1 DEF Request
    <3>3. CASE RemoveShared(s)
      <4>1. ASSUME NEW o, req' = [req EXCEPT ![s].left = @ \ {o}]
            PROVE  Only(s) /\ req'[s].at = req[s].at
        <5>1. Only(s) /\ req'[s] = [req[s] EXCEPT !.left = req[s].left \ {o}]
          BY <4>1, GoesTo
        <5> QED
          BY <5>1 DEF Request
      <4> QED
        BY <2>2, <3>3, <4>1, GotoGoes DEF RemoveShared
    <3>4. CASE RemoveHide(s)
      BY <3>4, GotoGoes DEF RemoveHide
    <3>5. CASE CleanupKeys(s)
      <4>0. req' = [req EXCEPT ![s] = [req[s] EXCEPT !.at = "clean", !.left = Candidates(req[s].hash)]]
        BY <3>5 DEF CleanupKeys
      <4>1. /\ Only(s)
            /\ req'[s] = [req[s] EXCEPT !.at = "clean", !.left = Candidates(req[s].hash)]
        BY <4>0, GoesTo
      <4> QED
        BY <4>1 DEF Request
    <3>6. CASE CleanupNext(s)
      <4>1. ASSUME NEW g,
                   req' = [req EXCEPT ![s].left = @ \ {g}, ![s].other = g,
                                      ![s].at = IF UsedByUser(g) THEN "clean" ELSE "clean org"]
            PROVE  Only(s) /\ req'[s].at \in {"clean", "clean org"}
        <5> DEFINE r == [req[s] EXCEPT !.left = req[s].left \ {g}, !.other = g,
                                       !.at = IF UsedByUser(g) THEN "clean" ELSE "clean org"]
        <5>0. req' = [req EXCEPT ![s] = r]
          BY <4>1
        <5>1. Only(s) /\ req'[s] = r
          BY <5>0, GoesTo
        <5> QED
          BY <5>1 DEF Request
      <4> QED
        BY <3>6, <4>1, EndGoes DEF CleanupNext
    <3>7. CASE CleanupOrg(s)
      <4>1. PICK where \in {"clean", "clean drop"} : Goto(s, where)
        BY <3>7 DEF CleanupOrg
      <4> QED
        BY <4>1, GotoGoes
    <3>8. CASE CleanupDrop(s)
      <4>1. Goto(s, "clean")
        BY <3>8 DEF CleanupDrop
      <4> QED
        BY <4>1, GotoGoes
    <3> QED
      BY <1>7, <3>1, <3>2, <3>3, <3>4, <3>5, <3>6, <3>7, <3>8 DEF RemoveStep
  <2>4. /\ UNCHANGED <<members, made>>
        /\ \A u \in Users : refs'[u] \subseteq refs[u] /\ visible'[u] \subseteq visible[u]
    BY <1>7 DEF RemoveStep, RemoveRef, RemoveOrgs, RemoveShared, RemoveHide,
                CleanupKeys, CleanupNext, CleanupOrg, CleanupDrop, TypeOK
  <2> QED
    BY <2>3, <2>4, Unearned
<1>8. ASSUME NEW s \in Slots, ShareStep(s)
      PROVE  RefsAreMade' /\ RequestsOK' /\ VisibleIsEarned'
  <2>1. /\ req[s] # None /\ req[s] \in Request
        /\ req[s].at \in Sharing /\ req[s].org \in Orgs
    BY <1>8, ThereType DEF ShareStep, ShareRef, ShareMembers, ShareShow, At, Sharing
  <2>2. req[s].hash \in made[req[s].user] /\ req[s].user \in members[req[s].org]
    BY <2>1 DEF RequestsOK, RequestOK, Earned
  <2>3. Grows
    BY <1>8 DEF ShareStep, ShareRef, ShareMembers, ShareShow, Grows
  <2>4. Only(s) /\ (req[s] # None => RequestOK(req[s]))'
    <3> USE <2>1, <2>2 DEF RequestOK
    <3>1. CASE ShareRef(s)
      BY <3>1, GotoGoes DEF ShareRef
    <3>2. CASE ShareMembers(s)
      <4>0. req' = [req EXCEPT ![s] = [req[s] EXCEPT !.at = "show", !.left = Audience(req[s].org)]]
        BY <3>2 DEF ShareMembers
      <4>1. /\ Only(s)
            /\ req'[s] = [req[s] EXCEPT !.at = "show", !.left = Audience(req[s].org)]
        BY <4>0, GoesTo
      <4>2. /\ req'[s].user = req[s].user /\ req'[s].hash = req[s].hash
            /\ req'[s].org = req[s].org /\ req'[s].left = members[req[s].org]
        BY <4>1 DEF Request, Audience
      <4> QED
        BY <3>2, <4>1, <4>2 DEF ShareMembers
    <3>3. CASE ShareShow(s)
      <4>1. CASE End(s)
        BY <4>1, EndGoes
      <4>2. ASSUME NEW u \in req[s].left, req' = [req EXCEPT ![s].left = @ \ {u}]
            PROVE  Only(s) /\ (req[s] # None => RequestOK(req[s]))'
        <5>1. req[s].left \subseteq members[req[s].org]
          BY <3>3 DEF ShareShow, At, RequestsOK
        <5> QED
          <6>1. Only(s) /\ req'[s] = [req[s] EXCEPT !.left = req[s].left \ {u}]
            BY <4>2, GoesTo
          <6>2. /\ req'[s].user = req[s].user /\ req'[s].hash = req[s].hash
                /\ req'[s].org = req[s].org /\ req'[s].left \subseteq req[s].left
            BY <6>1 DEF Request
          <6> QED
            BY <3>3, <5>1, <6>1, <6>2 DEF ShareShow
      <4> QED
        BY <3>3, <4>1, <4>2 DEF ShareShow
    <3> QED
      BY <1>8, <3>1, <3>2, <3>3 DEF ShareStep
  <2>5. VisibleIsEarned'
    <3>1. CASE ~ShareShow(s)
      BY <1>8, <2>3, <3>1, StaysEarned DEF ShareStep, ShareRef, ShareMembers
    <3>2. CASE ShareShow(s)
      <4>1. req[s].left \subseteq members[req[s].org]
        BY <2>1, <3>2 DEF ShareShow, At, RequestsOK, RequestOK
      <4>2. \A u \in Users : \A h \in visible'[u] :
               h \in visible[u] \/ (h = req[s].hash /\ u \in members[req[s].org])
        BY <3>2, <4>1 DEF ShareShow, TypeOK
      <4>3. UNCHANGED <<members, made>> /\ req[s].user \in Users
        BY <2>1, <3>2 DEF ShareShow, Request
      <4> QED
        BY <2>1, <2>2, <2>3, <4>2, <4>3, StaysEarned
    <3> QED
      BY <3>1, <3>2
  <2>6. RefsAreMade'
    BY <1>8 DEF ShareStep, ShareRef, ShareMembers, ShareShow, RefsAreMade
  <2> QED
    BY <2>3, <2>4, <2>5, <2>6, OthersRely
<1> QED
  BY <1>1, <1>2, <1>3, <1>4, <1>5, <1>6, <1>7, <1>8 DEF Next

\* Whatever is uploaded, replaced, removed, shared and joined at the same
\* time, a user sees only plugins of her own and of people she is with in
\* an organization.
THEOREM TenantsAreApart == Spec => []VisibleIsEarned
<1>1. Init => IInv
  <2>1. Init => RefsAreMade /\ RequestsOK /\ VisibleIsEarned
    BY DEF Init, RefsAreMade, RequestsOK, VisibleIsEarned
  <2> QED
    BY <2>1, InitType DEF IInv
<1>2. IInv /\ [Next]_vars => IInv'
  <2>1. IInv /\ [Next]_vars => TypeOK'
    BY TypeStep DEF IInv
  <2> QED
    BY <2>1, ApartStep DEF IInv
<1>3. IInv => VisibleIsEarned
  BY DEF IInv
<1> QED
  BY <1>1, <1>2, <1>3, PTL DEF Spec
------------------------------------------------------------------------------
(* Workers, with one request at a time *)

\* No request begins before the one under way is answered.
OneAtATime == \A s, t \in Slots : req[s] # None /\ req[t] # None => s = t

Used(h) == UsedByUser(h) \/ UsedByOrg(h)

\* What a request that is alone may rely on.
WorkOK(r) ==
    /\ r.at \notin {"used by org", "drop new"}
    /\ r.at \in {"ref", "share"} => r.hash \in registry
    /\ r.at \in {"see", "used by user"} => r.hash \in refs[r.user]
    /\ r.at \in {"clean org", "clean drop"} => ~UsedByUser(r.other)
    /\ r.at = "clean drop" => ~UsedByOrg(r.other)
    /\ r.at \in Cleaning =>
          \A h \in registry : Used(h) \/ h \in r.left \/ (r.at # "clean" /\ h = r.other)

WorkersOK == \A s \in Slots : req[s] # None => WorkOK(req[s])

WorkInv == TypeOK /\ RefsHaveWorkers /\ OneVersionEach /\ WorkersOK

\* While a request goes on there is no other.
LEMMA NoOther ==
    ASSUME OneAtATime, OneAtATime', NEW s \in Slots, Only(s),
           req[s] # None \/ req'[s] # None
    PROVE  \A t \in Slots \ {s} : req'[t] = None
BY DEF OneAtATime, Only

\* Only the request that goes on has something to rely on.
LEMMA AloneRelies ==
    ASSUME OneAtATime, OneAtATime', NEW s \in Slots, Only(s),
           req[s] # None \/ req'[s] # None,
           (req[s] # None => WorkOK(req[s]))'
    PROVE  WorkersOK'
BY NoOther DEF WorkersOK

\* A request begins.
LEMMA BeginWorks ==
    ASSUME WorkInv, OneAtATime, OneAtATime',
           NEW s \in Slots, NEW u \in Users, NEW h \in Hashes,
           NEW o \in Orgs \cup {None}, NEW where \in {"insert", "ref", "unref", "share"},
           Begin(s, u, h, o, where), UNCHANGED <<registry, refs, org_refs>>,
           where = "share" => o \in Orgs,
           where \in {"ref", "share"} => h \in registry
    PROVE  RefsHaveWorkers' /\ OneVersionEach' /\ WorkersOK'
<1> DEFINE r == [user |-> u, hash |-> h, org |-> o, at |-> where,
                 other |-> None, left |-> {}]
<1>1. Only(s) /\ req'[s] = r
  BY GoesTo DEF Begin, WorkInv
<1>2. r.at = where /\ r.hash = h
  OBVIOUS
<1> HIDE DEF r
<1>3. (req[s] # None => WorkOK(req[s]))'
  BY <1>1, <1>2 DEF WorkOK, Cleaning
<1>4. r # None
  <2>1. r \in Request
    BY DEF r, Request, Uploading, Removing, Cleaning, Sharing
  <2> QED
    BY <2>1, NoRequest
<1>5. WorkersOK'
  BY <1>1, <1>3, <1>4, AloneRelies
<1> QED
  BY <1>5 DEF WorkInv, RefsHaveWorkers, OneVersionEach

\* Nothing changes that requests rely on.
LEMMA NothingWorks ==
    ASSUME WorkInv, UNCHANGED <<registry, refs, org_refs, req>>
    PROVE  RefsHaveWorkers' /\ OneVersionEach' /\ WorkersOK'
<1>1. \A h : UNCHANGED UsedByUser(h) /\ UNCHANGED UsedByOrg(h)
  BY DEF UsedByUser, UsedByOrg
<1>2. \A r : WorkOK(r) => WorkOK(r)'
  BY <1>1 DEF WorkOK, Used
<1>3. WorkersOK'
  BY <1>2 DEF WorkInv, WorkersOK
<1> QED
  BY <1>3 DEF WorkInv, RefsHaveWorkers, OneVersionEach

\* A request goes on, or ends, and changes neither workers nor references.
LEMMA GoingOnWorks ==
    ASSUME WorkInv, OneAtATime, OneAtATime', NEW s \in Slots, req[s] # None,
           NEW r, req' = [req EXCEPT ![s] = r],
           UNCHANGED <<registry, refs, org_refs>>,
           r # None => WorkOK(r)
    PROVE  RefsHaveWorkers' /\ OneVersionEach' /\ WorkersOK'
<1>1. Only(s) /\ req'[s] = r
  BY GoesTo DEF WorkInv
<1>2. (req[s] # None => WorkOK(req[s]))'
  <2>1. \A h : UNCHANGED UsedByUser(h) /\ UNCHANGED UsedByOrg(h)
    BY DEF UsedByUser, UsedByOrg
  <2>2. UNCHANGED registry /\ UNCHANGED refs
    OBVIOUS
  <2>3. ASSUME r # None PROVE WorkOK(r)'
    BY <2>1, <2>2, <2>3 DEF WorkOK, Used
  <2> QED
    BY <1>1, <2>3 DEF WorkOK
<1>3. WorkersOK'
  BY <1>1, <1>2, AloneRelies
<1> QED
  BY <1>3 DEF WorkInv, RefsHaveWorkers, OneVersionEach
\* A step of an upload.
LEMMA UploadWorks ==
    ASSUME WorkInv, OneAtATime, OneAtATime', NEW s \in Slots, UploadStep(s)
    PROVE  RefsHaveWorkers' /\ OneVersionEach' /\ WorkersOK'
<1> DEFINE r == req[s]
           u == req[s].user
           h == req[s].hash
<1>0. /\ TypeOK /\ r # None /\ WorkOK(r)
      /\ r \in Request /\ u \in Users /\ h \in Hashes
  BY ThereType DEF UploadStep, UploadInsert, UploadRef, UploadSee, UploadUsedByUser,
                   UploadUsedByOrg, UploadDrop, At, WorkInv, WorkersOK
<1>1. CASE UploadInsert(s)
  <2>1. r.at = "insert" /\ registry' = registry \cup {h} /\ UNCHANGED <<refs, org_refs>>
    BY <1>1 DEF UploadInsert, At
  <2>2. Only(s) /\ req'[s].at = "ref" /\ req'[s].hash = h
    BY <1>0, <1>1, GotoGoes DEF UploadInsert
  <2>3. WorkOK(req[s])'
    BY <2>1, <2>2 DEF WorkOK, Cleaning
  <2>4. WorkersOK'
    BY <1>0, <2>2, <2>3, AloneRelies
  <2> QED
    BY <2>1, <2>4 DEF WorkInv, RefsHaveWorkers, OneVersionEach
<1>2. CASE UploadRef(s)
  <2> DEFINE old == OldVersions(u, h)
  <2>1. PICK gone \in IF old = {} THEN {None} ELSE old :
          /\ refs' = [refs EXCEPT ![u] = (@ \ {gone}) \cup {h}]
          /\ org_refs' = [o \in Orgs |->
                IF o \in OrgsOf(u) /\ org_refs[o] \cap old # {}
                THEN (org_refs[o] \ old) \cup {h} ELSE org_refs[o]]
          /\ req' = [req EXCEPT ![s].at = "see", ![s].other = gone]
    BY <1>2 DEF UploadRef
  <2>2. h \in registry /\ UNCHANGED registry
    BY <1>0, <1>2 DEF UploadRef, At, WorkOK
  <2>3. old = { g \in refs[u] : PluginId[g] = PluginId[h] }
    BY <1>0 DEF OldVersions, WorkInv, RefsHaveWorkers
  <2>4. /\ refs'[u] = (refs[u] \ {gone}) \cup {h}
        /\ \A v \in Users \ {u} : refs'[v] = refs[v]
    BY <1>0, <2>1 DEF TypeOK
  <2>5. \A g \in old : g = gone
    <3>1. CASE old = {}
      BY <3>1
    <3>2. CASE old # {}
      <4>1. gone \in old
        BY <2>1, <3>2
      <4> QED
        BY <1>0, <2>3, <4>1 DEF WorkInv, OneVersionEach
    <3> QED
      BY <3>1, <3>2
  <2>6. OneVersionEach'
    BY <1>0, <2>3, <2>4, <2>5 DEF WorkInv, OneVersionEach
  <2>7. RefsHaveWorkers'
    <3>1. \A v \in Users : refs'[v] \subseteq registry'
      BY <1>0, <2>2, <2>4 DEF WorkInv, RefsHaveWorkers
    <3>2. \A o \in Orgs : org_refs'[o] \subseteq registry'
      <4> HIDE DEF old
      <4> QED
        BY <2>1, <2>2 DEF WorkInv, RefsHaveWorkers
    <3> QED
      BY <3>1, <3>2 DEF RefsHaveWorkers
  <2>8. Only(s) /\ req'[s] = [r EXCEPT !.at = "see", !.other = gone]
    <3>1. req' = [req EXCEPT ![s] = [r EXCEPT !.at = "see", !.other = gone]]
      BY <2>1
    <3> QED
      BY <1>0, <3>1, GoesTo
  <2>9. req'[s].at = "see" /\ req'[s].user = u /\ req'[s].hash = h
    BY <1>0, <2>8 DEF Request
  <2>10. WorkOK(req[s])'
    BY <2>4, <2>9 DEF WorkOK, Cleaning
  <2> QED
    BY <1>0, <2>6, <2>7, <2>8, <2>10, AloneRelies
<1>3. CASE UploadSee(s)
  <2>1. WorkOK([r EXCEPT !.at = "used by user"])
    BY <1>0, <1>3 DEF UploadSee, At, WorkOK, Request, Cleaning
  <2> QED
    BY <1>0, <1>3, <2>1, GoingOnWorks DEF UploadSee, Goto
<1>4. CASE UploadUsedByUser(s)
  <2>1. UsedByUser(h)
    BY <1>0, <1>4 DEF UploadUsedByUser, At, WorkOK, UsedByUser
  <2>2. req' = [req EXCEPT ![s] = None] /\ UNCHANGED <<registry, refs, org_refs>>
    BY <1>4, <2>1 DEF UploadUsedByUser, End
  <2> QED
    BY <1>0, <2>2, GoingOnWorks
<1>5. CASE UploadUsedByOrg(s) \/ UploadDrop(s)
  BY <1>0, <1>5 DEF UploadUsedByOrg, UploadDrop, At, WorkOK
<1> QED
  BY <1>1, <1>2, <1>3, <1>4, <1>5 DEF UploadStep

\* A step of a removal.
LEMMA RemoveWorks ==
    ASSUME WorkInv, OneAtATime, OneAtATime', NEW s \in Slots, RemoveStep(s)
    PROVE  RefsHaveWorkers' /\ OneVersionEach' /\ WorkersOK'
<1> DEFINE r == req[s]
           g == req[s].other
<1>0. TypeOK /\ r # None /\ WorkOK(r) /\ r \in Request
  BY ThereType DEF RemoveStep, RemoveRef, RemoveOrgs, RemoveShared, RemoveHide, CleanupKeys,
                   CleanupNext, CleanupOrg, CleanupDrop, At, WorkInv, WorkersOK
<1>1. CASE RemoveRef(s)
  <2>1. /\ \A u \in Users : refs'[u] \subseteq refs[u]
        /\ UNCHANGED <<registry, org_refs>>
    BY <1>0, <1>1 DEF RemoveRef, TypeOK
  <2>2. Only(s) /\ req'[s].at = "orgs"
    BY <1>0, <1>1, GotoGoes DEF RemoveRef
  <2>3. WorkOK(req[s])'
    BY <2>2 DEF WorkOK, Cleaning
  <2>4. WorkersOK'
    BY <1>0, <2>2, <2>3, AloneRelies
  <2> QED
    BY <2>1, <2>4 DEF WorkInv, RefsHaveWorkers, OneVersionEach
<1>2. ASSUME NEW where \in {"hide", "keys", "shared"}, NEW rest,
             \/ req' = [req EXCEPT ![s] = [r EXCEPT !.at = where]]
             \/ req' = [req EXCEPT ![s] = [r EXCEPT !.at = where, !.left = rest]],
             UNCHANGED <<registry, refs, org_refs>>
      PROVE  RefsHaveWorkers' /\ OneVersionEach' /\ WorkersOK'
  <2>1. /\ WorkOK([r EXCEPT !.at = where])
        /\ WorkOK([r EXCEPT !.at = where, !.left = rest])
    BY <1>0 DEF WorkOK, Request, Cleaning
  <2> QED
    BY <1>0, <1>2, <2>1, GoingOnWorks
<1>3. CASE RemoveOrgs(s)
  BY <1>2, <1>3 DEF RemoveOrgs
<1>4. CASE RemoveShared(s)
  <2>1. CASE Goto(s, "hide") \/ Goto(s, "keys")
    BY <1>2, <1>4, <2>1 DEF RemoveShared, Goto
  <2>2. ASSUME NEW o, req' = [req EXCEPT ![s].left = r.left \ {o}]
        PROVE  RefsHaveWorkers' /\ OneVersionEach' /\ WorkersOK'
    <3>1. r.at = "shared"
      BY <1>4 DEF RemoveShared, At
    <3>2. WorkOK([r EXCEPT !.left = r.left \ {o}])
      BY <1>0, <3>1 DEF WorkOK, Request, Cleaning
    <3> QED
      BY <1>0, <1>4, <2>2, <3>2, GoingOnWorks DEF RemoveShared
  <2> QED
    BY <1>4, <2>1, <2>2 DEF RemoveShared
<1>5. CASE RemoveHide(s)
  BY <1>2, <1>5 DEF RemoveHide, Goto
<1>6. CASE CleanupKeys(s)
  <2>1. WorkOK([r EXCEPT !.at = "clean", !.left = registry])
    BY <1>0 DEF WorkOK, Request
  <2> QED
    BY <1>0, <1>6, <2>1, GoingOnWorks DEF CleanupKeys, Candidates
<1>7. CASE CleanupNext(s)
  <2>1. CASE End(s)
    BY <1>0, <1>7, <2>1, GoingOnWorks DEF CleanupNext, End
  <2>2. ASSUME NEW h \in r.left,
               req' = [req EXCEPT ![s].left = @ \ {h}, ![s].other = h,
                                  ![s].at = IF UsedByUser(h) THEN "clean" ELSE "clean org"]
        PROVE  RefsHaveWorkers' /\ OneVersionEach' /\ WorkersOK'
    <3> DEFINE where == IF UsedByUser(h) THEN "clean" ELSE "clean org"
               next == [r EXCEPT !.left = r.left \ {h}, !.other = h, !.at = where]
    <3>1. r.at = "clean"
      BY <1>7 DEF CleanupNext, At
    <3>2. /\ next.left = r.left \ {h} /\ next.other = h /\ next.at = where
          /\ where \in {"clean", "clean org"}
          /\ where = "clean org" <=> ~UsedByUser(h)
      BY <1>0 DEF Request
    <3>3. \A k \in registry : Used(k) \/ k \in r.left
      BY <1>0, <3>1 DEF WorkOK, Cleaning
    <3> HIDE DEF next, where
    <3>4. WorkOK(next)
      BY <3>2, <3>3 DEF WorkOK, Used, Cleaning
    <3>5. req' = [req EXCEPT ![s] = next]
      BY <2>2 DEF next, where
    <3> QED
      BY <1>0, <1>7, <3>4, <3>5, GoingOnWorks DEF CleanupNext
  <2> QED
    BY <1>7, <2>1, <2>2 DEF CleanupNext
<1>8. CASE CleanupOrg(s)
  <2> DEFINE where == IF UsedByOrg(g) THEN "clean" ELSE "clean drop"
             next == [r EXCEPT !.at = where]
  <2>1. r.at = "clean org"
    BY <1>8 DEF CleanupOrg, At
  <2>2. /\ next.left = r.left /\ next.other = g /\ next.at = where
        /\ where \in {"clean", "clean drop"}
        /\ where = "clean drop" <=> ~UsedByOrg(g)
    BY <1>0 DEF Request
  <2>3. /\ \A k \in registry : Used(k) \/ k \in r.left \/ k = g
        /\ ~UsedByUser(g)
    BY <1>0, <2>1 DEF WorkOK, Cleaning
  <2> HIDE DEF next, where
  <2>4. WorkOK(next)
    BY <2>2, <2>3 DEF WorkOK, Used, Cleaning
  <2>5. req' = [req EXCEPT ![s] = next]
    BY <1>8 DEF CleanupOrg, Goto, next, where
  <2> QED
    BY <1>0, <1>8, <2>4, <2>5, GoingOnWorks DEF CleanupOrg
<1>9. CASE CleanupDrop(s)
  <2>1. /\ r.at = "clean drop" /\ registry' = registry \ {g}
        /\ UNCHANGED refs /\ UNCHANGED org_refs
        /\ req' = [req EXCEPT ![s] = [r EXCEPT !.at = "clean"]]
    BY <1>9 DEF CleanupDrop, At, Goto
  <2>2. ~UsedByUser(g) /\ ~UsedByOrg(g)
    BY <1>0, <2>1 DEF WorkOK
  <2>3. RefsHaveWorkers'
    BY <2>1, <2>2 DEF WorkInv, RefsHaveWorkers, UsedByUser, UsedByOrg
  <2>4. Only(s) /\ req'[s] = [r EXCEPT !.at = "clean"]
    BY <1>0, <2>1, GoesTo
  <2>5. req'[s].at = "clean" /\ req'[s].left = r.left
    BY <1>0, <2>4 DEF Request
  <2>6. \A k \in registry' : Used(k) \/ k \in r.left
    BY <1>0, <2>1 DEF WorkOK, Cleaning
  <2>7. \A k : UNCHANGED Used(k)
    BY <2>1 DEF Used, UsedByUser, UsedByOrg
  <2>8. WorkOK(req[s])'
    BY <2>5, <2>6, <2>7 DEF WorkOK, Cleaning
  <2>9. WorkersOK'
    BY <1>0, <2>4, <2>8, AloneRelies
  <2> QED
    BY <2>1, <2>3, <2>9 DEF WorkInv, OneVersionEach
<1> QED
  BY <1>1, <1>3, <1>4, <1>5, <1>6, <1>7, <1>8, <1>9 DEF RemoveStep
\* A step of a sharing.
LEMMA ShareWorks ==
    ASSUME WorkInv, OneAtATime, OneAtATime', NEW s \in Slots, ShareStep(s)
    PROVE  RefsHaveWorkers' /\ OneVersionEach' /\ WorkersOK'
<1> DEFINE r == req[s]
<1>0. TypeOK /\ r # None /\ WorkOK(r) /\ r \in Request
  BY ThereType DEF ShareStep, ShareRef, ShareMembers, ShareShow, At, WorkInv, WorkersOK
<1>1. CASE ShareRef(s)
  <2>1. r.hash \in registry
    BY <1>0, <1>1 DEF ShareRef, At, WorkOK
  <2>2. /\ UNCHANGED <<registry, refs>>
        /\ \A o \in Orgs : org_refs'[o] \subseteq org_refs[o] \cup {r.hash}
    BY <1>0, <1>1 DEF ShareRef, TypeOK
  <2>3. Only(s) /\ req'[s].at = "members"
    BY <1>0, <1>1, GotoGoes DEF ShareRef
  <2>4. WorkOK(req[s])'
    BY <2>3 DEF WorkOK, Cleaning
  <2>5. WorkersOK'
    BY <1>0, <2>3, <2>4, AloneRelies
  <2> QED
    BY <2>1, <2>2, <2>5 DEF WorkInv, RefsHaveWorkers, OneVersionEach
<1>2. CASE ShareMembers(s)
  <2>1. WorkOK([r EXCEPT !.at = "show", !.left = Audience(r.org)])
    BY <1>0 DEF WorkOK, Request, Cleaning
  <2> QED
    BY <1>0, <1>2, <2>1, GoingOnWorks DEF ShareMembers
<1>3. CASE ShareShow(s)
  <2>1. CASE End(s)
    BY <1>0, <1>3, <2>1, GoingOnWorks DEF ShareShow, End
  <2>2. ASSUME NEW u, req' = [req EXCEPT ![s].left = r.left \ {u}]
        PROVE  RefsHaveWorkers' /\ OneVersionEach' /\ WorkersOK'
    <3>1. r.at = "show"
      BY <1>3 DEF ShareShow, At
    <3>2. WorkOK([r EXCEPT !.left = r.left \ {u}])
      BY <1>0, <3>1 DEF WorkOK, Request, Cleaning
    <3> QED
      BY <1>0, <1>3, <2>2, <3>2, GoingOnWorks DEF ShareShow
  <2> QED
    BY <1>3, <2>1, <2>2 DEF ShareShow
<1> QED
  BY <1>1, <1>2, <1>3 DEF ShareStep

\* A step of a request that is alone.
LEMMA WorkStep == WorkInv /\ OneAtATime /\ OneAtATime' /\ [Next]_vars => WorkInv'
<1> SUFFICES ASSUME WorkInv, OneAtATime, OneAtATime', [Next]_vars PROVE WorkInv'
  OBVIOUS
<1> DEFINE Works == RefsHaveWorkers' /\ OneVersionEach' /\ WorkersOK'
<1>1. ASSUME NEW s \in Slots, NEW u \in Users, NEW h \in Hashes, UploadCheck(s, u, h)
      PROVE  Works
  <2> DEFINE where == IF h \in registry THEN "ref" ELSE "insert"
  <2>1. /\ where \in {"insert", "ref", "unref", "share"}
        /\ where \in {"ref", "share"} => h \in registry
        /\ where # "share" /\ None \in Orgs \cup {None}
    OBVIOUS
  <2>2. Begin(s, u, h, None, where) /\ UNCHANGED <<registry, refs, org_refs>>
    BY <1>1 DEF UploadCheck
  <2> HIDE DEF where
  <2> QED
    BY <2>1, <2>2, BeginWorks
<1>2. ASSUME NEW s \in Slots, NEW u \in Users, NEW h \in Hashes, RemoveLookup(s, u, h)
      PROVE  Works
  BY <1>2, BeginWorks DEF RemoveLookup
<1>3. ASSUME NEW s \in Slots, NEW u \in Users, NEW h \in Hashes, NEW o \in Orgs,
             ShareLookup(s, u, h, o)
      PROVE  Works
  BY <1>3, BeginWorks DEF ShareLookup
<1>4. ASSUME NEW o \in Orgs, NEW u \in Users, AddUser(o, u) PROVE Works
  BY <1>4, NothingWorks DEF AddUser
<1>5. ASSUME UNCHANGED vars PROVE Works
  BY <1>5, NothingWorks DEF vars
<1>6. Works
  BY <1>1, <1>2, <1>3, <1>4, <1>5, UploadWorks, RemoveWorks, ShareWorks DEF Next
<1>7. TypeOK'
  BY TypeStep DEF WorkInv
<1> QED
  BY <1>6, <1>7 DEF WorkInv

LEMMA InitWorks == Init => WorkInv
<1> SUFFICES ASSUME Init PROVE WorkInv
  OBVIOUS
<1>1. RefsHaveWorkers /\ OneVersionEach /\ WorkersOK
  BY DEF Init, RefsHaveWorkers, OneVersionEach, WorkersOK
<1> QED
  BY <1>1, InitType DEF WorkInv

\* The step that ends a removal has asked about every worker.
LEMMA EndOfCleanup == WorkInv /\ OneAtATime /\ [Next]_vars => CleansUp
<1> SUFFICES ASSUME WorkInv, OneAtATime, [Next]_vars,
                    NEW s \in Slots, At(s, "clean"), req'[s] = None
             PROVE  \A h \in registry' : Used(h)
  BY DEF CleansUp, Used
<1>1. /\ req \in [Slots -> Request \cup {None}] /\ req[s] \in Request
      /\ req[s].at = "clean" /\ req[s] # None /\ WorkOK(req[s])
  BY ThereType DEF At, WorkInv, TypeOK, WorkersOK
<1>2. \A t \in Slots \ {s} : req[t] = None
  BY <1>1 DEF OneAtATime
<1>3. CleanupNext(s)
  <2>1. ASSUME NEW t \in Slots, NEW u, NEW h, NEW o, NEW where, Begin(t, u, h, o, where)
        PROVE  FALSE
    BY <1>1, <2>1 DEF Begin
  <2>2. ASSUME NEW t \in Slots, UploadStep(t) \/ RemoveStep(t) \/ ShareStep(t)
        PROVE  t = s
    BY <1>2, <2>2 DEF UploadStep, UploadInsert, UploadRef, UploadSee, UploadUsedByUser,
                      UploadUsedByOrg, UploadDrop, RemoveStep, RemoveRef, RemoveOrgs,
                      RemoveShared, RemoveHide, CleanupKeys, CleanupNext, CleanupOrg,
                      CleanupDrop, ShareStep, ShareRef, ShareMembers, ShareShow, At
  <2>3. UploadStep(s) \/ RemoveStep(s) \/ ShareStep(s) => CleanupNext(s)
    BY <1>1 DEF UploadStep, UploadInsert, UploadRef, UploadSee, UploadUsedByUser,
                UploadUsedByOrg, UploadDrop, RemoveStep, RemoveRef, RemoveOrgs,
                RemoveShared, RemoveHide, CleanupKeys, CleanupOrg,
                CleanupDrop, ShareStep, ShareRef, ShareMembers, ShareShow, At
  <2>4. ~(UNCHANGED req)
    BY <1>1
  <2> QED
    BY <2>1, <2>2, <2>3, <2>4 DEF Next, UploadCheck, RemoveLookup, ShareLookup, AddUser, vars
<1>4. ASSUME NEW h \in req[s].left,
             req' = [req EXCEPT ![s].left = @ \ {h}, ![s].other = h,
                                ![s].at = IF UsedByUser(h) THEN "clean" ELSE "clean org"]
      PROVE  FALSE
  <2> DEFINE r == [req[s] EXCEPT !.left = @ \ {h}, !.other = h,
                                 !.at = IF UsedByUser(h) THEN "clean" ELSE "clean org"]
  <2>1. r \in Request
    <3>1. h \in Hashes /\ req[s].left \ {h} \subseteq Hashes
      BY <1>1 DEF Request, Cleaning
    <3> QED
      BY <1>1, <3>1 DEF Request, Removing, Cleaning, Sharing
  <2>2. req'[s] = r
    BY <1>1, <1>4
  <2> QED
    BY <2>1, <2>2, NoRequest
<1>5. req[s].left = {} /\ UNCHANGED registry
  BY <1>3, <1>4 DEF CleanupNext
<1> QED
  BY <1>1, <1>5 DEF WorkOK, Cleaning

\* Whatever was uploaded, replaced, shared and removed before, with one request
\* at a time every plugin that a user made or an organization shares has a
\* worker (plugin_routes.rs:77-78).
THEOREM WorkersStay == Spec /\ []OneAtATime => []RefsHaveWorkers
<1>1. WorkInv => RefsHaveWorkers
  BY DEF WorkInv
<1> QED
  BY <1>1, InitWorks, WorkStep, PTL DEF Spec

\* ... and the old version of a plugin never stays beside the new one: looking
\* it up by its id finds what was uploaded last.
THEOREM NewVersionReplaces == Spec /\ []OneAtATime => []OneVersionEach
<1>1. WorkInv => OneVersionEach
  BY DEF WorkInv
<1> QED
  BY <1>1, InitWorks, WorkStep, PTL DEF Spec

\* ... and a removal leaves no worker that nobody refers to, whatever uploads
\* left in the registry before.
THEOREM RemovalCleansUp == Spec /\ []OneAtATime => [][CleansUp]_vars
BY InitWorks, WorkStep, EndOfCleanup, PTL DEF Spec
------------------------------------------------------------------------------
(* The runs' instances: what MCTenantPlugins calls alone *)

\* In the instance with one request at a time only s1 is ever under way.
MCInv == alone => WorkInv /\ \A s \in Slots : req[s] # None => s = s1

LEMMA MCAlone == (\A s \in Slots : req[s] # None => s = s1) => OneAtATime
BY DEF OneAtATime

LEMMA MCStep == MCInv /\ [MCNext]_<<vars, alone>> => MCInv'
<1> SUFFICES ASSUME MCInv, [MCNext]_<<vars, alone>>, alone' PROVE MCInv'
  BY DEF MCInv
<1>1. CASE MCNext
  <2>1. alone /\ Next /\ \A s \in Slots : req'[s] # None => s = s1
    BY <1>1 DEF MCNext
  <2>2. OneAtATime /\ OneAtATime'
    BY <2>1 DEF OneAtATime, MCInv
  <2> QED
    BY <2>1, <2>2, WorkStep DEF MCInv
<1>2. CASE UNCHANGED <<vars, alone>>
  <2>1. alone /\ UNCHANGED vars /\ UNCHANGED req
    BY <1>2 DEF vars
  <2>2. OneAtATime /\ OneAtATime'
    BY <2>1 DEF OneAtATime, MCInv
  <2> QED
    BY <2>1, <2>2, WorkStep DEF MCInv
<1> QED
  BY <1>1, <1>2

LEMMA MCInitWorks == MCInit => MCInv
BY InitWorks DEF MCInit, MCInv, Init

\* What the run checks of the instance with one request at a time, for any
\* users, organizations, plugins and versions.
THEOREM AloneWorkersStay == MCSpec => []AloneRefsHaveWorkers
<1>1. MCInv => AloneRefsHaveWorkers
  BY DEF MCInv, WorkInv, AloneRefsHaveWorkers
<1> QED
  BY <1>1, MCInitWorks, MCStep, PTL DEF MCSpec

\* ... and of the removals in it.
THEOREM AloneRemovalCleansUp == MCSpec => AloneCleanupIsComplete
<1>1. MCInv /\ [MCNext]_<<vars, alone>> => [alone => CleansUp]_<<vars, alone>>
  BY MCAlone, EndOfCleanup DEF MCInv, MCNext
<1> QED
  BY <1>1, MCInitWorks, MCStep, PTL DEF MCSpec, AloneCleanupIsComplete

------------------------------------------------------------------------------
(* The variables a plugin reads *)

Source == [of : Organizations \cup {"user"}, kind : {"plugin", "named"}]

LEMMA Joined ==
    ASSUME NEW S, NEW s \in Seq(S), NEW t \in Seq(S), NEW u, u = s \o t
    PROVE  /\ u \in Seq(S) /\ Len(u) = Len(s) + Len(t)
           /\ \A i \in 1..Len(s) : u[i] = s[i]
           /\ \A i \in 1..Len(t) : u[Len(s) + i] = t[i]
<1>1. Len(s) \in Nat /\ Len(t) \in Nat
  OBVIOUS
<1>2. /\ u \in Seq(S) /\ Len(u) = Len(s) + Len(t)
      /\ \A i \in 1..Len(s) + Len(t) : u[i] = IF i <= Len(s) THEN s[i] ELSE t[i - Len(s)]
  BY ConcatProperties
<1> QED
  BY <1>1, <1>2

\* The places of the sources of a list of n organizations.
LEMMA SourcesAre ==
    ASSUME NEW list \in Seq(Organizations)
    PROVE  LET n == Len(list)
           IN  /\ n \in Nat
               /\ Sources(list) \in Seq(Source)
               /\ Len(Sources(list)) = 2 + n + n
               /\ Sources(list)[1] = [of |-> "user", kind |-> "plugin"]
               /\ Sources(list)[2] = [of |-> "user", kind |-> "named"]
               /\ \A i \in 1..n : /\ Sources(list)[2 + i] = [of |-> list[i], kind |-> "plugin"]
                                 /\ Sources(list)[2 + n + i] = [of |-> list[i], kind |-> "named"]
<1> DEFINE n == Len(list)
           a == <<[of |-> "user", kind |-> "plugin"], [of |-> "user", kind |-> "named"]>>
           b == [i \in DOMAIN list |-> [of |-> list[i], kind |-> "plugin"]]
           c == [i \in DOMAIN list |-> [of |-> list[i], kind |-> "named"]]
<1>1. n \in Nat /\ DOMAIN list = 1..n /\ \A i \in 1..n : list[i] \in Organizations
  OBVIOUS
<1>2. /\ a \in Seq(Source) /\ Len(a) = 2
      /\ a[1] = [of |-> "user", kind |-> "plugin"] /\ a[2] = [of |-> "user", kind |-> "named"]
  BY DEF Source
<1>3. /\ b \in Seq(Source) /\ Len(b) = n
      /\ \A i \in 1..n : b[i] = [of |-> list[i], kind |-> "plugin"]
  BY <1>1 DEF Source
<1>4. /\ c \in Seq(Source) /\ Len(c) = n
      /\ \A i \in 1..n : c[i] = [of |-> list[i], kind |-> "named"]
  BY <1>1 DEF Source
<1>5. Sources(list) = (a \o b) \o c
  BY DEF Sources
<1> HIDE DEF a, b, c, n
<1> DEFINE ab == a \o b
<1>6. /\ ab \in Seq(Source) /\ Len(ab) = 2 + n
      /\ ab[1] = a[1] /\ ab[2] = a[2] /\ \A i \in 1..n : ab[2 + i] = b[i]
  <2>0. ab = a \o b
    OBVIOUS
  <2> HIDE DEF ab
  <2>1. /\ ab \in Seq(Source) /\ Len(ab) = Len(a) + Len(b)
        /\ \A i \in 1..Len(a) : ab[i] = a[i]
        /\ \A i \in 1..Len(b) : ab[Len(a) + i] = b[i]
    <3>1. a \in Seq(Source) /\ b \in Seq(Source)
      BY <1>2, <1>3
    <3> QED
      BY <2>0, <3>1, Joined
  <2> QED
    BY <1>1, <1>2, <1>3, <2>1
<1> HIDE DEF ab
<1>7. /\ ab \o c \in Seq(Source) /\ Len(ab \o c) = 2 + n + n
      /\ \A i \in 1..2 + n : (ab \o c)[i] = ab[i]
      /\ \A i \in 1..n : (ab \o c)[2 + n + i] = c[i]
  <2> DEFINE abc == ab \o c
  <2>0. abc = ab \o c
    OBVIOUS
  <2> HIDE DEF abc
  <2>1. /\ abc \in Seq(Source) /\ Len(abc) = Len(ab) + Len(c)
        /\ \A i \in 1..Len(ab) : abc[i] = ab[i]
        /\ \A i \in 1..Len(c) : abc[Len(ab) + i] = c[i]
    <3>1. ab \in Seq(Source) /\ c \in Seq(Source)
      BY <1>4, <1>6
    <3> QED
      BY <2>0, <3>1, Joined
  <2>2. abc \in Seq(Source) /\ Len(abc) = 2 + n + n /\ \A i \in 1..2 + n : abc[i] = ab[i]
    BY <1>1, <1>4, <1>6, <2>1
  <2>3. \A i \in 1..n : abc[2 + n + i] = c[i]
    BY <1>1, <1>4, <1>6, <2>1
  <2> QED
    BY <2>2, <2>3 DEF abc
<1>8. Sources(list) = ab \o c
  BY <1>5 DEF ab
<1> DEFINE all == Sources(list)
<1>9. /\ all \in Seq(Source) /\ Len(all) = 2 + n + n
      /\ \A i \in 1..2 + n : all[i] = ab[i]
      /\ \A i \in 1..n : all[2 + n + i] = c[i]
  BY <1>7, <1>8
<1> HIDE DEF all
<1>10. all[1] = a[1] /\ all[2] = a[2]
  BY <1>1, <1>6, <1>9
<1>11. \A i \in 1..n : all[2 + i] = b[i]
  BY <1>1, <1>6, <1>9
<1> QED
  BY <1>1, <1>2, <1>3, <1>4, <1>9, <1>10, <1>11 DEF n, all

Distinct(s) == \A i, j \in 1..Len(s) : i # j => s[i] # s[j]

Place(x) == IF x.of = "user" THEN 0 ELSE SelectInSeq(ids, LAMBDA o : o = x.of)

LEMMA PlaceOfOrganization ==
    ASSUME ids \in Seq(Organizations), Distinct(ids), NEW i \in 1..Len(ids),
           NEW x, x.of = ids[i]
    PROVE  x.of # "user" /\ Place(x) = i
<1>1. x.of # "user"
  BY EnvAssumption
<1>2. { j \in 1..Len(ids) : ids[j] = x.of } = {i}
  BY DEF Distinct
<1>3. Min({i}) = i
  BY DEF Min
<1>4. SelectInSeq(ids, LAMBDA o : o = x.of) = i
  BY <1>2, <1>3 DEF SelectInSeq
<1> QED
  BY <1>1, <1>4 DEF Place

LEMMA OutranksBy ==
    ASSUME NEW s, NEW t
    PROVE  Outranks(s, t) <=>
              \/ s.of = "user" /\ t.of # "user"
              \/ /\ s.of = "user" <=> t.of = "user"
                 /\ s.kind = "plugin" /\ t.kind # "plugin"
              \/ /\ s.of = "user" <=> t.of = "user"
                 /\ s.kind = "plugin" <=> t.kind = "plugin"
                 /\ Place(s) < Place(t)
BY DEF Outranks, Place

\* A source does not come before one that is asked earlier, also when the user
\* has joined more organizations since.
LEMMA AskedInOrder ==
    ASSUME ids \in Seq(Organizations), Distinct(ids), NEW n \in 0..Len(ids),
           NEW src, src = Sources(SubSeq(ids, 1, n)),
           NEW m \in 1..Len(src), NEW k \in 1..Len(src), m <= k
    PROVE  ~Outranks(src[k], src[m])
<1> DEFINE list == SubSeq(ids, 1, n)
<1>1. /\ list \in Seq(Organizations) /\ Len(list) = n /\ n \in Nat
      /\ \A i \in 1..n : list[i] = ids[i] /\ i \in 1..Len(ids)
  OBVIOUS
<1>2. src = Sources(list)
  OBVIOUS
<1> HIDE DEF list
<1>3. /\ Len(src) = 2 + n + n
      /\ src[1] = [of |-> "user", kind |-> "plugin"] /\ src[2] = [of |-> "user", kind |-> "named"]
      /\ \A i \in 1..n : /\ src[2 + i] = [of |-> ids[i], kind |-> "plugin"]
                        /\ src[2 + n + i] = [of |-> ids[i], kind |-> "named"]
  BY <1>1, <1>2, SourcesAre
<1>4. ASSUME NEW l \in 1..Len(src)
      PROVE  \/ l = 1 /\ src[l].of = "user" /\ src[l].kind = "plugin"
             \/ l = 2 /\ src[l].of = "user" /\ src[l].kind = "named"
             \/ /\ l \in 3..2 + n /\ src[l].of # "user" /\ src[l].kind = "plugin"
                /\ Place(src[l]) = l - 2
             \/ /\ l > 2 + n /\ src[l].of # "user" /\ src[l].kind = "named"
                /\ Place(src[l]) = l - 2 - n
  <2>1. CASE l \in {1, 2}
    BY <1>3, <2>1
  <2>2. CASE l \in 3..2 + n
    <3>1. l - 2 \in 1..n /\ 2 + (l - 2) = l
      BY <1>1, <2>2
    <3>2. src[l] = [of |-> ids[l - 2], kind |-> "plugin"] /\ l - 2 \in 1..Len(ids)
      BY <1>1, <1>3, <3>1
    <3>3. src[l].of = ids[l - 2] /\ src[l].kind = "plugin"
      BY <3>2
    <3>4. src[l].of # "user" /\ Place(src[l]) = l - 2
      BY <3>2, <3>3, PlaceOfOrganization
    <3> QED
      BY <2>2, <3>3, <3>4
  <2>3. CASE l > 2 + n
    <3>1. l - 2 - n \in 1..n /\ 2 + n + (l - 2 - n) = l
      BY <1>1, <1>3, <2>3
    <3>2. src[l] = [of |-> ids[l - 2 - n], kind |-> "named"] /\ l - 2 - n \in 1..Len(ids)
      BY <1>1, <1>3, <3>1
    <3>3. src[l].of = ids[l - 2 - n] /\ src[l].kind = "named"
      BY <3>2
    <3>4. src[l].of # "user" /\ Place(src[l]) = l - 2 - n
      BY <3>2, <3>3, PlaceOfOrganization
    <3> QED
      BY <2>3, <3>3, <3>4
  <2> QED
    BY <1>1, <1>3, <2>1, <2>2, <2>3
<1>5. m \in Nat /\ k \in Nat /\ "plugin" # "named"
  BY <1>1, <1>3
<1> DEFINE s == src[k]
           t == src[m]
<1>6. /\ \/ k = 1 /\ s.of = "user" /\ s.kind = "plugin"
         \/ k = 2 /\ s.of = "user" /\ s.kind = "named"
         \/ k \in 3..2 + n /\ s.of # "user" /\ s.kind = "plugin" /\ Place(s) = k - 2
         \/ k > 2 + n /\ s.of # "user" /\ s.kind = "named" /\ Place(s) = k - 2 - n
      /\ \/ m = 1 /\ t.of = "user" /\ t.kind = "plugin"
         \/ m = 2 /\ t.of = "user" /\ t.kind = "named"
         \/ m \in 3..2 + n /\ t.of # "user" /\ t.kind = "plugin" /\ Place(t) = m - 2
         \/ m > 2 + n /\ t.of # "user" /\ t.kind = "named" /\ Place(t) = m - 2 - n
  BY <1>4
<1>7. t.of = "user" => Place(t) = 0
  BY DEF Place
<1>8. s.of = "user" => Place(s) = 0
  BY DEF Place
<1> HIDE DEF s, t
<1>9. ASSUME Outranks(s, t) PROVE FALSE
  <2>1. \/ s.of = "user" /\ t.of # "user"
        \/ (s.of = "user" <=> t.of = "user") /\ s.kind = "plugin" /\ t.kind # "plugin"
        \/ /\ s.of = "user" <=> t.of = "user"
           /\ s.kind = "plugin" <=> t.kind = "plugin"
           /\ Place(s) < Place(t)
    BY <1>9, OutranksBy
  <2> QED
    BY <1>1, <1>5, <1>6, <1>7, <1>8, <2>1
<1> QED
  BY <1>9 DEF s, t

\* What org_info would show a user is what env_var would give her plugin.
LEMMA OfferedIsAnswered ==
    ASSUME NEW s \in Source, NEW copy, Offers(s, org, copy)
    PROVE  Answers(s, copy)
BY DEF Source, Offers, Answers, OrgInfo, SharedEnvVar

RunType == [pc : {"ready", "looking", "done"}, own : OwnVariables, sources : Seq(Source),
            next : Nat \ {0}, got : BOOLEAN, quoted : BOOLEAN]

\* The sources are those of a beginning of her list, since organizations are
\* only added to it.  Whoever offered the variable all the time has not been
\* asked yet, since he would have answered.
EnvInv ==
    /\ own \in OwnVariables
    /\ ids \in Seq(Organizations) /\ Distinct(ids)
    /\ run # NoRun =>
          /\ run \in RunType
          /\ \E n \in 0..Len(ids) : run.sources = Sources(SubSeq(ids, 1, n))
    /\ run.pc = "ready" => run.next = 1
    /\ run.pc \in {"looking", "done"} =>
          \A s \in constant : \E k \in 1..Len(run.sources) : run.next <= k /\ s = run.sources[k]
    /\ run.pc = "looking" => \A s \in constant : Offers(s, org, run.own)
    /\ run.pc = "done" /\ constant # {} => run.got /\ run.next <= Len(run.sources)

LEMMA EnvBegins == EnvInit => EnvInv
<1> SUFFICES ASSUME EnvInit PROVE EnvInv
  OBVIOUS
<1>1. PICK S : S \subseteq Organizations /\ ids \in SetToSeqs(S)
  BY DEF EnvInit
<1>2. Cardinality(S) \in Nat
  BY <1>1, EnvAssumption, FS_Subset, FS_CardinalityType
<1> DEFINE n == Cardinality(S)
<1> HIDE DEF n
<1>3. ids \in [1..n -> S] /\ \A i, j \in 1..n : i # j => ids[i] # ids[j]
  BY <1>1 DEF SetToSeqs, n
<1>4. n \in Nat
  BY <1>2 DEF n
<1>5. ids \in Seq(Organizations) /\ Len(ids) = n
  BY <1>1, <1>3, <1>4
<1> QED
  BY <1>3, <1>5 DEF EnvInit, EnvInv, Distinct, NoRun

\* Her list grows at its end.
LEMMA ListGrows ==
    ASSUME ids \in Seq(Organizations), NEW o \in Organizations, NEW n \in 0..Len(ids)
    PROVE  SubSeq(Append(ids, o), 1, n) = SubSeq(ids, 1, n) /\ n \in 0..Len(Append(ids, o))
<1> DEFINE a == SubSeq(Append(ids, o), 1, n)
           b == SubSeq(ids, 1, n)
<1>1. /\ a \in Seq(Organizations) /\ b \in Seq(Organizations) /\ Len(a) = n /\ Len(b) = n
      /\ \A i \in 1..n : a[i] = b[i]
  OBVIOUS
<1>2. a = b
  BY <1>1, SeqEqual
<1> QED
  BY <1>2

LEMMA EnvStep == EnvInv /\ [EnvNext]_envVars => EnvInv'
<1> SUFFICES ASSUME EnvInv, [EnvNext]_envVars PROVE EnvInv'
  OBVIOUS
<1>1. ASSUME UserAddEnvVar PROVE EnvInv'
  <2>1. own' \in OwnVariables
    BY <1>1 DEF UserAddEnvVar, EnvInv, OwnVariables
  <2> QED
    BY <1>1, <2>1 DEF UserAddEnvVar, Change, EnvInv
<1>2. ASSUME NEW o \in Organizations, OrgAddEnvVar(o) PROVE EnvInv'
  <2>1. UNCHANGED <<own, ids, run>> /\ constant' = Still(org')
    BY <1>2 DEF OrgAddEnvVar, Change
  <2> QED
    BY <2>1 DEF EnvInv, Still
<1>3. ASSUME NEW o \in Organizations, OrgAddUser(o) PROVE EnvInv'
  <2>1. UNCHANGED <<own, run>> /\ constant' = Still(org')
    BY <1>3 DEF OrgAddUser, Change
  <2>2. ids' \in Seq(Organizations) /\ Distinct(ids)'
        /\ \A n \in 0..Len(ids) : SubSeq(ids', 1, n) = SubSeq(ids, 1, n) /\ n \in 0..Len(ids')
    <3>1. CASE Contains(ids, o)
      BY <1>3, <3>1 DEF OrgAddUser, EnvInv, Distinct
    <3>2. CASE ~Contains(ids, o)
      <4>1. ids' = Append(ids, o) /\ ids \in Seq(Organizations) /\ Distinct(ids)
        BY <1>3, <3>2 DEF OrgAddUser, EnvInv
      <4>2. \A i \in 1..Len(ids) : ids[i] # o
        BY <3>2 DEF Contains
      <4>3. /\ ids' \in Seq(Organizations) /\ Len(ids') = Len(ids) + 1 /\ Len(ids) \in Nat
            /\ \A i \in 1..Len(ids) : ids'[i] = ids[i]
            /\ ids'[Len(ids) + 1] = o
        BY <4>1
      <4>4. Distinct(ids)'
        BY <4>1, <4>2, <4>3 DEF Distinct
      <4> QED
        BY <4>1, <4>3, <4>4, ListGrows
    <3> QED
      BY <3>1, <3>2
  <2> QED
    BY <2>1, <2>2 DEF EnvInv, Still
<1>4. ASSUME Authenticate PROVE EnvInv'
  <2> DEFINE all == Sources(ids)
  <2>1. all \in Seq(Source) /\ ids = SubSeq(ids, 1, Len(ids)) /\ Len(ids) \in 0..Len(ids)
    <3>1. ids \in Seq(Organizations) /\ Len(ids) \in Nat
      BY DEF EnvInv
    <3>2. Sources(ids) \in Seq(Source)
      BY <3>1, SourcesAre
    <3> QED
      BY <3>1, <3>2, SubSeqFull
  <2>2. /\ run' = [pc |-> "ready", own |-> own, sources |-> all, next |-> 1,
                   got |-> FALSE, quoted |-> FALSE]
        /\ UNCHANGED <<own, ids, org, constant>>
    BY <1>4 DEF Authenticate
  <2> HIDE DEF all
  <2>3. run' \in RunType /\ run'.sources = all /\ run'.pc = "ready" /\ run'.next = 1
    BY <2>1, <2>2 DEF RunType, EnvInv
  <2>4. \E n \in 0..Len(ids) : run'.sources = Sources(SubSeq(ids, 1, n))
    BY <2>1, <2>3 DEF all
  <2> QED
    BY <2>2, <2>3, <2>4 DEF EnvInv
<1>5. ASSUME EnvVar PROVE EnvInv'
  <2>1. run \in RunType /\ run.next = 1
    BY <1>5 DEF EnvVar, EnvInv, NoRun
  <2>2. /\ run' \in RunType /\ run'.pc = "looking" /\ run'.own = run.own
        /\ run'.sources = run.sources /\ run'.next = 1
    BY <1>5, <2>1 DEF EnvVar, RunType
  <2>3. /\ UNCHANGED <<own, ids, org>>
        /\ constant' = { s \in ToSet(run.sources) : Offers(s, org, run.own) }
    BY <1>5 DEF EnvVar
  <2>4. \A s \in constant' : \E k \in 1..Len(run.sources) : 1 <= k /\ s = run.sources[k]
    BY <2>1, <2>3 DEF ToSet, RunType
  <2>5. run # NoRun
    BY <1>5 DEF EnvVar, NoRun
  <2> QED
    BY <2>2, <2>3, <2>4, <2>5 DEF EnvInv
<1>6. ASSUME AskSource PROVE EnvInv'
  <2>1. run \in RunType /\ run # NoRun /\ run.pc = "looking" /\ run.next <= Len(run.sources)
    BY <1>6 DEF AskSource, EnvInv, NoRun
  <2>2. UNCHANGED <<own, ids, org, constant>>
    BY <1>6 DEF AskSource
  <2>3. CASE Answers(run.sources[run.next], run.own)
    <3>1. /\ run' \in RunType /\ run'.pc = "done" /\ run'.got
          /\ run'.sources = run.sources /\ run'.next = run.next /\ run'.own = run.own
      BY <1>6, <2>1, <2>3 DEF AskSource, RunType, Quoted
    <3> QED
      BY <2>1, <2>2, <3>1 DEF EnvInv
  <2>4. CASE ~Answers(run.sources[run.next], run.own)
    <3>1. /\ run' \in RunType /\ run'.pc = "looking" /\ run'.own = run.own
          /\ run'.sources = run.sources /\ run'.next = run.next + 1
      BY <1>6, <2>1, <2>4 DEF AskSource, RunType
    <3>2. ASSUME NEW s \in constant
          PROVE  \E k \in 1..Len(run.sources) : run.next + 1 <= k /\ s = run.sources[k]
      <4>1. PICK k \in 1..Len(run.sources) : run.next <= k /\ s = run.sources[k]
        BY <2>1 DEF EnvInv
      <4>2. s \in Source
        BY <2>1, <4>1 DEF RunType
      <4>3. Answers(s, run.own)
        BY <2>1, <4>2, OfferedIsAnswered DEF EnvInv
      <4>4. k # run.next
        BY <2>4, <4>1, <4>3
      <4> QED
        BY <2>1, <4>1, <4>4 DEF RunType
    <3> QED
      BY <2>1, <2>2, <3>1, <3>2 DEF EnvInv
  <2> QED
    BY <2>3, <2>4
<1>7. ASSUME NotFound PROVE EnvInv'
  <2>1. /\ run \in RunType /\ run # NoRun /\ run.pc = "looking" /\ run.next > Len(run.sources)
        /\ Len(run.sources) \in Nat
    BY <1>7 DEF NotFound, EnvInv, NoRun, RunType
  <2>2. /\ run' \in RunType /\ run'.pc = "done" /\ run'.own = run.own
        /\ run'.sources = run.sources /\ run'.next = run.next
        /\ UNCHANGED <<own, ids, org, constant>>
    BY <1>7, <2>1 DEF NotFound, RunType
  <2>3. constant = {}
    BY <2>1 DEF EnvInv, RunType
  <2> QED
    BY <2>1, <2>2, <2>3 DEF EnvInv
<1>8. CASE UNCHANGED envVars
  BY <1>8 DEF envVars, EnvInv
<1> QED
  BY <1>1, <1>2, <1>3, <1>4, <1>5, <1>6, <1>7, <1>8 DEF EnvNext

\* However variables, roles and organizations change while it is looked up, a
\* plugin gets a variable that some source offered all the time, or one of a
\* source that comes before that (env_var).
THEOREM BestOfferIsTaken == EnvSpec => []FirstOfferIsTaken
<1>1. EnvInv => FirstOfferIsTaken
  <2> SUFFICES ASSUME EnvInv, run.pc = "done", NEW s \in constant
               PROVE  run.got /\ ~Outranks(s, run.sources[run.next])
    BY DEF FirstOfferIsTaken
  <2>1. run \in RunType /\ run.got /\ run.next \in 1..Len(run.sources)
    BY DEF EnvInv, NoRun, RunType
  <2>2. PICK n \in 0..Len(ids) : run.sources = Sources(SubSeq(ids, 1, n))
    BY DEF EnvInv, NoRun
  <2>3. PICK k \in 1..Len(run.sources) : run.next <= k /\ s = run.sources[k]
    BY DEF EnvInv
  <2>4. ids \in Seq(Organizations) /\ Distinct(ids)
    BY DEF EnvInv
  <2> QED
    BY <2>1, <2>2, <2>3, <2>4, AskedInOrder
<1> QED
  BY <1>1, EnvBegins, EnvStep, PTL DEF EnvSpec
==============================================================================
