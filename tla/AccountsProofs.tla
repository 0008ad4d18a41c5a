--------------------------- MODULE AccountsProofs ----------------------------
(****************************************************************************)
(* Theorems about Accounts, for any names, keys and requests.  What is said *)
(* of names, memberships and setters of variables assumes that at most one  *)
(* request at a time registers anybody; the rest needs no such thing.       *)
(****************************************************************************)
EXTENDS Accounts, TLAPS

RequestType == [at : Phases, who : Names \cup {None},
                key : Keys \cup {None}, org : Names \cup {None}]

\* A request that has an organization in mind names one.
OrgNamed ==
    \A s \in Slots : request[s].at \in Phases \ {"none", "authenticated"} => Org(s) \in Names

TypeInv == TypeOK /\ OrgNamed

LEMMA TypeInit == Init => TypeInv
<1> SUFFICES ASSUME Init PROVE TypeInv
  OBVIOUS
<1>1. Idle \in RequestType
  BY DEF Idle, RequestType, Phases
<1>2. request \in [Slots -> RequestType]
  BY <1>1 DEF Init
<1> QED
  BY <1>2 DEF Init, TypeInv, TypeOK, OrgNamed, RequestType, At, Idle, Phases

\* What authenticating, checking and refusing do: one request moves on, and
\* nothing else changes.
LEMMA RequestMoves ==
    ASSUME TypeInv, NEW s \in Slots, UNCHANGED <<members, keys>>,
           NEW q \in RequestType, request' = [request EXCEPT ![s] = q],
           q.at # "none" => q.who \in users,
           q.at \in Phases \ {"none", "authenticated"} => q.org \in Names
    PROVE  TypeInv'
<1>1. request' \in [Slots -> RequestType]
  BY DEF TypeInv, TypeOK, RequestType
<1>2. UNCHANGED <<users, organizations, listed, keysOf, keyOwner, keyLife, dropped>>
  BY DEF members, keys
<1>3. \A t \in Slots : request'[t] = IF t = s THEN q ELSE request[t]
  BY DEF TypeInv, TypeOK, RequestType
<1>4. TypeOK'
  BY <1>1, <1>2, <1>3 DEF TypeInv, TypeOK, RequestType, At, Who, RoleOf
<1>5. OrgNamed'
  BY <1>2, <1>3 DEF TypeInv, OrgNamed, Org
<1> QED
  BY <1>4, <1>5 DEF TypeInv

LEMMA IdleTyped == Idle \in RequestType /\ Idle.at = "none"
BY DEF Idle, RequestType, Phases

\* A request that is not idle names a user.
LEMMA WhoIsUser ==
    ASSUME TypeInv, NEW s \in Slots, request[s].at # "none"
    PROVE  Who(s) \in users /\ Who(s) \in Names
BY DEF TypeInv, TypeOK, At

LEMMA FieldsOf ==
    ASSUME TypeInv, NEW s \in Slots
    PROVE  /\ request[s] \in RequestType
           /\ request = [t \in Slots |-> request[t]]
BY DEF TypeInv, TypeOK, RequestType

\* Actions that leave organizations and users alone, and end or move a request.
LEMMA MovesKeepType ==
    ASSUME TypeInv, NEW s \in Slots,
           \/ AuthenticateWithToken(s) \/ AuthenticateWithApiKey(s) \/ Refuse(s)
           \/ CheckOrganizations(s) \/ CheckUsers(s) \/ ReadRole(s)
    PROVE  TypeInv'
<1>1. /\ request[s] \in RequestType
      /\ request[s].at \in Phases \ {"none", "authenticated"} => Org(s) \in Names
  BY FieldsOf DEF TypeInv, OrgNamed
<1>2. CASE AuthenticateWithToken(s)
  <2>1. PICK u \in users :
            request' = [request EXCEPT ![s] = [Idle EXCEPT !.at = "authenticated", !.who = u]]
    BY <1>2 DEF AuthenticateWithToken
  <2> DEFINE q == [Idle EXCEPT !.at = "authenticated", !.who = u]
  <2>2. q \in RequestType /\ q.at = "authenticated" /\ q.who = u
    BY DEF Idle, RequestType, Phases, TypeInv, TypeOK
  <2> QED
    BY <1>2, <2>1, <2>2, RequestMoves DEF AuthenticateWithToken
<1>3. CASE AuthenticateWithApiKey(s)
  <2>1. PICK k \in Keys :
            /\ keyOwner[k] \in users
            /\ request' = [request EXCEPT ![s] =
                  [Idle EXCEPT !.at = "authenticated", !.who = keyOwner[k], !.key = k]]
    BY <1>3 DEF AuthenticateWithApiKey
  <2> DEFINE q == [Idle EXCEPT !.at = "authenticated", !.who = keyOwner[k], !.key = k]
  <2>2. q \in RequestType /\ q.at = "authenticated" /\ q.who = keyOwner[k]
    BY <2>1 DEF Idle, RequestType, Phases, TypeInv, TypeOK
  <2> QED
    BY <1>3, <2>1, <2>2, RequestMoves DEF AuthenticateWithApiKey
<1>4. CASE Refuse(s)
  BY <1>4, IdleTyped, RequestMoves DEF Refuse, Respond
<1>5. CASE CheckOrganizations(s)
  <2>1. PICK o \in Names :
            request' = [request EXCEPT ![s] = [request[s] EXCEPT !.at = "named", !.org = o]]
    BY <1>5 DEF CheckOrganizations
  <2> DEFINE q == [request[s] EXCEPT !.at = "named", !.org = o]
  <2>2. q \in RequestType /\ q.at = "named" /\ q.who = Who(s) /\ q.org = o
    BY <1>1 DEF RequestType, Phases, Who
  <2>3. Who(s) \in users
    BY <1>5, WhoIsUser DEF CheckOrganizations, At
  <2> QED
    BY <1>5, <2>1, <2>2, <2>3, RequestMoves DEF CheckOrganizations
<1>6. CASE CheckUsers(s)
  <2>1. request' = [request EXCEPT ![s] = [request[s] EXCEPT !.at = "free"]]
    BY <1>1, <1>6 DEF CheckUsers, Goto
  <2> DEFINE q == [request[s] EXCEPT !.at = "free"]
  <2>2. q \in RequestType /\ q.at = "free" /\ q.who = Who(s) /\ q.org = Org(s)
    BY <1>1 DEF RequestType, Phases, Who, Org
  <2>3. Who(s) \in users /\ Org(s) \in Names
    BY <1>1, <1>6, WhoIsUser DEF CheckUsers, At, Phases
  <2> QED
    BY <1>6, <2>1, <2>2, <2>3, RequestMoves DEF CheckUsers
<1>7. CASE ReadRole(s)
  <2>1. PICK o \in Names :
            request' = [request EXCEPT ![s] = [request[s] EXCEPT !.at = "setting", !.org = o]]
    BY <1>7 DEF ReadRole
  <2> DEFINE q == [request[s] EXCEPT !.at = "setting", !.org = o]
  <2>2. q \in RequestType /\ q.at = "setting" /\ q.who = Who(s) /\ q.org = o
    BY <1>1 DEF RequestType, Phases, Who
  <2>3. Who(s) \in users
    BY <1>7, WhoIsUser DEF ReadRole, At
  <2> QED
    BY <1>7, <2>1, <2>2, <2>3, RequestMoves DEF ReadRole
<1> QED
  BY <1>2, <1>3, <1>4, <1>5, <1>6, <1>7

\* What an organization is after it was inserted, or had its roles or its
\* variables changed.
LEMMA OrganizationTyped ==
    ASSUME TypeInv
    PROVE  /\ \A o \in Names : organizations[o] # None => organizations[o] \in Organizations
           /\ \A u \in Names :
                 [roles |-> [v \in Names |-> IF v = u THEN Owner ELSE 0], env |-> FALSE] \in Organizations
           /\ \A g \in Organizations, u \in Names, role \in Roles :
                 [g EXCEPT !.roles = [g.roles EXCEPT ![u] = role]] \in Organizations
           /\ \A g \in Organizations, set \in BOOLEAN : [g EXCEPT !.env = set] \in Organizations
           /\ None \notin Organizations
<1>1. \A o \in Names : organizations[o] # None => organizations[o] \in Organizations
  BY DEF TypeInv, TypeOK
<1>2. \A u \in Names :
         [roles |-> [v \in Names |-> IF v = u THEN Owner ELSE 0], env |-> FALSE] \in Organizations
  BY DEF Organizations, Owner
<1>3. ASSUME NEW g \in Organizations, NEW u \in Names, NEW role \in Roles
      PROVE  [g EXCEPT !.roles = [g.roles EXCEPT ![u] = role]] \in Organizations
  <2>1. [g.roles EXCEPT ![u] = role] \in [Names -> 0..5]
    BY DEF Organizations, Roles
  <2> QED
    BY <2>1 DEF Organizations
<1>4. \A g \in Organizations, set \in BOOLEAN : [g EXCEPT !.env = set] \in Organizations
  BY DEF Organizations
<1> QED
  BY <1>1, <1>2, <1>3, <1>4, AccountsAssumption

\* Setting a variable leaves every role, and whether there is an organization,
\* as it was.
LEMMA WriteKeepsRoles ==
    ASSUME TypeInv, NEW s \in Slots, Org(s) \in Names, WriteEnv(s)
    PROVE  /\ organizations' \in [Names -> Organizations \cup {None}]
           /\ \A p \in Names : /\ organizations'[p] # None <=> organizations[p] # None
                               /\ organizations[p] # None =>
                                     organizations'[p].roles = organizations[p].roles
<1>1. CASE organizations[Org(s)] = None
  BY <1>1 DEF WriteEnv, TypeInv, TypeOK
<1>2. CASE organizations[Org(s)] # None
  <2>1. PICK set \in BOOLEAN :
           organizations' = [organizations EXCEPT ![Org(s)] = [organizations[Org(s)] EXCEPT !.env = set]]
    BY <1>2 DEF WriteEnv, TypeInv, TypeOK
  <2> DEFINE g == [organizations[Org(s)] EXCEPT !.env = set]
  <2>2. organizations[Org(s)] \in Organizations /\ g \in Organizations
    BY <1>2, OrganizationTyped
  <2>3. g.roles = organizations[Org(s)].roles /\ g # None
    BY <2>2, OrganizationTyped DEF Organizations
  <2> HIDE DEF g
  <2>4. \A p \in Names : organizations'[p] = IF p = Org(s) THEN g ELSE organizations[p]
    BY <2>1 DEF TypeInv, TypeOK, g
  <2>5. organizations' \in [Names -> Organizations \cup {None}]
    BY <2>1, <2>2 DEF TypeInv, TypeOK, g
  <2> QED
    BY <1>2, <2>3, <2>4, <2>5
<1> QED
  BY <1>1, <1>2

\* Actions that change users or organizations, and end or move the request.
LEMMA MembersKeepType ==
    ASSUME TypeInv, NEW s \in Slots,
           \/ UserRegister(s) \/ InsertOrganization(s) \/ PushOrganization(s)
           \/ OrgAddUser(s) \/ WriteEnv(s) \/ Drop(s)
    PROVE  TypeInv'
<1>1. /\ request[s] \in RequestType
      /\ request[s].at \in Phases \ {"none", "authenticated"} => Org(s) \in Names
      /\ request[s].at # "none" => Who(s) \in users /\ Who(s) \in Names
  BY FieldsOf, WhoIsUser DEF TypeInv, OrgNamed
<1>2. CASE UserRegister(s)
  BY <1>2 DEF UserRegister, keys, TypeInv, TypeOK, OrgNamed, At, Who, Org, RoleOf
<1>3. CASE InsertOrganization(s)
  <2>1. /\ request[s].at = "free"
        /\ UNCHANGED <<users, listed, dropped, keysOf, keyOwner, keyLife>>
    BY <1>3 DEF InsertOrganization, At, keys
  <2>2. Org(s) \in Names /\ Who(s) \in users /\ Who(s) \in Names
    BY <1>1, <2>1 DEF Phases
  <2> DEFINE g == [roles |-> [u \in Names |-> IF u = Who(s) THEN Owner ELSE 0], env |-> FALSE]
             q == [request[s] EXCEPT !.at = "inserted"]
  <2>3. organizations' = [organizations EXCEPT ![Org(s)] = g] /\ g \in Organizations
    BY <1>3, <2>2, OrganizationTyped DEF InsertOrganization
  <2>4. /\ request' = [request EXCEPT ![s] = q]
        /\ q \in RequestType /\ q.at = "inserted" /\ q.who = Who(s) /\ q.org = Org(s)
    BY <1>1, <1>3 DEF InsertOrganization, Goto, RequestType, Phases, Who, Org
  <2>5. \A t \in Slots : request'[t] = IF t = s THEN q ELSE request[t]
    BY <2>4 DEF TypeInv, TypeOK
  <2>6. \A o \in Names : organizations'[o] = IF o = Org(s) THEN g ELSE organizations[o]
    BY <2>3 DEF TypeInv, TypeOK
  <2>7. organizations' \in [Names -> Organizations \cup {None}]
    BY <2>3 DEF TypeInv, TypeOK
  <2>8. request' \in [Slots -> RequestType]
    BY <2>4 DEF TypeInv, TypeOK, RequestType
  <2>9. \A o, u \in Names : organizations'[o] # None /\ organizations'[o].roles[u] > 0 => u \in users
    <3>1. \A u \in Names : g.roles[u] > 0 => u = Who(s)
      OBVIOUS
    <3>2. \A o, u \in Names : organizations[o] # None /\ organizations[o].roles[u] > 0 => u \in users
      BY DEF TypeInv, TypeOK, RoleOf
    <3> HIDE DEF g
    <3> QED
      BY <2>2, <2>6, <3>1, <3>2
  <2>10. \A t \in Slots : request'[t].at # "none" => request'[t].who \in users
    BY <2>2, <2>4, <2>5 DEF TypeInv, TypeOK, At, Who
  <2>11. TypeOK'
    BY <2>1, <2>7, <2>8, <2>9, <2>10 DEF TypeInv, TypeOK, RequestType, At, Who, RoleOf
  <2>12. OrgNamed'
    BY <2>2, <2>4, <2>5 DEF TypeInv, OrgNamed, Org
  <2> QED
    BY <2>11, <2>12 DEF TypeInv
<1>4. CASE PushOrganization(s) \/ Drop(s)
  <2>1. /\ request' = [request EXCEPT ![s] = Idle]
        /\ UNCHANGED <<users, organizations, keysOf, keyOwner, keyLife>>
        /\ Org(s) \in Names /\ Who(s) \in Names
    BY <1>1, <1>4 DEF PushOrganization, Drop, Respond, At, keys, Phases
  <2>2. listed' \in [Names -> SUBSET Names] /\ dropped' \subseteq Names \X Names
    BY <1>4, <2>1 DEF PushOrganization, Drop, TypeInv, TypeOK
  <2>3. \A t \in Slots : request'[t] = IF t = s THEN Idle ELSE request[t]
    BY <2>1 DEF TypeInv, TypeOK
  <2>4. request' \in [Slots -> RequestType]
    BY <2>1, IdleTyped DEF TypeInv, TypeOK, RequestType
  <2>5. TypeOK'
    BY <2>1, <2>2, <2>3, <2>4, IdleTyped DEF TypeInv, TypeOK, RequestType, At, Who, RoleOf
  <2>6. OrgNamed'
    BY <2>3, IdleTyped DEF TypeInv, OrgNamed, Org
  <2> QED
    BY <2>5, <2>6 DEF TypeInv
<1>5. CASE OrgAddUser(s)
  <2>1. PICK o \in Names, u \in Names, role \in Roles :
           /\ organizations[o] # None
           /\ u \in users
           /\ organizations' = [organizations EXCEPT ![o] =
                 [organizations[o] EXCEPT !.roles = [organizations[o].roles EXCEPT ![u] = role]]]
           /\ listed' = [listed EXCEPT ![u] = listed[u] \cup {o}]
    BY <1>5 DEF OrgAddUser, IsUser, ListedAfter, TypeInv, TypeOK
  <2> DEFINE g == [organizations[o] EXCEPT !.roles = [organizations[o].roles EXCEPT ![u] = role]]
  <2>2. organizations[o] \in Organizations /\ g \in Organizations
    BY <2>1, OrganizationTyped
  <2>3. \A v \in Names : g.roles[v] = IF v = u THEN role ELSE organizations[o].roles[v]
    BY <2>2 DEF Organizations
  <2>4. \A p \in Names : organizations'[p] = IF p = o THEN g ELSE organizations[p]
    BY <2>1 DEF TypeInv, TypeOK
  <2>5. /\ request' = [request EXCEPT ![s] = Idle]
        /\ UNCHANGED <<users, dropped, keysOf, keyOwner, keyLife>>
    BY <1>5 DEF OrgAddUser, Respond, keys
  <2>6. \A t \in Slots : request'[t] = IF t = s THEN Idle ELSE request[t]
    BY <2>5 DEF TypeInv, TypeOK
  <2>7. request' \in [Slots -> RequestType]
    BY <2>5, IdleTyped DEF TypeInv, TypeOK, RequestType
  <2>8. organizations' \in [Names -> Organizations \cup {None}]
    BY <2>1, <2>2 DEF TypeInv, TypeOK
  <2>9. \A p, v \in Names : organizations'[p] # None /\ organizations'[p].roles[v] > 0 => v \in users
    BY <2>1, <2>3, <2>4 DEF TypeInv, TypeOK, RoleOf
  <2>10. listed' \in [Names -> SUBSET Names]
    BY <2>1 DEF TypeInv, TypeOK
  <2>11. TypeOK'
    BY <2>5, <2>6, <2>7, <2>8, <2>9, <2>10, IdleTyped DEF TypeInv, TypeOK, RequestType, At, Who, RoleOf
  <2>12. OrgNamed'
    BY <2>6, IdleTyped DEF TypeInv, OrgNamed, Org
  <2> QED
    BY <2>11, <2>12 DEF TypeInv
<1>6. CASE WriteEnv(s)
  <2>1. Org(s) \in Names
    BY <1>1, <1>6 DEF WriteEnv, At, Phases
  <2>2. /\ request' = [request EXCEPT ![s] = Idle]
        /\ UNCHANGED <<users, listed, dropped, keysOf, keyOwner, keyLife>>
    BY <1>6 DEF WriteEnv, Respond, keys
  <2>3. /\ organizations' \in [Names -> Organizations \cup {None}]
        /\ \A p \in Names : /\ organizations'[p] # None => organizations[p] # None
                            /\ organizations[p] # None => organizations'[p].roles = organizations[p].roles
    BY <1>6, <2>1, WriteKeepsRoles
  <2>5. \A t \in Slots : request'[t] = IF t = s THEN Idle ELSE request[t]
    BY <2>2 DEF TypeInv, TypeOK
  <2>6. request' \in [Slots -> RequestType]
    BY <2>2, IdleTyped DEF TypeInv, TypeOK, RequestType
  <2>7. TypeOK'
    BY <2>2, <2>3, <2>5, <2>6, IdleTyped DEF TypeInv, TypeOK, RequestType, At, Who, RoleOf
  <2>8. OrgNamed'
    BY <2>5, IdleTyped DEF TypeInv, OrgNamed, Org
  <2> QED
    BY <2>7, <2>8 DEF TypeInv
<1> QED
  BY <1>2, <1>3, <1>4, <1>5, <1>6

\* Actions on keys.
LEMMA KeysKeepType ==
    ASSUME TypeInv, NEW s \in Slots, CreateApiKey(s) \/ RemoveApiKey(s)
    PROVE  TypeInv'
<1>1. /\ request' = [request EXCEPT ![s] = Idle]
      /\ UNCHANGED <<users, organizations, listed, dropped>>
      /\ Who(s) \in Names
  BY WhoIsUser DEF CreateApiKey, RemoveApiKey, Respond, members, At
<1>2. /\ keysOf' \in [Names -> SUBSET Keys]
      /\ keyOwner' \in [Keys -> Names \cup {None}]
      /\ keyLife' \in [Keys -> {"new", "made", "removed"}]
  BY SMTT(30), <1>1 DEF CreateApiKey, RemoveApiKey, TypeInv, TypeOK
<1>3. \A t \in Slots : request'[t] = IF t = s THEN Idle ELSE request[t]
  BY <1>1 DEF TypeInv, TypeOK
<1>4. request' \in [Slots -> RequestType]
  BY <1>1, IdleTyped DEF TypeInv, TypeOK, RequestType
<1>5. TypeOK'
  BY <1>1, <1>2, <1>3, <1>4, IdleTyped DEF TypeInv, TypeOK, RequestType, At, Who, RoleOf
<1>6. OrgNamed'
  BY <1>3, IdleTyped DEF TypeInv, OrgNamed, Org
<1> QED
  BY <1>5, <1>6 DEF TypeInv

LEMMA TypeStep == TypeInv /\ [Next]_vars => TypeInv'
<1> SUFFICES ASSUME TypeInv, [Next]_vars PROVE TypeInv'
  OBVIOUS
<1>1. CASE UNCHANGED vars
  BY <1>1 DEF vars, TypeInv, TypeOK, OrgNamed, At, Who, Org, RoleOf
<1>2. CASE Next
  <2>1. PICK s \in Slots : Step(s)
    BY <1>2 DEF Next
  <2> QED
    BY <2>1, MovesKeepType, MembersKeepType, KeysKeepType DEF Step
<1> QED
  BY <1>1, <1>2

\* Whatever has a role or is under way, is a user's.
THEOREM TypeCorrect == Spec => []TypeOK
<1>1. TypeInv => TypeOK
  BY DEF TypeInv
<1> QED
  BY <1>1, TypeInit, TypeStep, PTL DEF Spec
------------------------------------------------------------------------------
(* API keys *)

\* A key that somebody lists is in use, and nobody else lists it.
KeysListed ==
    \A u \in Names : \A k \in keysOf[u] :
        keyLife[k] = "made" /\ \A v \in Names : k \in keysOf[v] => v = u

\* What the other requests do to a slot.
LEMMA OthersWait ==
    ASSUME TypeInv, NEW s \in Slots, Step(s)
    PROVE  \A t \in Slots \ {s} : request'[t] = request[t]
BY DEF Step, AuthenticateWithToken, AuthenticateWithApiKey, Refuse, UserRegister,
       CheckOrganizations, CheckUsers, InsertOrganization, PushOrganization, OrgAddUser,
       ReadRole, WriteEnv, CreateApiKey, RemoveApiKey, Drop, Respond, Goto, TypeInv, TypeOK

LEMMA KeysStep == TypeInv /\ KeysListed /\ [Next]_vars => KeysListed'
<1> SUFFICES ASSUME TypeInv, KeysListed, [Next]_vars PROVE KeysListed'
  OBVIOUS
<1>1. CASE UNCHANGED keys
  BY <1>1 DEF keys, KeysListed
<1>2. ASSUME NEW s \in Slots, CreateApiKey(s) PROVE KeysListed'
  <2>1. PICK k \in Keys :
           /\ keyLife[k] = "new"
           /\ keysOf' = [keysOf EXCEPT ![Who(s)] = keysOf[Who(s)] \cup {k}]
           /\ keyLife' = [keyLife EXCEPT ![k] = "made"]
    BY <1>2 DEF CreateApiKey, TypeInv, TypeOK
  <2>2. Who(s) \in Names
    BY <1>2, WhoIsUser DEF CreateApiKey, At
  <2>3. \A u \in Names : k \notin keysOf[u]
    BY <2>1 DEF KeysListed
  <2>4. \A u \in Names : keysOf'[u] = IF u = Who(s) THEN keysOf[u] \cup {k} ELSE keysOf[u]
    BY <2>1, <2>2 DEF TypeInv, TypeOK
  <2>5. \A j \in Keys : keyLife'[j] = IF j = k THEN "made" ELSE keyLife[j]
    BY <2>1 DEF TypeInv, TypeOK
  <2>6. ASSUME NEW u \in Names, NEW j \in keysOf'[u]
        PROVE  keyLife'[j] = "made" /\ \A v \in Names : j \in keysOf'[v] => v = u
    <3>1. CASE j = k
      BY <2>1, <2>2, <2>3, <2>4, <2>5, <2>6, <3>1
    <3>2. CASE j # k
      <4>1. j \in keysOf[u] /\ j \in Keys
        BY <2>4, <2>6, <3>2 DEF TypeInv, TypeOK
      <4>2. \A v \in Names : j \in keysOf'[v] => j \in keysOf[v]
        BY <2>4, <3>2
      <4> QED
        BY <2>5, <3>2, <4>1, <4>2 DEF KeysListed
    <3> QED
      BY <3>1, <3>2
  <2> QED
    BY <2>6 DEF KeysListed
<1>3. ASSUME NEW s \in Slots, RemoveApiKey(s) PROVE KeysListed'
  <2>1. PICK k \in keysOf[Who(s)] :
           /\ keysOf' = [keysOf EXCEPT ![Who(s)] = keysOf[Who(s)] \ {k}]
           /\ keyLife' = [keyLife EXCEPT ![k] = "removed"]
    BY <1>3 DEF RemoveApiKey, TypeInv, TypeOK
  <2>2. Who(s) \in Names
    BY <1>3, WhoIsUser DEF RemoveApiKey, At
  <2>3. \A u \in Names : keysOf'[u] = IF u = Who(s) THEN keysOf[u] \ {k} ELSE keysOf[u]
    BY <2>1, <2>2 DEF TypeInv, TypeOK
  <2>4. \A u \in Names : k \notin keysOf'[u]
    BY <2>1, <2>2, <2>3 DEF KeysListed
  <2>5. \A j \in Keys : j # k => keyLife'[j] = keyLife[j]
    BY <2>1 DEF TypeInv, TypeOK
  <2>6. ASSUME NEW u \in Names, NEW j \in keysOf'[u]
        PROVE  keyLife'[j] = "made" /\ \A v \in Names : j \in keysOf'[v] => v = u
    <3>1. j \in keysOf[u] /\ j \in Keys /\ j # k
      BY <2>3, <2>4, <2>6 DEF TypeInv, TypeOK
    <3>2. \A v \in Names : j \in keysOf'[v] => j \in keysOf[v]
      BY <2>3
    <3> QED
      BY <2>5, <3>1, <3>2 DEF KeysListed
  <2> QED
    BY <2>6 DEF KeysListed
<1>4. CASE Next
  <2>1. PICK s \in Slots : Step(s)
    BY <1>4 DEF Next
  <2>2. CASE CreateApiKey(s) \/ RemoveApiKey(s)
    BY <1>2, <1>3, <2>2
  <2>3. CASE ~(CreateApiKey(s) \/ RemoveApiKey(s))
    BY <1>1, <2>1, <2>3
       DEF Step, AuthenticateWithToken, AuthenticateWithApiKey, Refuse, UserRegister,
           CheckOrganizations, CheckUsers, InsertOrganization, PushOrganization,
           OrgAddUser, ReadRole, WriteEnv, Drop, keys
  <2> QED
    BY <2>2, <2>3
<1> QED
  BY <1>1, <1>4 DEF vars, keys

\* Only a key that is in use lets anybody in.
LEMMA KeyOpens ==
    ASSUME TypeInv, KeysListed, [Next]_vars, NEW s \in Slots, NEW k \in Keys,
           request'[s].key = k, request[s].key # k
    PROVE  keyLife[k] = "made"
<1>1. PICK t \in Slots : Step(t)
  BY DEF Next, vars
<1>2. t = s
  BY <1>1, OthersWait
<1>3. request[s] \in RequestType /\ k # None /\ Idle.key = None
  BY FieldsOf, AccountsAssumption DEF Idle
<1>4. AuthenticateWithApiKey(s)
  <2>1. ~(Refuse(s) \/ PushOrganization(s) \/ OrgAddUser(s) \/ WriteEnv(s)
          \/ CreateApiKey(s) \/ RemoveApiKey(s) \/ Drop(s))
    BY <1>3 DEF Refuse, PushOrganization, OrgAddUser, WriteEnv, CreateApiKey, RemoveApiKey,
                Drop, Respond, TypeInv, TypeOK
  <2>2. ~(CheckUsers(s) \/ InsertOrganization(s) \/ UserRegister(s))
    BY DEF CheckUsers, InsertOrganization, UserRegister, Goto, TypeInv, TypeOK
  <2>3. ASSUME NEW phase, NEW o, request' = [request EXCEPT ![s] = [request[s] EXCEPT !.at = phase, !.org = o]]
        PROVE  request'[s].key = request[s].key
    <3>1. request'[s] = [request[s] EXCEPT !.at = phase, !.org = o]
      BY <2>3 DEF TypeInv, TypeOK
    <3> QED
      BY <1>3, <3>1 DEF RequestType
  <2>4. ~(CheckOrganizations(s) \/ ReadRole(s))
    BY <2>3 DEF CheckOrganizations, ReadRole, TypeInv, TypeOK
  <2>5. ~AuthenticateWithToken(s)
    BY <1>3 DEF AuthenticateWithToken, TypeInv, TypeOK, Idle
  <2> QED
    BY <1>1, <1>2, <2>1, <2>2, <2>4, <2>5 DEF Step
<1>5. PICK j \in Keys :
         /\ keyOwner[j] \in users
         /\ j \in keysOf[keyOwner[j]]
         /\ request' = [request EXCEPT ![s] =
               [Idle EXCEPT !.at = "authenticated", !.who = keyOwner[j], !.key = j]]
  BY <1>4 DEF AuthenticateWithApiKey, ListsKey
<1>6. j = k
  BY <1>5 DEF TypeInv, TypeOK, Idle
<1> QED
  BY <1>5, <1>6 DEF KeysListed, TypeInv, TypeOK

\* A key that was removed lets nobody in, with any number of requests at once
\* and whoever goes away: that the user still lists it is checked last.
THEOREM RemovedKeysAreDead == Spec => RemovedKeysOpenNothing
<1>1. Init => KeysListed
  BY DEF Init, KeysListed
<1>2. TypeInv /\ KeysListed /\ [Next]_vars =>
         [\A s \in Slots, k \in Keys :
             request'[s].key = k /\ request[s].key # k => keyLife[k] = "made"]_vars
  BY KeyOpens
<1> QED
  BY <1>1, <1>2, TypeInit, TypeStep, KeysStep, PTL DEF Spec, RemovedKeysOpenNothing
------------------------------------------------------------------------------
(* Memberships, with one registration at a time *)

OneRegistrar == \A s, t \in Registrars : s = t

Registering == {"named", "free", "inserted"}

\* Only a registrar registers, and what a registration found is still so.
ChecksHold ==
    \A s \in Slots :
        /\ request[s].at \in Registering => s \in Registrars
        /\ At(s, "named") \/ At(s, "free") => organizations[Org(s)] = None
        /\ At(s, "free") => Org(s) \notin users

MembersInv == TypeInv /\ ChecksHold /\ SidesAgree

Member(o, u) == organizations[o] # None /\ RoleOf(o, u) > 0

\* Steps that neither change users and organizations, nor begin or end the
\* last section of a registration.
LEMMA OthersKeepMembers ==
    ASSUME MembersInv, NEW s \in Slots, TypeInv', UNCHANGED members,
           \A t \in Slots \ {s} : request'[t] = request[t],
           ~At(s, "inserted"), request'[s].at # "inserted",
           request'[s].at \in Registering => s \in Registrars,
           At(s, "named")' \/ At(s, "free")' => organizations[Org(s)'] = None,
           At(s, "free")' => Org(s)' \notin users
    PROVE  MembersInv'
<1>1. UNCHANGED <<users, organizations, listed, dropped>>
  BY DEF members
<1>2. ChecksHold'
  BY <1>1 DEF MembersInv, ChecksHold, At, Org
<1>3. \A o, u \in Names : Pending(u, o)' <=> Pending(u, o)
  BY <1>1 DEF Pending, At, Who, Org
<1>4. SidesAgree'
  BY <1>1, <1>3 DEF MembersInv, SidesAgree, RoleOf
<1> QED
  BY <1>2, <1>4 DEF MembersInv

LEMMA MovesKeepMembers ==
    ASSUME MembersInv, NEW s \in Slots, Step(s),
           \/ AuthenticateWithToken(s) \/ AuthenticateWithApiKey(s) \/ Refuse(s)
           \/ CheckOrganizations(s) \/ CheckUsers(s) \/ ReadRole(s)
           \/ CreateApiKey(s) \/ RemoveApiKey(s)
    PROVE  MembersInv'
<1>1. TypeInv' /\ \A t \in Slots \ {s} : request'[t] = request[t]
  BY MovesKeepType, KeysKeepType, OthersWait DEF MembersInv
<1>2. request[s] \in RequestType
  BY FieldsOf DEF MembersInv
<1>3. UNCHANGED members /\ UNCHANGED <<users, organizations>>
  BY DEF AuthenticateWithToken, AuthenticateWithApiKey, Refuse, CheckOrganizations, CheckUsers,
         ReadRole, CreateApiKey, RemoveApiKey, members
<1>4. CASE AuthenticateWithToken(s) \/ AuthenticateWithApiKey(s)
  <2>1. request'[s].at = "authenticated" /\ request[s].at = "none"
    BY <1>4 DEF AuthenticateWithToken, AuthenticateWithApiKey, MembersInv, TypeInv, TypeOK, Idle, At
  <2> QED
    BY <1>1, <1>3, <2>1, OthersKeepMembers DEF At, Registering
<1>5. CASE Refuse(s) \/ CreateApiKey(s) \/ RemoveApiKey(s)
  <2>1. request'[s] = Idle /\ request[s].at # "inserted"
    BY <1>5 DEF Refuse, CreateApiKey, RemoveApiKey, Respond, MembersInv, TypeInv, TypeOK, At
  <2> QED
    BY <1>1, <1>3, <2>1, IdleTyped, OthersKeepMembers DEF At, Registering
<1>6. CASE CheckOrganizations(s)
  <2>1. PICK o \in Names :
           /\ organizations[o] = None
           /\ request' = [request EXCEPT ![s] = [request[s] EXCEPT !.at = "named", !.org = o]]
    BY <1>6 DEF CheckOrganizations
  <2>2. request'[s].at = "named" /\ request'[s].org = o
    BY <1>2, <2>1 DEF MembersInv, TypeInv, TypeOK, RequestType
  <2> QED
    BY <1>1, <1>3, <1>6, <2>1, <2>2, OthersKeepMembers DEF CheckOrganizations, At, Org, Registering
<1>7. CASE CheckUsers(s)
  <2>1. request'[s].at = "free" /\ request'[s].org = Org(s)
    BY <1>2, <1>7 DEF CheckUsers, Goto, MembersInv, TypeInv, TypeOK, RequestType, Org
  <2>2. s \in Registrars /\ organizations[Org(s)] = None
    BY <1>7 DEF CheckUsers, MembersInv, ChecksHold, At, Registering
  <2> QED
    BY <1>1, <1>3, <1>7, <2>1, <2>2, OthersKeepMembers DEF CheckUsers, At, Org, Registering
<1>8. CASE ReadRole(s)
  <2>1. PICK o \in Names :
           request' = [request EXCEPT ![s] = [request[s] EXCEPT !.at = "setting", !.org = o]]
    BY <1>8 DEF ReadRole
  <2>2. request'[s].at = "setting"
    BY <1>2, <2>1 DEF MembersInv, TypeInv, TypeOK, RequestType
  <2> QED
    BY <1>1, <1>3, <1>8, <2>2, OthersKeepMembers DEF ReadRole, At, Registering
<1> QED
  BY <1>4, <1>5, <1>6, <1>7, <1>8

\* While one request registers, no other is in the middle of a registration.
LEMMA NoOtherRegisters ==
    ASSUME MembersInv, OneRegistrar, NEW s \in Registrars, NEW t \in Slots \ {s}
    PROVE  request[t].at \notin Registering
BY DEF MembersInv, ChecksHold, OneRegistrar

LEMMA UserRegisterKeepsMembers ==
    ASSUME MembersInv, OneRegistrar, NEW s \in Slots, UserRegister(s), TypeInv'
    PROVE  MembersInv'
<1>1. PICK n \in Names : organizations[n] = None /\ users' = users \cup {n}
  BY DEF UserRegister, NameFree
<1>2. UNCHANGED <<organizations, listed, dropped, request>> /\ s \in Registrars
  BY DEF UserRegister
<1>3. \A t \in Slots : request[t].at \notin Registering
  BY <1>2, NoOtherRegisters DEF UserRegister, At, Registering
<1>4. ChecksHold'
  BY <1>2, <1>3 DEF ChecksHold, At, Registering
<1>5. SidesAgree'
  BY <1>2 DEF MembersInv, SidesAgree, Pending, At, Who, Org, RoleOf
<1> QED
  BY <1>4, <1>5 DEF MembersInv

LEMMA InsertKeepsMembers ==
    ASSUME MembersInv, OneRegistrar, NEW s \in Slots, InsertOrganization(s), TypeInv'
    PROVE  MembersInv'
<1> DEFINE g == [roles |-> [u \in Names |-> IF u = Who(s) THEN Owner ELSE 0], env |-> FALSE]
<1>1. /\ request[s].at = "free" /\ s \in Registrars
      /\ organizations[Org(s)] = None /\ Org(s) \notin users
      /\ Org(s) \in Names /\ Who(s) \in Names
  BY WhoIsUser DEF InsertOrganization, MembersInv, ChecksHold, TypeInv, OrgNamed, At, Registering, Phases
<1>2. \A o \in Names : organizations'[o] = IF o = Org(s) THEN g ELSE organizations[o]
  BY <1>1 DEF InsertOrganization, MembersInv, TypeInv, TypeOK
<1>3. g # None /\ \A u \in Names : g.roles[u] > 0 <=> u = Who(s)
  BY <1>1, OrganizationTyped DEF MembersInv, Owner
<1> HIDE DEF g
<1>4. /\ UNCHANGED <<users, listed, dropped>>
      /\ request'[s] = [request[s] EXCEPT !.at = "inserted"]
      /\ \A t \in Slots \ {s} : request'[t] = request[t]
  BY DEF InsertOrganization, Goto, MembersInv, TypeInv, TypeOK
<1>5. request'[s].at = "inserted" /\ request'[s].who = Who(s) /\ request'[s].org = Org(s)
  BY <1>4, FieldsOf DEF MembersInv, RequestType, Who, Org
<1>6. \A t \in Slots \ {s} : request[t].at \notin Registering
  BY <1>1, NoOtherRegisters
<1>7. ChecksHold'
  <2>1. \A t \in Slots : request'[t].at \in Registering => t = s
    BY <1>4, <1>6
  <2>2. request'[s].at # "named" /\ request'[s].at # "free"
    BY <1>5
  <2> QED
    BY <1>1, <2>1, <2>2 DEF ChecksHold, At, Registering
<1>8. SidesAgree'
  <2>1. \A o, u \in Names : Pending(u, o)' <=> Pending(u, o) \/ (o = Org(s) /\ u = Who(s))
    BY <1>1, <1>4, <1>5, <1>6 DEF Pending, At, Who, Org, Registering
  <2>2. \A u \in Names : Org(s) \notin listed[u] /\ ~Pending(u, Org(s))
    BY <1>1 DEF MembersInv, SidesAgree
  <2> QED
    BY <1>1, <1>2, <1>3, <1>4, <2>1, <2>2 DEF MembersInv, SidesAgree, RoleOf
<1> QED
  BY <1>7, <1>8 DEF MembersInv

LEMMA EndKeepsMembers ==
    ASSUME MembersInv, NEW s \in Slots, PushOrganization(s) \/ Drop(s), TypeInv'
    PROVE  MembersInv'
<1>1. /\ UNCHANGED <<users, organizations>>
      /\ request'[s] = Idle /\ Idle.at = "none"
      /\ \A t \in Slots \ {s} : request'[t] = request[t]
      /\ Who(s) \in Names /\ Org(s) \in Names
  BY WhoIsUser, IdleTyped
     DEF PushOrganization, Drop, Respond, MembersInv, TypeInv, TypeOK, OrgNamed, At, Phases
<1>2. \A o, u \in Names : o \in listed'[u] \/ Pending(u, o)' <=> o \in listed[u] \/ Pending(u, o)
  <2>1. CASE PushOrganization(s)
    <3>1. \A u \in Names : listed'[u] = IF u = Who(s) THEN listed[u] \cup {Org(s)} ELSE listed[u]
      BY <1>1, <2>1 DEF PushOrganization, MembersInv, TypeInv, TypeOK
    <3>2. dropped' = dropped /\ request[s].at = "inserted"
      BY <2>1 DEF PushOrganization, At
    <3> QED
      BY ZenonT(30), <1>1, <3>1, <3>2 DEF Pending, At, Who, Org
  <2>2. CASE Drop(s)
    <3>1. /\ listed' = listed
          /\ At(s, "inserted") => dropped' = dropped \cup {<<Who(s), Org(s)>>}
          /\ ~At(s, "inserted") => dropped' = dropped
      BY <2>2 DEF Drop
    <3> QED
      BY <1>1, <3>1 DEF Pending, At, Who, Org
  <2> QED
    BY <2>1, <2>2
<1>3. ChecksHold'
  BY <1>1 DEF MembersInv, ChecksHold, At, Org, Registering
<1>4. SidesAgree'
  BY <1>1, <1>2 DEF MembersInv, SidesAgree, RoleOf
<1> QED
  BY <1>3, <1>4 DEF MembersInv

LEMMA AddKeepsMembers ==
    ASSUME MembersInv, NEW s \in Slots, OrgAddUser(s), TypeInv'
    PROVE  MembersInv'
<1>1. PICK o \in Names, u \in Names, role \in Roles :
         /\ organizations[o] # None
         /\ RoleOf(o, u) = 0
         /\ organizations' = [organizations EXCEPT ![o] =
               [organizations[o] EXCEPT !.roles = [organizations[o].roles EXCEPT ![u] = role]]]
         /\ listed' = [listed EXCEPT ![u] = listed[u] \cup {o}]
  BY DEF OrgAddUser, IsUser, ListedAfter, MembersInv, TypeInv, TypeOK
<1> DEFINE g == [organizations[o] EXCEPT !.roles = [organizations[o].roles EXCEPT ![u] = role]]
<1>2. organizations[o] \in Organizations /\ g \in Organizations /\ g # None
  <2>1. TypeInv
    BY DEF MembersInv
  <2>2. organizations[o] \in Organizations
    BY <1>1, <2>1, OrganizationTyped
  <2> QED
    BY <2>1, <2>2, OrganizationTyped
<1>3. \A v \in Names : g.roles[v] = IF v = u THEN role ELSE RoleOf(o, v)
  BY <1>2 DEF Organizations, RoleOf
<1>4. \A p \in Names : organizations'[p] = IF p = o THEN g ELSE organizations[p]
  BY <1>1 DEF MembersInv, TypeInv, TypeOK
<1> HIDE DEF g
<1>5. /\ UNCHANGED <<users, dropped>>
      /\ request'[s] = Idle /\ Idle.at = "none"
      /\ request[s].at = "authenticated"
      /\ \A t \in Slots \ {s} : request'[t] = request[t]
  BY IdleTyped DEF OrgAddUser, Respond, MembersInv, TypeInv, TypeOK, At
<1>6. role > 0
  BY DEF Roles
<1>7. ChecksHold'
  BY <1>1, <1>4, <1>5 DEF MembersInv, ChecksHold, TypeInv, OrgNamed, At, Org, Registering, Phases
<1>8. SidesAgree'
  <2>1. \A p, v \in Names : Pending(v, p)' <=> Pending(v, p)
    BY <1>5 DEF Pending, At, Who, Org
  <2>2. \A v \in Names : listed'[v] = IF v = u THEN listed[v] \cup {o} ELSE listed[v]
    BY <1>1 DEF MembersInv, TypeInv, TypeOK
  <2>3. ASSUME NEW p \in Names, NEW v \in Names
        PROVE  (organizations'[p] # None /\ organizations'[p].roles[v] > 0)
                  <=> (Member(p, v) \/ (p = o /\ v = u))
    BY <1>1, <1>2, <1>3, <1>4, <1>6 DEF Member, RoleOf
  <2>4. \A p, v \in Names : Member(p, v) <=> p \in listed[v] \/ Pending(v, p)
    BY DEF MembersInv, SidesAgree, Member
  <2> QED
    <3>1. ASSUME NEW p \in Names, NEW v \in Names
          PROVE  (organizations'[p] # None /\ organizations'[p].roles[v] > 0)
                    <=> (p \in listed'[v] \/ Pending(v, p)')
      <4>1. p \in listed'[v] <=> p \in listed[v] \/ (p = o /\ v = u)
        BY <2>2
      <4>2. Member(p, v) <=> p \in listed[v] \/ Pending(v, p)
        BY <2>4
      <4>3. Pending(v, p)' <=> Pending(v, p)
        BY <2>1
      <4> QED
        BY <2>3, <4>1, <4>2, <4>3
    <3> QED
      BY <3>1 DEF SidesAgree, RoleOf
<1> QED
  BY <1>7, <1>8 DEF MembersInv

LEMMA WriteKeepsMembers ==
    ASSUME MembersInv, NEW s \in Slots, WriteEnv(s), TypeInv'
    PROVE  MembersInv'
<1>1. Org(s) \in Names
  BY DEF WriteEnv, MembersInv, TypeInv, OrgNamed, At, Phases
<1>2. \A p \in Names : /\ organizations'[p] # None <=> organizations[p] # None
                       /\ organizations[p] # None => organizations'[p].roles = organizations[p].roles
  BY <1>1, WriteKeepsRoles DEF MembersInv
<1>3. /\ UNCHANGED <<users, listed, dropped>>
      /\ request'[s] = Idle /\ Idle.at = "none"
      /\ request[s].at = "setting"
      /\ \A t \in Slots \ {s} : request'[t] = request[t]
  BY IdleTyped DEF WriteEnv, Respond, MembersInv, TypeInv, TypeOK, At
<1>4. ChecksHold'
  BY <1>2, <1>3 DEF MembersInv, ChecksHold, TypeInv, OrgNamed, At, Org, Registering, Phases
<1>5. SidesAgree'
  <2>1. \A p, v \in Names : Pending(v, p)' <=> Pending(v, p)
    BY <1>3 DEF Pending, At, Who, Org
  <2> QED
    BY <1>2, <1>3, <2>1 DEF MembersInv, SidesAgree, RoleOf
<1> QED
  BY <1>4, <1>5 DEF MembersInv

LEMMA MembersInit == Init => MembersInv
<1> SUFFICES ASSUME Init PROVE MembersInv
  OBVIOUS
<1>1. \A s \in Slots : request[s] = Idle /\ Idle.at = "none"
  BY IdleTyped DEF Init
<1>2. ChecksHold
  BY <1>1 DEF ChecksHold, At, Registering
<1>3. SidesAgree
  BY <1>1 DEF Init, SidesAgree, Pending, At
<1> QED
  BY <1>2, <1>3, TypeInit DEF MembersInv

LEMMA MembersStep == OneRegistrar /\ MembersInv /\ [Next]_vars => MembersInv'
<1> SUFFICES ASSUME OneRegistrar, MembersInv, [Next]_vars PROVE MembersInv'
  OBVIOUS
<1>1. TypeInv'
  BY TypeStep DEF MembersInv
<1>2. CASE UNCHANGED vars
  BY <1>1, <1>2 DEF vars, MembersInv, ChecksHold, SidesAgree, Pending, At, Who, Org, RoleOf
<1>3. CASE Next
  <2>1. PICK s \in Slots : Step(s)
    BY <1>3 DEF Next
  <2> QED
    BY <1>1, <2>1, MovesKeepMembers, UserRegisterKeepsMembers, InsertKeepsMembers,
       EndKeepsMembers, AddKeepsMembers, WriteKeepsMembers DEF Step
<1> QED
  BY <1>2, <1>3

\* With one registration at a time the two sides of every membership agree,
\* whatever else goes on and whoever goes away.
THEOREM MembershipsAgree ==
    ASSUME OneRegistrar
    PROVE  Spec => []SidesAgree
<1>1. MembersInv => SidesAgree
  BY DEF MembersInv
<1>2. MembersInv /\ [Next]_vars => MembersInv'
  BY MembersStep
<1> QED
  BY <1>1, <1>2, MembersInit, PTL DEF Spec

\* What the other organizations may rely on: the same role as before, or none.
LEMMA SameRoleGiven ==
    ASSUME NEW o \in Names, NEW u \in Names, organizations'[o] # None <=> organizations[o] # None,
           organizations[o] # None => organizations'[o].roles = organizations[o].roles,
           organizations'[o] # None
    PROVE  RoleGiven(o, u)
BY DEF RoleGiven, RoleOf

LEMMA RolesStep ==
    ASSUME MembersInv, [Next]_vars, NEW o \in Names, NEW u \in Names
    PROVE  /\ organizations[o] # None => organizations'[o] # None
           /\ organizations'[o] # None => RoleGiven(o, u)
<1>1. CASE UNCHANGED organizations
  BY <1>1, SameRoleGiven
<1>2. ASSUME NEW s \in Slots, WriteEnv(s)
      PROVE  /\ organizations[o] # None => organizations'[o] # None
             /\ organizations'[o] # None => RoleGiven(o, u)
  <2>1. Org(s) \in Names /\ TypeInv
    BY <1>2 DEF WriteEnv, MembersInv, TypeInv, OrgNamed, At, Phases
  <2> QED
    BY <1>2, <2>1, WriteKeepsRoles, SameRoleGiven
<1>3. ASSUME NEW s \in Slots, InsertOrganization(s)
      PROVE  /\ organizations[o] # None => organizations'[o] # None
             /\ organizations'[o] # None => RoleGiven(o, u)
  <2> DEFINE g == [roles |-> [v \in Names |-> IF v = Who(s) THEN Owner ELSE 0], env |-> FALSE]
  <2>1. organizations[Org(s)] = None /\ Org(s) \in Names /\ Who(s) \in Names
    BY <1>3, WhoIsUser
       DEF InsertOrganization, MembersInv, ChecksHold, TypeInv, OrgNamed, At, Phases
  <2>2. organizations'[o] = IF o = Org(s) THEN g ELSE organizations[o]
    BY <1>3, <2>1 DEF InsertOrganization, MembersInv, TypeInv, TypeOK
  <2>3. g.roles[u] > 0 => g.roles[u] = Owner /\ \A v \in Names \ {u} : g.roles[v] = 0
    OBVIOUS
  <2> HIDE DEF g
  <2>4. CASE o = Org(s)
    BY <2>1, <2>2, <2>3, <2>4 DEF RoleGiven
  <2>5. CASE o # Org(s)
    BY <2>2, <2>5, SameRoleGiven
  <2> QED
    BY <2>4, <2>5
<1>4. ASSUME NEW s \in Slots, OrgAddUser(s)
      PROVE  /\ organizations[o] # None => organizations'[o] # None
             /\ organizations'[o] # None => RoleGiven(o, u)
  <2>1. PICK p \in Names, v \in Names, role \in Roles :
           /\ organizations[p] # None
           /\ EffectiveRole(p, Who(s)) >= Admin /\ role <= EffectiveRole(p, Who(s))
           /\ RoleOf(p, v) = 0
           /\ organizations' = [organizations EXCEPT ![p] =
                 [organizations[p] EXCEPT !.roles = [organizations[p].roles EXCEPT ![v] = role]]]
    BY <1>4 DEF OrgAddUser, MayGive, MembersInv, TypeInv, TypeOK
  <2> DEFINE g == [organizations[p] EXCEPT !.roles = [organizations[p].roles EXCEPT ![v] = role]]
  <2>2. organizations[p] \in Organizations /\ g \in Organizations /\ g # None
    <3>1. TypeInv
      BY DEF MembersInv
    <3>2. organizations[p] \in Organizations
      BY <2>1, <3>1, OrganizationTyped
    <3> QED
      BY <3>1, <3>2, OrganizationTyped
  <2>3. \A w \in Names : g.roles[w] = IF w = v THEN role ELSE RoleOf(p, w)
    BY <2>2 DEF Organizations, RoleOf
  <2>4. organizations'[o] = IF o = p THEN g ELSE organizations[o]
    BY <2>1 DEF MembersInv, TypeInv, TypeOK
  <2> HIDE DEF g
  <2>5. CASE o = p
    <3>1. RoleOf(p, Who(s)) >= Admin /\ role <= RoleOf(p, Who(s))
      BY <2>1 DEF EffectiveRole, Viewer, Admin
    <3>2. request'[s] # request[s]
      BY <1>4, IdleTyped DEF OrgAddUser, Respond, At, MembersInv, TypeInv, TypeOK
    <3>3. organizations'[o].roles[u] # RoleOf(o, u) =>
             organizations'[o].roles[u] = role /\ RoleOf(o, u) = 0
      BY <2>1, <2>3, <2>4, <2>5
    <3> QED
      <4>1. organizations[o] # None
        BY <2>1, <2>5
      <4>2. organizations'[o].roles[u] # RoleOf(o, u) =>
               /\ RoleOf(o, u) = 0
               /\ RoleOf(o, Who(s)) >= Admin
               /\ RoleOf(o, Who(s)) >= organizations'[o].roles[u]
        <5>1. SUFFICES ASSUME organizations'[o].roles[u] # RoleOf(o, u)
                       PROVE  /\ RoleOf(o, u) = 0
                              /\ RoleOf(o, Who(s)) >= Admin
                              /\ RoleOf(o, Who(s)) >= organizations'[o].roles[u]
          OBVIOUS
        <5>2. RoleOf(p, Who(s)) \in 0..5
          BY <1>4, <2>2, WhoIsUser DEF OrgAddUser, At, MembersInv, RoleOf, Organizations
        <5>3. RoleOf(p, Who(s)) >= role
          BY <3>1, <5>2 DEF Roles
        <5> QED
          BY <2>5, <3>1, <3>3, <5>1, <5>3
      <4>3. organizations'[o] # None
        BY <2>2, <2>4, <2>5
      <4>4. RoleGiven(o, u)
        BY <3>2, <4>1, <4>2 DEF RoleGiven
      <4> QED
        BY <4>3, <4>4
  <2>6. CASE o # p
    BY <2>4, <2>6, SameRoleGiven
  <2> QED
    BY <2>5, <2>6
<1>5. CASE Next
  <2>1. PICK s \in Slots : Step(s)
    BY <1>5 DEF Next
  <2>2. WriteEnv(s) \/ InsertOrganization(s) \/ OrgAddUser(s) \/ UNCHANGED organizations
    BY <2>1
       DEF Step, AuthenticateWithToken, AuthenticateWithApiKey, Refuse, UserRegister,
           CheckOrganizations, CheckUsers, PushOrganization, ReadRole, CreateApiKey,
           RemoveApiKey, Drop, members
  <2> QED
    BY <1>1, <1>2, <1>3, <1>4, <2>2
<1> QED
  BY <1>1, <1>5 DEF vars

\* With one registration at a time roles are only ever given, by an admin or
\* owner whose role is as high, and an organization begins with its owner.
THEOREM RolesComeFromAbove ==
    ASSUME OneRegistrar
    PROVE  Spec => RolesAreGiven
<1>1. MembersInv /\ [Next]_vars => MembersInv'
  BY MembersStep
<1>2. MembersInv /\ [Next]_vars =>
         [\A o, u \in Names :
             /\ organizations[o] # None => organizations'[o] # None
             /\ organizations'[o] # None => RoleGiven(o, u)]_vars
  BY RolesStep
<1> QED
  BY <1>1, <1>2, MembersInit, PTL DEF Spec, RolesAreGiven
==============================================================================
