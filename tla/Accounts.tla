------------------------------ MODULE Accounts -------------------------------
(****************************************************************************)
(* Users, organizations, roles and API keys                                 *)
(* (plugin-host/src/tenant/{org,user}/member_routes.rs, auth/*.rs,          *)
(* org/resource_routes.rs).                                                 *)
(*                                                                          *)
(* A request is authenticated first and handled afterwards.  A handler that *)
(* takes one lock, or several nested ones, is one action; between the       *)
(* sections of the others, other requests come.  A client that goes away    *)
(* drops the future of its handler at an await: what was done stays.        *)
(*                                                                          *)
(* Users and organizations share one space of names, since both have their  *)
(* files in a directory of that name.                                       *)
(****************************************************************************)
EXTENDS Naturals

CONSTANTS
    Names,      \* of users and of organizations
    Keys,       \* API keys: each is random, and made at most once
    Slots,      \* requests under way at once
    Registrars, \* those of them that may register users and organizations
    None        \* no organization, no key, no owner of a key

\* enum Role, in its derived order; 0 stands for somebody who has none.
Viewer == 1
Manager == 3
Admin == 4
Owner == 5
Roles == 1..5

\* One shared variable, set or not, is enough to tell who may set it.
Organizations == [roles : [Names -> 0..5], env : BOOLEAN]

ASSUME AccountsAssumption ==
    /\ Registrars \subseteq Slots
    /\ None \notin Names
    /\ None \notin Keys
    /\ None \notin Organizations

VARIABLES
    users,         \* the names in the map of users, which only grows
    organizations, \* name -> the organization, or None
    listed,        \* user -> organization_ids
    keysOf,        \* user -> api_keys
    keyOwner,      \* api_key_to_user: key -> user, or None
    keyLife,       \* what became of each key: history
    request,       \* what is under way in each slot
    dropped        \* <<user, organization>> of registrations dropped before
                   \* their last section: history

vars == <<users, organizations, listed, keysOf, keyOwner, keyLife, request, dropped>>
members == <<users, organizations, listed, dropped>>
keys == <<keysOf, keyOwner, keyLife>>

Idle == [at |-> "none", who |-> None, key |-> None, org |-> None]

At(s, phase) == request[s].at = phase
Who(s) == request[s].who
Org(s) == request[s].org

Goto(s, phase) == request' = [request EXCEPT ![s].at = phase]
Respond(s) == request' = [request EXCEPT ![s] = Idle]

\* member_ids holds whoever has a role; the role of a stranger is Viewer.
RoleOf(o, u) == organizations[o].roles[u]
EffectiveRole(o, u) == IF RoleOf(o, u) = 0 THEN Viewer ELSE RoleOf(o, u)
------------------------------------------------------------------------------
(* Authentication *)

\* A token names a user, who is never removed.
AuthenticateWithToken(s) ==
    /\ At(s, "none")
    /\ \E u \in users :
          request' = [request EXCEPT ![s] = [Idle EXCEPT !.at = "authenticated", !.who = u]]
    /\ UNCHANGED <<members, keys>>

\* Mutant: the table of keys is trusted.
ListsKeyUnchecked(u, k) == TRUE

\* "Invalid API key - not found in user's keys"
ListsKey(u, k) == k \in keysOf[u]

AuthenticateWithApiKey(s) ==
    /\ At(s, "none")
    /\ \E k \in Keys :
          /\ keyOwner[k] \in users
          /\ ListsKey(keyOwner[k], k)
          /\ request' = [request EXCEPT ![s] =
                [Idle EXCEPT !.at = "authenticated", !.who = keyOwner[k], !.key = k]]
    /\ UNCHANGED <<members, keys>>

\* The request is refused, or only reads.
Refuse(s) ==
    /\ At(s, "authenticated") \/ At(s, "named")
    /\ Respond(s)
    /\ UNCHANGED <<members, keys>>
------------------------------------------------------------------------------
(* user_register *)

NameFree(n) == n \notin users /\ organizations[n] = None

\* Nobody is authenticated for it; users stay locked throughout.
UserRegister(s) ==
    /\ s \in Registrars
    /\ At(s, "none")
    /\ \E n \in Names :
          /\ NameFree(n)
          /\ users' = users \cup {n}
    /\ UNCHANGED <<organizations, listed, dropped, keys, request>>
------------------------------------------------------------------------------
(* org_register: four sections *)

CheckOrganizations(s) ==
    /\ s \in Registrars
    /\ At(s, "authenticated")
    /\ \E o \in Names :
          /\ organizations[o] = None
          /\ request' = [request EXCEPT ![s] = [@ EXCEPT !.at = "named", !.org = o]]
    /\ UNCHANGED <<members, keys>>

CheckUsers(s) ==
    /\ At(s, "named")
    /\ Org(s) \notin users
    /\ Goto(s, "free")
    /\ UNCHANGED <<members, keys>>

InsertOrganization(s) ==
    /\ At(s, "free")
    /\ organizations' = [organizations EXCEPT ![Org(s)] =
          [roles |-> [u \in Names |-> IF u = Who(s) THEN Owner ELSE 0], env |-> FALSE]]
    /\ Goto(s, "inserted")
    /\ UNCHANGED <<users, listed, dropped, keys>>

PushOrganization(s) ==
    /\ At(s, "inserted")
    /\ listed' = [listed EXCEPT ![Who(s)] = @ \cup {Org(s)}]
    /\ Respond(s)
    /\ UNCHANGED <<users, organizations, dropped, keys>>
------------------------------------------------------------------------------
(* org_add_user: organizations and users locked together *)

MayGive(o, u, role) == EffectiveRole(o, u) >= Admin /\ role <= EffectiveRole(o, u)

\* "User not found"
IsUser(u) == u \in users

\* Mutant: the user's side is forgotten.
ListedAfterForgotten(u, o) == listed
ListedAfter(u, o) == [listed EXCEPT ![u] = @ \cup {o}]

OrgAddUser(s) ==
    /\ At(s, "authenticated")
    /\ \E o, u \in Names, role \in Roles :
          /\ organizations[o] # None
          /\ IsUser(u)
          /\ MayGive(o, Who(s), role)
          /\ RoleOf(o, u) = 0
          /\ organizations' = [organizations EXCEPT ![o] =
                [@ EXCEPT !.roles = [organizations[o].roles EXCEPT ![u] = role]]]
          /\ listed' = ListedAfter(u, o)
    /\ Respond(s)
    /\ UNCHANGED <<users, dropped, keys>>
------------------------------------------------------------------------------
(* org_add_env_var: the role is read, and the variable written, under two
   locks *)

MaySet(o, u) == RoleOf(o, u) >= Manager

ReadRole(s) ==
    /\ At(s, "authenticated")
    /\ \E o \in Names :
          /\ organizations[o] # None
          /\ MaySet(o, Who(s))
          /\ request' = [request EXCEPT ![s] = [@ EXCEPT !.at = "setting", !.org = o]]
    /\ UNCHANGED <<members, keys>>

WriteEnv(s) ==
    /\ At(s, "setting")
    /\ IF organizations[Org(s)] = None
       THEN UNCHANGED organizations
       ELSE \E set \in BOOLEAN :
               organizations' = [organizations EXCEPT ![Org(s)] = [@ EXCEPT !.env = set]]
    /\ Respond(s)
    /\ UNCHANGED <<users, listed, dropped, keys>>
------------------------------------------------------------------------------
(* API keys: users and api_key_to_user locked together, one change after the
   other; the handler may be dropped between the two *)

CreateApiKey(s) ==
    /\ At(s, "authenticated")
    /\ \E k \in Keys :
          /\ keyLife[k] = "new"
          /\ keysOf' = [keysOf EXCEPT ![Who(s)] = @ \cup {k}]
          /\ keyOwner' \in {keyOwner, [keyOwner EXCEPT ![k] = Who(s)]}
          /\ keyLife' = [keyLife EXCEPT ![k] = "made"]
    /\ Respond(s)
    /\ UNCHANGED members

RemoveApiKey(s) ==
    /\ At(s, "authenticated")
    /\ \E k \in keysOf[Who(s)] :
          /\ keysOf' = [keysOf EXCEPT ![Who(s)] = @ \ {k}]
          /\ keyOwner' \in {keyOwner, [keyOwner EXCEPT ![k] = None]}
          /\ keyLife' = [keyLife EXCEPT ![k] = "removed"]
    /\ Respond(s)
    /\ UNCHANGED members
------------------------------------------------------------------------------
\* The client goes away between two sections.
Drop(s) ==
    /\ request[s].at \in {"named", "free", "inserted", "setting"}
    /\ dropped' = IF At(s, "inserted") THEN dropped \cup {<<Who(s), Org(s)>>} ELSE dropped
    /\ Respond(s)
    /\ UNCHANGED <<users, organizations, listed, keys>>

Init ==
    /\ users = {}
    /\ organizations = [n \in Names |-> None]
    /\ listed = [n \in Names |-> {}]
    /\ keysOf = [n \in Names |-> {}]
    /\ keyOwner = [k \in Keys |-> None]
    /\ keyLife = [k \in Keys |-> "new"]
    /\ request = [s \in Slots |-> Idle]
    /\ dropped = {}

Step(s) ==
    \/ AuthenticateWithToken(s) \/ AuthenticateWithApiKey(s) \/ Refuse(s)
    \/ UserRegister(s)
    \/ CheckOrganizations(s) \/ CheckUsers(s)
    \/ InsertOrganization(s) \/ PushOrganization(s)
    \/ OrgAddUser(s)
    \/ ReadRole(s) \/ WriteEnv(s)
    \/ CreateApiKey(s) \/ RemoveApiKey(s)
    \/ Drop(s)

Next == \E s \in Slots : Step(s)

Spec == Init /\ [][Next]_vars
------------------------------------------------------------------------------
Phases == {"none", "authenticated", "named", "free", "inserted", "setting"}

TypeOK ==
    /\ users \subseteq Names
    /\ organizations \in [Names -> Organizations \cup {None}]
    /\ listed \in [Names -> SUBSET Names]
    /\ keysOf \in [Names -> SUBSET Keys]
    /\ keyOwner \in [Keys -> Names \cup {None}]
    /\ keyLife \in [Keys -> {"new", "made", "removed"}]
    /\ request \in [Slots -> [at : Phases, who : Names \cup {None},
                              key : Keys \cup {None}, org : Names \cup {None}]]
    /\ dropped \subseteq Names \X Names
    /\ \A s \in Slots : ~At(s, "none") => Who(s) \in users
    /\ \A o, u \in Names : organizations[o] # None /\ RoleOf(o, u) > 0 => u \in users

\* "Username already exists", "Organization name conflicts with an existing
\* username" (user/member_routes.rs:51, org/member_routes.rs:46): a user and an
\* organization, whose files are in a directory of their name, never share one.
NamesUnique == \A o \in Names : organizations[o] # None => o \notin users

\* u is registering o, and o is not in her list yet.
Pending(u, o) ==
    \/ \E s \in Slots : At(s, "inserted") /\ Who(s) = u /\ Org(s) = o
    \/ <<u, o>> \in dropped

\* The two sides of a membership agree: an organization has a role for u
\* exactly if u's list has it, or will once its registration is over.
SidesAgree ==
    \A o, u \in Names :
        (organizations[o] # None /\ RoleOf(o, u) > 0) <=> (o \in listed[u] \/ Pending(u, o))

\* Roles are given, never taken or changed, by a request of somebody who manages
\* users and whose own role is as high; only the one who registers an
\* organization has one of herself (org/member_routes.rs:129-147).
RoleGiven(o, u) ==
    IF organizations[o] = None
    THEN organizations'[o].roles[u] > 0 =>
            organizations'[o].roles[u] = Owner /\ \A v \in Names \ {u} : organizations'[o].roles[v] = 0
    ELSE organizations'[o].roles[u] # RoleOf(o, u) =>
            /\ RoleOf(o, u) = 0
            /\ \E s \in Slots :
                  /\ request'[s] # request[s]
                  /\ RoleOf(o, Who(s)) >= Admin
                  /\ RoleOf(o, Who(s)) >= organizations'[o].roles[u]

RolesAreGiven ==
    [][\A o, u \in Names :
          /\ organizations[o] # None => organizations'[o] # None
          /\ organizations'[o] # None => RoleGiven(o, u)]_vars

\* Whoever is about to set a shared variable has the role it takes, read under
\* a lock of its own (org/resource_routes.rs:35, :51).  Nothing takes a role away
\* but a second registration of the name, which refutes it.
SettersManage ==
    \A s \in Slots :
        At(s, "setting") => organizations[Org(s)] # None /\ RoleOf(Org(s), Who(s)) >= Manager

\* A key that was removed lets nobody in, although the table of keys may still
\* have it (auth/api_key.rs:157-164, auth/mod.rs:84).
RemovedKeysOpenNothing ==
    [][\A s \in Slots, k \in Keys :
          request'[s].key = k /\ request[s].key # k => keyLife[k] = "made"]_vars
==============================================================================
