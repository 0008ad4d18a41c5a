--------------------------- MODULE TenantResources ---------------------------
(****************************************************************************)
(* The pipelines and daemons of tenants (plugin-host/src/tenant/mod.rs,     *)
(* tenant/user/{pipeline,daemon}_routes.rs, tenant/org/resource_routes.rs)  *)
(* and what a restart makes of them (persistence.rs).  Of each kind there   *)
(* is one registry by name, which users refer to and share with             *)
(* organizations; each map has a lock of its own.                           *)
(*                                                                          *)
(* What a request does under one lock is one action.  A save copies the     *)
(* maps one after another while requests go on.  Which plugins a user sees  *)
(* is TenantPlugins' subject, how a pipeline runs PipelineRun's, what       *)
(* starting and stopping do Daemons', which save is the last Persistence's. *)
(****************************************************************************)
EXTENDS Naturals, Sequences

CONSTANTS
    Users, Orgs, Names,  \* of users, of organizations, of pipelines and daemons
    Slots,               \* requests under way at once
    MaxRequests,         \* bound: requests in a behaviour
    MaxSaves,            \* bound: saves in a behaviour
    MaxRestarts,         \* bound: restarts in a behaviour
    None                 \* no request, no entry, no file, no organization

\* Where a request may be under way.
Phases == {"found", "list", "insert", "refer", "look up", "referred?", "add"}

ASSUME ResourcesAssumption ==
    /\ {MaxRequests, MaxSaves, MaxRestarts} \subseteq Nat
    /\ None \notin Users \cup Orgs \cup Names \cup Phases

Kinds == {"pipeline", "daemon"}

\* enum Role in its order; 0 stands for somebody who is not a member.
Viewer == 1
Contributor == 2
Owner == 5
Roles == {Viewer, Contributor, Owner}

VARIABLES
    listed,    \* user -> organization_ids
    roles,     \* organization -> member -> role
    refs,      \* kind -> user -> names: user_pipeline_refs, user_daemons
    registry,  \* kind -> name -> who registered the entry, or None
    shared,    \* kind -> organization -> names: org_pipelines, org_daemons
    request,   \* slot -> what is under way
    copied,    \* what the save under way has copied, or None
    file,      \* what the last save to end had copied, or None
    requests, saves, restarts,
    overwritten  \* history: the organizations registered over one of that name

vars == <<listed, roles, refs, registry, shared, request, copied, file,
          requests, saves, restarts, overwritten>>
memory == <<listed, roles, refs, registry, shared>>
others == <<copied, file, saves, restarts, overwritten>>

Empty ==
    [listed |-> [u \in Users |-> {}],
     roles |-> [o \in Orgs |-> [u \in Users |-> 0]],
     refs |-> [k \in Kinds |-> [u \in Users |-> {}]],
     registry |-> [k \in Kinds |-> [n \in Names |-> None]],
     shared |-> [k \in Kinds |-> [o \in Orgs |-> {}]]]

Becomes(state) ==
    /\ listed' = state.listed
    /\ roles' = state.roles
    /\ refs' = state.refs
    /\ registry' = state.registry
    /\ shared' = state.shared

Idle == [at |-> None]

Init ==
    /\ listed = Empty.listed
    /\ roles = Empty.roles
    /\ refs = Empty.refs
    /\ registry = Empty.registry
    /\ shared = Empty.shared
    /\ request = [s \in Slots |-> Idle]
    /\ copied = None
    /\ file = None
    /\ requests = 0 /\ saves = 0 /\ restarts = 0
    /\ overwritten = {}

At(s, phase) == request[s].at = phase
Kind(s) == request[s].kind
User(s) == request[s].user
Name(s) == request[s].name
Org(s) == request[s].org

Goto(s, phase) == request' = [request EXCEPT ![s].at = phase]
Respond(s) == request' = [request EXCEPT ![s] = Idle]

\* A request comes, and has gone through its first section.
Comes(s, r) ==
    /\ At(s, None)
    /\ requests < MaxRequests
    /\ requests' = requests + 1
    /\ request' = [request EXCEPT ![s] = r]

Registered(k) == { n \in Names : registry[k][n] # None }
Lists(k, u, n) == n \in refs[k][u]
------------------------------------------------------------------------------
(* Organizations, as far as sharing asks for them; the rest is Accounts. *)

\* A share of a pipeline holds the organizations' lock from its first check
\* to its end.
OrganizationsFree ==
    ~ \E s \in Slots : request[s].at \in {"referred?", "add"} /\ Kind(s) = "pipeline"

Exists(o) == \E u \in Users : roles[o][u] > 0

\* org_register sees that no organization and, names being apart, no user has
\* the name.
OrgRegister(s, o, u) ==
    /\ ~Exists(o)
    /\ Comes(s, [at |-> "found", kind |-> None, user |-> u, name |-> None, org |-> o])
    /\ UNCHANGED <<memory, others>>

\* A later section inserts the new organization with its one member, whatever
\* has got that name meanwhile.
OrgInsert(s) ==
    /\ At(s, "found")
    /\ OrganizationsFree
    /\ roles' = [roles EXCEPT ![Org(s)] = [u \in Users |-> IF u = User(s) THEN Owner ELSE 0]]
    /\ overwritten' = IF Exists(Org(s)) THEN overwritten \cup {Org(s)} ELSE overwritten
    /\ Goto(s, "list")
    /\ UNCHANGED <<listed, refs, registry, shared, requests, copied, file, saves, restarts>>

OrgListed(s) ==
    /\ At(s, "list")
    /\ listed' = [listed EXCEPT ![User(s)] = @ \cup {Org(s)}]
    /\ Respond(s)
    /\ UNCHANGED <<roles, refs, registry, shared, others, requests>>

\* An owner adds a user: org_add_user changes both maps at once.
OrgAddUser(s, o, u, role) ==
    /\ OrganizationsFree
    /\ At(s, None)
    /\ requests < MaxRequests
    /\ \E v \in Users : roles[o][v] = Owner
    /\ roles[o][u] = 0
    /\ roles' = [roles EXCEPT ![o][u] = role]
    /\ listed' = [listed EXCEPT ![u] = @ \cup {o}]
    /\ requests' = requests + 1
    /\ UNCHANGED <<refs, registry, shared, request, others>>
------------------------------------------------------------------------------
(* user_pipelines_register, user_daemon_register *)

\* The plugins are there: a daemon has been made, and its task started.
Register(s, k, u, n) ==
    /\ Comes(s, [at |-> "insert", kind |-> k, user |-> u, name |-> n, org |-> None])
    /\ UNCHANGED <<memory, others>>

\* The entry of that name is replaced, whosever it was.
Insert(s) ==
    /\ At(s, "insert")
    /\ registry' = [registry EXCEPT ![Kind(s)][Name(s)] = User(s)]
    /\ Goto(s, "refer")
    /\ UNCHANGED <<listed, roles, refs, shared, requests, others>>

Refer(s) ==
    /\ At(s, "refer")
    /\ refs' = [refs EXCEPT ![Kind(s)][User(s)] = @ \cup {Name(s)}]
    /\ Respond(s)
    /\ UNCHANGED <<listed, roles, registry, shared, requests, others>>
------------------------------------------------------------------------------
(* Running a pipeline; a daemon's status, start and stop *)

Use(s, k, u, n) ==
    /\ Lists(k, u, n)
    /\ Comes(s, [at |-> "look up", kind |-> k, user |-> u, name |-> n, org |-> None])
    /\ UNCHANGED <<memory, others>>

LookUp(s) ==
    /\ At(s, "look up")
    /\ Respond(s)
    /\ UNCHANGED <<memory, requests, others>>
------------------------------------------------------------------------------
(* share_pipeline_with_organization, share_daemon_with_organization *)

\* Mutant: every member may share.
MayShareMember(o, u) == roles[o][u] >= Viewer

MayShare(o, u) == roles[o][u] >= Contributor

Share(s, k, u, n, o) ==
    /\ MayShare(o, u)
    /\ Comes(s, [at |-> "referred?", kind |-> k, user |-> u, name |-> n, org |-> o])
    /\ UNCHANGED <<memory, others>>

CheckReferred(s) ==
    /\ At(s, "referred?")
    /\ IF Lists(Kind(s), User(s), Name(s)) THEN Goto(s, "add") ELSE Respond(s)
    /\ UNCHANGED <<memory, requests, others>>

Add(s) ==
    /\ At(s, "add")
    /\ shared' = [shared EXCEPT ![Kind(s)][Org(s)] = @ \cup {Name(s)}]
    /\ Respond(s)
    /\ UNCHANGED <<listed, roles, refs, registry, requests, others>>

\* The client goes away: what was done stays.
Drop(s) ==
    /\ ~At(s, None)
    /\ Respond(s)
    /\ UNCHANGED <<memory, requests, others>>
------------------------------------------------------------------------------
(* PersistentState::from and load_state *)

\* Mutant: each registry before the references to its entries.
RegistriesFirst ==
    << <<"listed", None>>, <<"roles", None>>,
       <<"registry", "pipeline">>, <<"refs", "pipeline">>, <<"shared", "pipeline">>,
       <<"registry", "daemon">>, <<"refs", "daemon">>, <<"shared", "daemon">> >>

\* Mutant: organizations before users.
OrganizationsFirst ==
    << <<"roles", None>>, <<"listed", None>>,
       <<"refs", "pipeline">>, <<"registry", "pipeline">>, <<"shared", "pipeline">>,
       <<"refs", "daemon">>, <<"registry", "daemon">>, <<"shared", "daemon">> >>

CopyOrder ==
    << <<"listed", None>>, <<"roles", None>>,
       <<"refs", "pipeline">>, <<"registry", "pipeline">>, <<"shared", "pipeline">>,
       <<"refs", "daemon">>, <<"registry", "daemon">>, <<"shared", "daemon">> >>

\* Every response, also a refusal's, spawns a save.
BeginSave ==
    /\ copied = None
    /\ saves < MaxSaves
    /\ saves' = saves + 1
    /\ copied' = [next |-> 1, state |-> Empty]
    /\ UNCHANGED <<memory, request, requests, file, restarts, overwritten>>

Copy(to, map, k) ==
    CASE map = "listed"   -> [to EXCEPT !.listed = listed]
      [] map = "roles"    -> [to EXCEPT !.roles = roles]
      [] map = "refs"     -> [to EXCEPT !.refs[k] = refs[k]]
      [] map = "registry" -> [to EXCEPT !.registry[k] = registry[k]]
      [] map = "shared"   -> [to EXCEPT !.shared[k] = shared[k]]

CopyNext ==
    /\ copied # None
    /\ copied.next <= Len(CopyOrder)
    /\ copied' = [next |-> copied.next + 1,
                  state |-> LET map == CopyOrder[copied.next] IN Copy(copied.state, map[1], map[2])]
    /\ UNCHANGED <<memory, request, requests, file, saves, restarts, overwritten>>

EndSave ==
    /\ copied # None
    /\ copied.next > Len(CopyOrder)
    /\ file' = copied.state
    /\ copied' = None
    /\ UNCHANGED <<memory, request, requests, saves, restarts, overwritten>>

Restart ==
    /\ restarts < MaxRestarts
    /\ restarts' = restarts + 1
    /\ Becomes(IF file = None THEN Empty ELSE file)
    /\ request' = [s \in Slots |-> Idle]
    /\ copied' = None
    /\ UNCHANGED <<file, requests, saves, overwritten>>

Next ==
    \/ \E s \in Slots :
        \/ \E o \in Orgs, u \in Users : OrgRegister(s, o, u)
        \/ \E o \in Orgs, u \in Users, role \in Roles : OrgAddUser(s, o, u, role)
        \/ OrgInsert(s) \/ OrgListed(s) \/ Insert(s) \/ Refer(s) \/ LookUp(s) \/ CheckReferred(s) \/ Add(s) \/ Drop(s)
        \/ \E k \in Kinds, u \in Users, n \in Names :
            \/ Register(s, k, u, n)
            \/ Use(s, k, u, n)
            \/ \E o \in Orgs : Share(s, k, u, n, o)
    \/ BeginSave \/ CopyNext \/ EndSave \/ Restart

Spec == Init /\ [][Next]_vars
------------------------------------------------------------------------------
(* What a user lists is registered, and what a request found in her list it   *)
(* finds in the registry: also after a restart from a copy that was made      *)
(* while requests registered, and with requests dropped half way.             *)
RefsResolve ==
    /\ \A k \in Kinds, u \in Users : refs[k][u] \subseteq Registered(k)
    /\ \A s \in Slots : request[s].at \in {"look up", "add"} => Name(s) \in Registered(Kind(s))

(* An organization in the list of a user has a role for her: env_var and      *)
(* load_state go by the list, every check by the role (host_impl.rs:747,      *)
(* persistence.rs:312), also after a restart.  Two registrations of one name  *)
(* at once are the exception: the second throws out the members of the first. *)
ListedAreMembers ==
    \A u \in Users : \A o \in listed[u] \ overwritten : roles[o][u] > 0

(* What an organization shows was shared by a member who may share and still  *)
(* lists it, although each of the checks was over when it was added; with the *)
(* same exception.                                                            *)
SharedIsEarned ==
    restarts = 0 =>
        \A k \in Kinds, o \in Orgs \ overwritten : \A n \in shared[k][o] :
            \E u \in Users : roles[o][u] >= Contributor /\ Lists(k, u, n)

(* Without the exception; refuted: both registrations look for the name       *)
(* before either inserts (member_routes.rs:30, 77).                           *)
EveryListedIsMember ==
    \A u \in Users : \A o \in listed[u] : roles[o][u] > 0

(* What an organization shows is registered: org_pipelines_list has an error  *)
(* for what is not (resource_routes.rs:277).  Refuted after a restart.        *)
SharesResolve ==
    \A k \in Kinds, o \in Orgs : shared[k][o] \subseteq Registered(k)

(* "Central registry of all pipelines (hash -> pipeline)" (tenant/mod.rs:37): *)
(* the entry of a name stays what it was.  Refuted: a name is whoever's        *)
(* registered it last.                                                        *)
NameIsContent ==
    [][\A k \in Kinds, n \in Names :
          registry[k][n] # None /\ restarts' = restarts => registry'[k][n] = registry[k][n]]_vars
==============================================================================
