---------------------------- MODULE TenantPlugins ----------------------------
(****************************************************************************)
(* The plugins of tenants (plugin-host/src/tenant/mod.rs and                *)
(* tenant/user/plugin_routes.rs): a registry of workers keyed by the hash   *)
(* of their bytes, and by user and by organization the hashes they made,    *)
(* share and see.                                                           *)
(*                                                                          *)
(* A request takes and releases one lock after another; what it does under  *)
(* one set of locks is one action, and other requests come in between.  Two *)
(* hashes may carry the same plugin id: they are versions of one plugin.    *)
(* Who waits for whose locks is TenantLocks' subject.                       *)
(****************************************************************************)
EXTENDS FiniteSets

CONSTANTS
    Users, Orgs, Hashes,
    PluginId,    \* hash -> the id in the plugin's metadata
    Founder,     \* organization -> the user who registered it
    Slots,       \* requests that may be under way at the same time
    Operations,  \* the requests that clients make
    None         \* no request, no hash, no organization

ASSUME TenantAssumption ==
    /\ Founder \in [Orgs -> Users]
    /\ None \notin Hashes
    /\ None \notin Orgs
    /\ Operations \subseteq {"upload", "remove", "share", "add user"}

Cleaning == {"clean", "clean org", "clean drop"}
Uploading == {"insert", "ref", "see", "used by user", "used by org", "drop new"}
Removing == {"unref", "orgs", "shared", "hide", "keys"} \cup Cleaning
Sharing == {"share", "members", "show"}

\* A request: whose, about which hash and organization, where it is, the
\* hash it found to replace or to clean up, and what its loop has left.
Request ==
    { r \in [user : Users, hash : Hashes, org : Orgs \cup {None},
             at : Uploading \cup Removing \cup Sharing,
             other : Hashes \cup {None}, left : SUBSET (Users \cup Hashes \cup Orgs)] :
        /\ r.at \in Sharing => r.org \in Orgs /\ r.left \subseteq Users
        /\ r.at \in Cleaning => r.left \subseteq Hashes }

ASSUME NoneAssumption == None \notin Request

VARIABLES
    registry,  \* plugin_registry: the hashes that have a worker
    refs,      \* user_plugin_refs
    org_refs,  \* org_plugin_refs
    visible,   \* user_visible_plugins
    members,   \* member_ids of organizations, organization_ids of users
    made,      \* the hashes each user ever uploaded
    req        \* the requests under way

vars == <<registry, refs, org_refs, visible, members, made, req>>
------------------------------------------------------------------------------
Init ==
    /\ registry = {}
    /\ refs = [u \in Users |-> {}]
    /\ org_refs = [o \in Orgs |-> {}]
    /\ visible = [u \in Users |-> {}]
    /\ members = [o \in Orgs |-> {Founder[o]}]
    /\ made = [u \in Users |-> {}]
    /\ req = [s \in Slots |-> None]

OrgsOf(u) == { o \in Orgs : u \in members[o] }

At(s, where) == req[s] # None /\ req[s].at = where

Begin(s, u, h, o, where) ==
    /\ req[s] = None
    /\ req' = [req EXCEPT ![s] = [user |-> u, hash |-> h, org |-> o, at |-> where,
                                  other |-> None, left |-> {}]]

Goto(s, where) == req' = [req EXCEPT ![s].at = where]
End(s) == req' = [req EXCEPT ![s] = None]
------------------------------------------------------------------------------
(* user_plugin_upload, user_jit_plugin_execute *)

\* register_plugin looks for the hash under the read lock; without a worker
\* it builds one and inserts it later.
UploadCheck(s, u, h) ==
    /\ "upload" \in Operations
    /\ Begin(s, u, h, None, IF h \in registry THEN "ref" ELSE "insert")
    /\ UNCHANGED <<registry, refs, org_refs, visible, members, made>>

UploadInsert(s) ==
    /\ At(s, "insert")
    /\ registry' = registry \cup {req[s].hash}
    /\ Goto(s, "ref")
    /\ UNCHANGED <<refs, org_refs, visible, members, made>>

\* Mutant: an upload does not look for other versions of its plugin.
OldVersionsKept(u, h) == {}

\* The user's registered plugins of the same id: h itself, if it is there.
OldVersions(u, h) ==
    { g \in refs[u] \cap registry : PluginId[g] = PluginId[h] }

\* add_user_plugin with user_plugin_refs locked: the new hash takes the place
\* of one old version of the user, and of them all in the user's organizations.
UploadRef(s) ==
    /\ At(s, "ref")
    /\ LET u == req[s].user
           h == req[s].hash
           old == OldVersions(u, h) IN
       \E gone \in IF old = {} THEN {None} ELSE old :
          /\ refs' = [refs EXCEPT ![u] = (@ \ {gone}) \cup {h}]
          /\ org_refs' = [o \in Orgs |->
                IF o \in OrgsOf(u) /\ org_refs[o] \cap old # {}
                THEN (org_refs[o] \ old) \cup {h} ELSE org_refs[o]]
          /\ made' = [made EXCEPT ![u] = @ \cup {h}]
          /\ req' = [req EXCEPT ![s].at = "see", ![s].other = gone]
    /\ UNCHANGED <<registry, visible, members>>

Seen(seen, gone, h) == (seen \ {gone}) \cup {h}

UploadSee(s) ==
    /\ At(s, "see")
    /\ visible' = [visible EXCEPT
          ![req[s].user] = Seen(@, req[s].other, req[s].hash)]
    /\ Goto(s, "used by user")
    /\ UNCHANGED <<registry, refs, org_refs, members, made>>

UsedByUser(h) == \E u \in Users : h \in refs[u]

\* Mutant: is_plugin_in_use asks users only.
UsedByOrgIgnored(h) == FALSE
UsedByOrg(h) == \E o \in Orgs : h \in org_refs[o]

\* add_user_plugin ends by asking whether the NEW hash is in use.
UploadUsedByUser(s) ==
    /\ At(s, "used by user")
    /\ IF UsedByUser(req[s].hash) THEN End(s) ELSE Goto(s, "used by org")
    /\ UNCHANGED <<registry, refs, org_refs, visible, members, made>>

UploadUsedByOrg(s) ==
    /\ At(s, "used by org")
    /\ IF UsedByOrg(req[s].hash) THEN End(s) ELSE Goto(s, "drop new")
    /\ UNCHANGED <<registry, refs, org_refs, visible, members, made>>

UploadDrop(s) ==
    /\ At(s, "drop new")
    /\ registry' = registry \ {req[s].hash}
    /\ End(s)
    /\ UNCHANGED <<refs, org_refs, visible, members, made>>
------------------------------------------------------------------------------
(* user_plugin_remove *)

\* The handler looks the plugin id up among the user's registered plugins.
RemoveLookup(s, u, h) ==
    /\ "remove" \in Operations
    /\ h \in refs[u] \cap registry
    /\ Begin(s, u, h, None, "unref")
    /\ UNCHANGED <<registry, refs, org_refs, visible, members, made>>

\* remove_user_plugin.
RemoveRef(s) ==
    /\ At(s, "unref")
    /\ refs' = [refs EXCEPT ![req[s].user] = @ \ {req[s].hash}]
    /\ Goto(s, "orgs")
    /\ UNCHANGED <<registry, org_refs, visible, members, made>>

\* With organizations and users locked for reading until the loop is over ...
RemoveOrgs(s) ==
    /\ At(s, "orgs")
    /\ req' = [req EXCEPT ![s].at = "shared", ![s].left = OrgsOf(req[s].user)]
    /\ UNCHANGED <<registry, refs, org_refs, visible, members, made>>

\* ... one organization of the user after another is asked whether it shares
\* the plugin; the first that does lets the user go on seeing it.
RemoveShared(s) ==
    /\ At(s, "shared")
    /\ \/ req[s].left = {} /\ Goto(s, "hide")
       \/ \E o \in req[s].left :
             IF req[s].hash \in org_refs[o] THEN Goto(s, "keys")
             ELSE req' = [req EXCEPT ![s].left = @ \ {o}]
    /\ UNCHANGED <<registry, refs, org_refs, visible, members, made>>

RemoveHide(s) ==
    /\ At(s, "hide")
    /\ visible' = [visible EXCEPT ![req[s].user] = @ \ {req[s].hash}]
    /\ Goto(s, "keys")
    /\ UNCHANGED <<registry, refs, org_refs, members, made>>

\* Mutant: only the removed plugin is a candidate.
CandidatesOnly(h) == {h}

\* cleanup_unused_plugins looks at all registered hashes.
Candidates(h) == registry

CleanupKeys(s) ==
    /\ At(s, "keys")
    /\ req' = [req EXCEPT ![s].at = "clean", ![s].left = Candidates(req[s].hash)]
    /\ UNCHANGED <<registry, refs, org_refs, visible, members, made>>

\* For each of them it asks the users, then the organizations, and then
\* removes it, with the locks free in between.
CleanupNext(s) ==
    /\ At(s, "clean")
    /\ \/ req[s].left = {} /\ End(s)
       \/ \E g \in req[s].left :
             req' = [req EXCEPT ![s].left = @ \ {g}, ![s].other = g,
                                ![s].at = IF UsedByUser(g) THEN "clean" ELSE "clean org"]
    /\ UNCHANGED <<registry, refs, org_refs, visible, members, made>>

CleanupOrg(s) ==
    /\ At(s, "clean org")
    /\ Goto(s, IF UsedByOrg(req[s].other) THEN "clean" ELSE "clean drop")
    /\ UNCHANGED <<registry, refs, org_refs, visible, members, made>>

CleanupDrop(s) ==
    /\ At(s, "clean drop")
    /\ registry' = registry \ {req[s].other}
    /\ Goto(s, "clean")
    /\ UNCHANGED <<refs, org_refs, visible, members, made>>
------------------------------------------------------------------------------
(* user_share_plugin_with_organization, org_add_user *)

\* A member, whose role is Contributor or more, shares a plugin of hers.
ShareLookup(s, u, h, o) ==
    /\ "share" \in Operations
    /\ u \in members[o]
    /\ h \in refs[u] \cap registry
    /\ Begin(s, u, h, o, "share")
    /\ UNCHANGED <<registry, refs, org_refs, visible, members, made>>

ShareRef(s) ==
    /\ At(s, "share")
    /\ org_refs' = [org_refs EXCEPT ![req[s].org] = @ \cup {req[s].hash}]
    /\ Goto(s, "members")
    /\ UNCHANGED <<registry, refs, visible, members, made>>

\* Mutant: a shared plugin is shown to everybody.
AudienceAll(o) == Users
Audience(o) == members[o]

ShareMembers(s) ==
    /\ At(s, "members")
    /\ req' = [req EXCEPT ![s].at = "show", ![s].left = Audience(req[s].org)]
    /\ UNCHANGED <<registry, refs, org_refs, visible, members, made>>

ShareShow(s) ==
    /\ At(s, "show")
    /\ \/ req[s].left = {} /\ End(s) /\ UNCHANGED visible
       \/ \E u \in req[s].left :
             /\ visible' = [visible EXCEPT ![u] = @ \cup {req[s].hash}]
             /\ req' = [req EXCEPT ![s].left = @ \ {u}]
    /\ UNCHANGED <<registry, refs, org_refs, members, made>>

\* org_add_user, with organizations and users locked for writing throughout.
AddUser(o, u) ==
    /\ "add user" \in Operations
    /\ \A s \in Slots : ~At(s, "shared")
    /\ u \notin members[o]
    /\ members' = [members EXCEPT ![o] = @ \cup {u}]
    /\ UNCHANGED <<registry, refs, org_refs, visible, made, req>>
------------------------------------------------------------------------------
UploadStep(s) ==
    \/ UploadInsert(s)
    \/ UploadRef(s)
    \/ UploadSee(s)
    \/ UploadUsedByUser(s)
    \/ UploadUsedByOrg(s)
    \/ UploadDrop(s)

RemoveStep(s) ==
    \/ RemoveRef(s)
    \/ RemoveOrgs(s)
    \/ RemoveShared(s)
    \/ RemoveHide(s)
    \/ CleanupKeys(s)
    \/ CleanupNext(s)
    \/ CleanupOrg(s)
    \/ CleanupDrop(s)

ShareStep(s) == ShareRef(s) \/ ShareMembers(s) \/ ShareShow(s)

Next ==
    \/ \E s \in Slots, u \in Users, h \in Hashes :
          \/ UploadCheck(s, u, h)
          \/ RemoveLookup(s, u, h)
          \/ \E o \in Orgs : ShareLookup(s, u, h, o)
    \/ \E s \in Slots : UploadStep(s) \/ RemoveStep(s) \/ ShareStep(s)
    \/ \E o \in Orgs, u \in Users : AddUser(o, u)

Spec == Init /\ [][Next]_vars
------------------------------------------------------------------------------
TypeOK ==
    /\ registry \subseteq Hashes
    /\ refs \in [Users -> SUBSET Hashes]
    /\ org_refs \in [Orgs -> SUBSET Hashes]
    /\ visible \in [Users -> SUBSET Hashes]
    /\ members \in [Orgs -> SUBSET Users]
    /\ made \in [Users -> SUBSET Hashes]
    /\ req \in [Slots -> Request \cup {None}]

Quiet == \A s \in Slots : req[s] = None

\* Tenants are kept apart: a user sees only plugins that she or somebody who
\* is with her in an organization uploaded, whatever is uploaded, replaced,
\* shared and joined at the same time.
VisibleIsEarned ==
    \A u \in Users : \A h \in visible[u] :
        \/ h \in made[u]
        \/ \E v \in Users, o \in Orgs : {u, v} \subseteq members[o] /\ h \in made[v]

\* An upload "adds the plugin to the internal registry for later use"
\* (plugin_routes.rs:77-78): every plugin that a user made or an organization
\* shares has a worker.
RefsHaveWorkers ==
    /\ \A u \in Users : refs[u] \subseteq registry
    /\ \A o \in Orgs : org_refs[o] \subseteq registry

\* A user has one version of each plugin, so that looking it up by its id
\* finds the one that was uploaded last.
OneVersionEach ==
    \A u \in Users : \A g, h \in refs[u] : PluginId[g] = PluginId[h] => g = h

\* "All plugins visible to the user, including their personal plugins"
\* (plugin_routes.rs:49): what a user made and did not remove, she sees.
CreatedAreVisible == Quiet => \A u \in Users : refs[u] \subseteq visible[u]

\* "... and plugins from all organizations they belong to" (:50).
OrgPluginsAreVisible ==
    Quiet => \A o \in Orgs : \A u \in members[o] : org_refs[o] \subseteq visible[u]

\* A step that ends a removal: the registry then holds no worker that nobody
\* refers to, also not the old versions that uploads left there.
CleansUp ==
    \A s \in Slots : At(s, "clean") /\ req'[s] = None =>
        \A h \in registry' : UsedByUser(h) \/ UsedByOrg(h)
==============================================================================
