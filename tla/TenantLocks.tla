----------------------------- MODULE TenantLocks -----------------------------
(****************************************************************************)
(* Who waits for whose locks in a server with tenants.                      *)
(*                                                                          *)
(* TenantState keeps each of its maps behind a tokio RwLock of its own.     *)
(* What a task does from its first lock until it holds none is a section.   *)
(* A request is a few sections one after another; between two of them it    *)
(* holds nothing and waits for nobody, so that a task which begins any      *)
(* section at any time covers all requests.  What the sections do to the    *)
(* maps is the subject of TenantPlugins and Daemons.                        *)
(****************************************************************************)
EXTENDS Integers, Sequences

CONSTANTS
    Tasks,     \* what runs at the same time
    Enabled,   \* the sections that tasks begin
    None       \* no section

Read(l) == [do |-> "read", lock |-> l]
Write(l) == [do |-> "write", lock |-> l]
Free(l) == [do |-> "free", lock |-> l]

\* The section may be over here, with an early answer or because nothing is
\* left to do; its guards are dropped when it is.
Answer == [do |-> "answer"]

\* A lock that is taken in a statement of its own.
Briefly(take) == <<take, Free(take.lock)>>

Locks == {"users", "organizations", "api_key_to_user", "plugin_registry",
          "user_plugin_refs", "org_plugin_refs", "user_visible_plugins",
          "pipeline_registry", "user_pipeline_refs", "org_pipelines",
          "daemon_registry", "user_daemons", "org_daemons"}
------------------------------------------------------------------------------
(* Sections that take one lock while they hold another *)

UserRegister ==
    <<Write("users"), Answer, Read("organizations"), Answer>>
      \o Briefly(Write("user_plugin_refs"))
      \o Briefly(Write("user_visible_plugins"))

\* Mutant: the users are locked before the organizations.
OrgAddUserSwapped == <<Write("users"), Answer, Write("organizations"), Answer>>
OrgAddUser == <<Write("organizations"), Answer, Write("users"), Answer>>

OrgUsersList == <<Read("organizations"), Answer, Read("users")>>
OrgPluginsList ==
    <<Read("organizations"), Answer, Read("org_plugin_refs"), Answer,
      Read("plugin_registry")>>
OrgPipelinesList ==
    <<Read("organizations"), Answer, Read("org_pipelines"), Answer,
      Read("pipeline_registry")>>
OrgDaemonsList ==
    <<Read("organizations"), Answer, Read("org_daemons"), Answer, Read("daemon_registry")>>

\* Adding and removing a key.
ApiKeys == <<Write("users"), Answer, Write("api_key_to_user")>>
AuthenticateWithApiKey == <<Read("users"), Read("api_key_to_user")>>

\* An older version is replaced in the user's organizations, here in one.
AddUserPlugin ==
    <<Write("user_plugin_refs"), Read("plugin_registry"), Answer, Read("users"), Answer>>
      \o Briefly(Write("org_plugin_refs"))

RemoveUserPlugin ==
    <<Read("organizations"), Read("users"), Answer>> \o Briefly(Read("org_plugin_refs"))

\* Also the host's mcp_tools, mcp_tool_request and mcp_meta_tools.
UserVisiblePlugins == <<Read("plugin_registry"), Read("user_visible_plugins")>>
UserCreatedPlugins == <<Read("plugin_registry"), Read("user_plugin_refs")>>
UserPluginHashByName ==
    <<Read("user_visible_plugins"), Answer, Read("plugin_registry")>>

UserPipelinesList == <<Read("user_pipeline_refs"), Answer, Read("pipeline_registry")>>
SharePipeline ==
    <<Read("organizations"), Answer>> \o Briefly(Read("user_pipeline_refs"))
      \o <<Answer, Write("org_pipelines")>>
UserDaemonsList == <<Read("daemon_registry"), Read("user_daemons")>>

\* Sections with one lock: they hold nothing that a queue could wait for, but
\* while a writer stands in a queue the readers after it wait as well.
OrgRegister == <<Write("organizations")>>
UserAddEnvVar == <<Write("users"), Answer>>
RegisterPlugin == <<Write("plugin_registry")>>
SharePlugin == <<Write("org_plugin_refs")>>
ShowPlugin == <<Write("user_visible_plugins")>>
RegisterPipeline == <<Write("pipeline_registry")>>
RegisterDaemon == <<Write("daemon_registry")>>

Sections ==
    [user_register |-> UserRegister, org_add_user |-> OrgAddUser,
     org_users_list |-> OrgUsersList, org_plugins_list |-> OrgPluginsList,
     org_pipelines_list |-> OrgPipelinesList, org_daemons_list |-> OrgDaemonsList,
     api_keys |-> ApiKeys, authenticate_with_api_key |-> AuthenticateWithApiKey,
     add_user_plugin |-> AddUserPlugin, remove_user_plugin |-> RemoveUserPlugin,
     get_user_visible_plugins |-> UserVisiblePlugins,
     get_user_created_plugins |-> UserCreatedPlugins,
     user_plugin_hash_by_name |-> UserPluginHashByName,
     user_pipelines_list |-> UserPipelinesList, share_pipeline |-> SharePipeline,
     get_user_daemons |-> UserDaemonsList, org_register |-> OrgRegister,
     user_add_env_var |-> UserAddEnvVar, register_plugin |-> RegisterPlugin,
     share_plugin |-> SharePlugin, show_plugin |-> ShowPlugin,
     register_pipeline |-> RegisterPipeline, register_daemon |-> RegisterDaemon]

ASSUME LocksAssumption == Enabled \subseteq DOMAIN Sections /\ None \notin DOMAIN Sections
------------------------------------------------------------------------------
VARIABLES
    doing,    \* the section each task is in
    step,     \* the step of it that comes next
    readers,  \* lock -> the tasks that hold it for reading
    writers,  \* lock -> the task that holds it for writing
    queue     \* lock -> the tasks that wait for it, in the order they came

vars == <<doing, step, readers, writers, queue>>

Init ==
    /\ doing = [t \in Tasks |-> None]
    /\ step = [t \in Tasks |-> 1]
    /\ readers = [l \in Locks |-> {}]
    /\ writers = [l \in Locks |-> {}]
    /\ queue = [l \in Locks |-> <<>>]

Over(t) == step[t] > Len(Sections[doing[t]])
Coming(t) == Sections[doing[t]][step[t]]
Comes(t, do) == doing[t] # None /\ ~Over(t) /\ Coming(t).do = do

InQueue(t, l) == \E i \in DOMAIN queue[l] : queue[l][i] = t
Waits(t) == \E l \in Locks : InQueue(t, l)

Begin(t, section) ==
    /\ doing[t] = None
    /\ doing' = [doing EXCEPT ![t] = section]
    /\ step' = [step EXCEPT ![t] = 1]
    /\ UNCHANGED <<readers, writers, queue>>

\* RwLock::read, RwLock::write.
Ask(t) ==
    /\ Comes(t, "read") \/ Comes(t, "write")
    /\ ~Waits(t)
    /\ queue' = [queue EXCEPT ![Coming(t).lock] = Append(@, t)]
    /\ UNCHANGED <<doing, step, readers, writers>>

\* The lock is fair: only the first in the queue gets it.
FirstOf(q) == DOMAIN q \cap {1}

FreeFor(do, l) == writers[l] = {} /\ (do = "write" => readers[l] = {})

Grant(l) ==
    \E i \in FirstOf(queue[l]) :
       LET t == queue[l][i] IN
       /\ FreeFor(Coming(t).do, l)
       /\ queue' = [queue EXCEPT ![l] = SubSeq(@, 1, i - 1) \o SubSeq(@, i + 1, Len(@))]
       /\ IF Coming(t).do = "read"
          THEN readers' = [readers EXCEPT ![l] = @ \cup {t}] /\ UNCHANGED writers
          ELSE writers' = [writers EXCEPT ![l] = {t}] /\ UNCHANGED readers
       /\ step' = [step EXCEPT ![t] = @ + 1]
       /\ UNCHANGED doing

Release(t) ==
    /\ Comes(t, "free")
    /\ readers' = [readers EXCEPT ![Coming(t).lock] = @ \ {t}]
    /\ writers' = [writers EXCEPT ![Coming(t).lock] = @ \ {t}]
    /\ step' = [step EXCEPT ![t] = @ + 1]
    /\ UNCHANGED <<doing, queue>>

\* The section ends and drops all guards that are left.
End(t) ==
    /\ readers' = [l \in Locks |-> readers[l] \ {t}]
    /\ writers' = [l \in Locks |-> writers[l] \ {t}]
    /\ doing' = [doing EXCEPT ![t] = None]
    /\ step' = [step EXCEPT ![t] = 1]
    /\ UNCHANGED queue

AnswerEarly(t) == Comes(t, "answer") /\ End(t)

GoOn(t) ==
    /\ Comes(t, "answer")
    /\ step' = [step EXCEPT ![t] = @ + 1]
    /\ UNCHANGED <<doing, readers, writers, queue>>

Finish(t) == doing[t] # None /\ Over(t) /\ End(t)

Go(t) == Ask(t) \/ Release(t) \/ AnswerEarly(t) \/ GoOn(t) \/ Finish(t)

Next ==
    \/ \E t \in Tasks : Go(t)
    \/ \E t \in Tasks, section \in Enabled : Begin(t, section)
    \/ \E l \in Locks : Grant(l)

\* Tasks that can go on do so, and free locks are handed on; whether another
\* request comes is up to the clients.
Fairness ==
    /\ \A t \in Tasks : WF_vars(Go(t))
    /\ \A l \in Locks : WF_vars(Grant(l))

Spec == Init /\ [][Next]_vars
FairSpec == Spec /\ Fairness
------------------------------------------------------------------------------
TypeOK ==
    /\ doing \in [Tasks -> Enabled \cup {None}]
    /\ \A t \in Tasks :
          step[t] \in IF doing[t] = None THEN {1} ELSE 1 .. Len(Sections[doing[t]]) + 1
    /\ \A l \in Locks :
          /\ readers[l] \subseteq Tasks
          /\ writers[l] \subseteq Tasks
          /\ \A i \in DOMAIN queue[l] : queue[l][i] \in Tasks

\* t stands in a queue behind u, or for a lock that u holds.
WaitsFor(t, u) ==
    \E l \in Locks :
       \E i \in DOMAIN queue[l] :
          /\ queue[l][i] = t
          /\ \/ \E j \in 1 .. i - 1 : queue[l][j] = u
             \/ u \in writers[l]
             \/ u \in readers[l] /\ Coming(t).do = "write"

\* No tasks wait for each other in a circle: there is no set of them each of
\* which waits for another one of the set.
NoCircularWait ==
    \A S \in SUBSET {t \in Tasks : Waits(t)} :
       S # {} => \E t \in S : \A u \in S : ~WaitsFor(t, u)

Ends(section) == \A t \in Tasks : doing[t] = section ~> doing[t] = None

\* Every section that begins ends, whoever else comes in the meantime.
SectionsEnd == \A section \in Enabled : Ends(section)

\* "Register a new user in the system" (tenant/user/member_routes.rs:43):
\* the request is answered.
RegistrationEnds == Ends("user_register")

\* "JSON string output from the plugin" (host/host_impl.rs:194): a plugin that
\* calls another one by its name gets an answer.
CallEnds == Ends("user_plugin_hash_by_name")

\* "Returns metadata about all plugins that have been registered with the
\* server by this user" (tenant/user/plugin_routes.rs:26): it does return.
CreatedListEnds == Ends("get_user_created_plugins")
==============================================================================
