# Verification of the Concordance capability server

TLA+ models of the server in `src/crates/plugin-host` (Rust, axum and tokio,
wasmtime for plugins) and of those plugins that have a logic of their own, TLC runs over small instances of them, and proofs that
TLAPS checks for every instance. File names below are relative to
`src/crates/plugin-host/src/` unless they begin with `src/`. `PROJECT.json`
maps each definition to the lines it stands for, and lists the runs, the
hazards, the theorems and, for each property of a passing run, a mutated
definition under which the run finds the property violated.

## 1. The system

The server keeps everything in one `AppState` and, when it is started with
authentication, in the `TenantState` inside it. Handlers and background tasks
are tokio tasks that share these maps, each map behind a `tokio::sync::RwLock`
of its own. That is where the hard behaviours come from: what a handler reads
under one lock may have changed when it takes the next one; nested locks may
be taken in different orders; a task may hold a lock across an await that runs
a plugin; tasks panic or are aborted; the process stops at any point.

| Component | State | Operations | Interacts with | What makes it correct |
|---|---|---|---|---|
| Application daemons (`daemon.rs`, `routes/daemon_routes.rs`) | `AppState.daemons`: config, status, next run, error count, task handle | register, start, stop, statuses; the task's look-up, tick, poll, run | runs plugins and pipelines under the write lock of the registry | one run at a time; no run of a paused daemon; no run cut off; status tells errors; a polled daemon runs again and again |
| Tenant daemons (`tenant/user/daemon_routes.rs`) | `TenantState.daemon_registry`, `user_daemons`, `org_daemons` | register, start, stop, share | the same tasks, which poll the *application* registry; persistence | the same; an active daemon is polled (it is not) |
| Pipelines (`pipeline.rs`, `routes/pipeline_routes.rs`) | `PipelineAccumulator` of a run | run a forest of stages depth first, select inputs by JSONPath | plugins; jobs for progress | a stage sees exactly the earlier stages; outputs stand at their path; nothing runs after a failure |
| Jobs (`routes/pipeline_routes.rs`, `routes/mod.rs`, sweeper in `server.rs`) | `AppState.jobs` | submit, progress, status text, store the result, poll, sweep | the task of a pipeline, its plugin, polls, the sweeper | answers never go backwards, final answers are final; ended jobs go, unfinished ones stay |
| Plugin workers (`plugin.rs`, `routes/plugin_routes.rs`) | registry id -> worker | upload, list, execute, execute just in time | wasmtime; pipelines, daemons, calls by plugins | a worker that was looked up works although the registry changes |
| Tenant plugins (`tenant/mod.rs`, `tenant/user/plugin_routes.rs`) | `plugin_registry` by hash; `user_plugin_refs`, `org_plugin_refs`, `user_visible_plugins` | upload, share, remove with cleanup, lists, execute | membership; host functions look plugins up by name | nobody sees a stranger's plugin; references have workers; one version each; no worker left behind |
| Locks of `TenantState` | 13 read-write locks | every tenant handler, authentication, host functions | everything | no circle of waiting tasks; every request ends |
| Membership and roles (`tenant/org/member_routes.rs`, `tenant/user/member_routes.rs`) | `users`, `organizations`, roles | register user, register organization, add user, info, lists | names are shared by users and organizations; visibility of plugins | names unique; both sides of a membership agree; no role above its giver's |
| Tenant pipelines (`tenant/user/pipeline_routes.rs`) | `pipeline_registry`, `user_pipeline_refs`, `org_pipelines` | register, list, execute, share | `run_pipeline` over the registry by hash | one may run what one registered |
| Authentication and API keys (`tenant/auth/*`, `tenant/user/login.rs`) | `api_keys` of users, `api_key_to_user` | create, list, remove, authenticate, log in | every tenant request | both tables agree; a removed key opens nothing |
| Environment variables (`host/host_impl.rs`, `tenant/org/resource_routes.rs`) | variables of users and, with a least role, of organizations | set, read with precedence | plugins read them | precedence; roles |
| Persistence (`persistence.rs`) | the state file and `state.tmp` | save after each request, load at start | copies every tenant map | what is loaded was saved; a stop at any point loses only the last requests |
| Host functions (`host/*.rs`) | resources of one plugin call | sandbox paths, calls of plugins, tools, server-sent events | registry, jobs, environment | stay in the sandbox; a call finds what the user sees |
| Language model client (`host/providers/llm.rs`) | a chat session: messages, tools, title | chat, stream, merge chunks, fork, title, rewrite schemas | remote service, the browser that is forwarded each chunk | plugin and browser have the same answer; the browser is told once that it ended |
| Document conversion (`host/providers/convert.rs`) | files in a cache directory | convert | an external command | the cache holds whole documents |
| Vector database (`host/providers/vectordb.rs`) with `doc-vector-store` | tables of an external database | make a table after the rows of a request, read its schema, add rows, delete | embedding service; other plugins between two calls | a row stands under its own column, with its embedding; a table takes the rows it was made for |
| HTTP (`host/providers/http.rs`) | none | one request per call | external services | |
| Command line (`src/crates/capability-server`) | none | parse arguments, start the server | | |
| Chat plugin (`src/plugins/apps/ea-test`) | threads, a list of threads and memories on disk | one request: load or begin a thread, ask, call tools, fix calls, trim, save | a chat session; other plugins as tools; other requests on the same files | every call that is sent is answered in place; saving loses nothing but the oldest; the list tells the threads |
| Notebook plugin (`src/plugins/apps/nb-one`) | a graph and threads on disk, rows in the vector store | walk, extend, undo, save | a chat session, the vector store; other requests on the same files | nothing made is out of reach; rows tell the nodes; what is undone leaves no trace |
| Markdown chunker, JSON manipulator (`src/plugins/std/data`) | none | one `work` per call | | chunks are the document; no item is lost or moved |
| Other plugins (`src/plugins/**`) | none | one `work` per call | host functions | |

`PROJECT.json` lists the plugins one by one, and the hazards of all this, each
at its line, with the properties that cover it or why none does.

## 2. The modules

| Module | Models | Used by |
|---|---|---|
| `Daemons` | both daemon registries, the interval tasks, handlers, state file and restart | `MCDaemons`, `DaemonsProofs` |
| `DaemonSchedule` | the two clocks of one daemon: ticks and `next_run` | `MCParts`, `TenantResourcesProofs` |
| `PipelineRun` | one `run_pipeline`: the forest, the accumulator, selectors, errors and panics | `MCParts`, `TenantResourcesProofs` |
| `PipelineJobs` | background executions, the plugin's status text, the sweeper, restarts | itself (two configurations), `PipelineJobsProofs` |
| `JobContract` | abstract: what a client that polls `/jobs/{id}` may rely on | `PipelineJobs` (`Contract == INSTANCE JobContract WITH ...`) |
| `TenantPlugins` | the tenants' plugins, section by section | `MCTenantPlugins` (two configurations), `TenantPluginsProofs` |
| `TenantResources` | the tenants' pipelines and daemons: references, sharing, saves and restarts | `MCTenantResources`, `TenantResourcesProofs` |
| `TenantLocks` | who waits for whose locks in all tenant handlers | `MCTenantLocks` (three configurations), `TenantLocksProofs` |
| `Accounts` | registration, membership, roles, API keys, who sets shared variables | `MCAccounts` (two configurations), `AccountsProofs` |
| `EnvVars` | which source answers a plugin that looks up a variable | `MCParts`, `TenantPluginsProofs` |
| `Persistence` | requests, the saves they spawn, `state.tmp`, stops and starts | `MCPersistence` (three configurations), `PersistenceProofs` |
| `StateFile` | abstract: what an operator may rely on when the server stops | `Persistence` (`Promise == INSTANCE StateFile WITH ...`) |
| `ChatSession` | operators: a session of the language model client and its operations | `ChatThreads` |
| `ChatThreads` | the chat plugin: threads, the loop of calls and answers, forks, trimming, saving | `MCChatThreads` (three configurations), `PluginsProofs` |
| `Selections` | operators: what a filter keeps of a sequence, by the places it keeps | `NotebookGraph`, `VectorTables`, `ChatThreads` |
| `MessageStream` | chunks of a streamed answer, merged for the plugin and forwarded to the browser | `MCParts` |
| `NotebookGraph` | the notebook plugin: walks, additions, undoing, rows, files | `MCNotebookGraph` (two configurations), `PluginsProofs` |
| `VectorTables` | one table of the vector database and the plugins that make and fill it | `MCParts`, `PluginsProofs` |
| `MdChunker` | sections, cuts and joins of a markdown document | `MCParts` |
| `JsonManipulator` | the operations of the JSON manipulator on small data | `MCParts` |

`MCParts` puts the parts that share nothing side by side: a behaviour is one of
one part, and the others stay in an initial state. Their properties are
therefore checked over exactly the states each would have by itself. The proof modules
are eight for the same reason: the proofs about two parts that share nothing
stand one after the other in one file.

### Daemons

`daemons[<<registry, id>>]` is an entry of `AppState.daemons` or of
`TenantState.daemon_registry`; `phase[t]` is where a spawned task is; `lock` is
the task that holds the application registry for writing, which it keeps for as
long as a run takes (`daemon.rs:365`). Registering is two actions because the
task is spawned before the entry is inserted; in between, waiting for the lock,
the client may go away, and the task stays with no entry that names it
(`RegisterDropped`). A handler that does not await between lock and unlock is
one action. `RunReturns` covers success, failure and the early return for a
missing pipeline; `RunUnwinds` a panic, which a plugin's run has as well as a
pipeline's: both cut the text of the input inside a character (`plugin.rs:70`).
`Save` and `Restart` are `persistence.rs` as far as daemons go. Time is a
countdown in `next_run`. Not modelled: who may start or stop whose tenant
daemon, and sharing, which are `TenantResources`' subject.

`DaemonSchedule` refines *when* a task ticks, which `Daemons` leaves open: the
interval ticks by the start of the task, `next_run` by the end of the last run.
A run whose pipeline is missing returns before it sets `next_run` (`RunMissed`),
so that the next tick tries again; `since_called` is a history variable, the time
since the last run that called what it is for.

### PipelineRun, PipelineJobs, JobContract

A stage is its path of indices; an output is named by the stage that made it,
so that the accumulator is a function from positions to stages, and a JSONPath
is the set of positions it matches. `PushedAt` is what `get_path_mut` and the
push on its children do. `PipelineJobs` takes the inside of a stage as one
step and models the task, the plugin's `update_status`, the sweeper and the
restart around `AppState.jobs`. Ids are fresh uuids, so the vector of jobs is a
function. Both builds of the underflow at `pipeline.rs:38` are modelled.

`JobContract` says what a poll may answer over time, in the terms of the JSON
that a client gets (`routes/mod.rs:75`): a null is a job that works or one that
ended with null, a value is a result or the text of an error. Only below its last
stage does a null promise that the job is still there. `ClientView` maps a job to
such an answer; the restart counter is the server's life.

### TenantPlugins

In `TenantPlugins`, a request is a record in a slot that says where it is; each
action is what the code does under one set of locks, with other requests in
between. `members` stands for `member_ids` of organizations and
`organization_ids` of users, which `org_add_user` changes together under both
locks. `made` is a history variable: what a user ever uploaded. Two hashes with
the same `PluginId` are versions of one plugin. `RemoveShared` is a loop under
two read locks, during which `AddUser` cannot come (`org_add_user` needs them
for writing).

### TenantResources

Pipelines and daemons of tenants have the same three maps each, `registry`,
`refs` and `shared`, so that one module stands for both; `k` is the kind. What
a request does under one lock is one action, and `Drop` a client that goes away
between two. A pipeline is shared under the organizations' read lock from the
first check to the end, a daemon under three locks one after another, which
`OrganizationsFree` tells apart. A save copies the maps in the order of
`PersistentState::from` (`CopyOrder`), one at a time, while requests go on, and
a restart takes the last copy that ended. What is under a name is only who
registered it. Registering an organization checks its name under read locks and
inserts it in a later section (`OrgInsert`), which replaces one that was registered
meanwhile, with its roles; `overwritten` is a history variable that tells these.

### Tenant locks

`TenantLocks` has the locks alone. Each handler is cut into sections, from the
first lock to the moment it holds none; a task that holds nothing is in no
circle, so a task that may begin any section at any time stands for every
request. A section is a sequence of locks taken, locks freed at the end of a
statement, and places where the handler may answer early. The lock itself is
external: tokio documents its `RwLock` as fair, first come first served, so a
queued writer also stops the readers behind it.

### Accounts

A request is authenticated, with a token or a key, and then handled. The four
sections of `org_register` and the two of `org_add_env_var` are actions;
`user_register`, `org_add_user` and the handlers of keys hold all their locks
at once and are one action each. Users and organizations share one space of
names, as their directories do (`tenant/user/fs.rs:18`). `Drop` is a client
that goes away between two sections; in the handlers of keys it comes between
the two tables, so that both outcomes are allowed there. `dropped` and
`keyLife` are history variables. `Registrars` are the slots that may register:
with one of them, and any other requests beside it, everything below holds; a
second one breaks most of it, also that whoever sets a shared variable still
manages (`SettersManage`). Not modelled: passwords, signatures, when a key
or token expires (which nothing reads), who has how much quota (which nothing
counts); the reading of variables is `EnvVars`' subject.

### Persistence, StateFile

A map of `TenantState` is a set of facts, and a request adds or removes one
fact, in the maps its handler changes and in that order (`Sections`). A slot
holds a request and then the save it spawned, which copies the twelve maps one
by one. A file is a file whatever its name: `state.json` and `state.tmp` are
`path` and `temp`, a writer keeps the file it opened, and a rename moves only
the name. A block stands for what one `write` brings to the disk, and a longer
copy has more of them, so that two copies of different length in one file are
told apart. `Parses` says when a file is all that one copy wrote; what the
server would load is `Loaded`. `failed` remembers that the last save to end did
not succeed. Not modelled: what is visible, which `load_state` computes anew;
the encoding of workers; a loss of power, for which the code does nothing
(there is no `fsync`); and a client that goes away, which drops the future of
its handler.

`StateFile` has a state and a file that changes only to that state. `Loaded`
and `restarts` map `Persistence` to it.

### EnvVars

One user, one plugin, one name. `run` holds what a request carries since it was
authenticated: the user's own variables and the list of her organizations.
`Sources` is the order in which `env_var` asks, and each question is an action,
because each organization is read under a lock of its own while variables and
roles change. `constant` is a history variable: the sources that offered the
name all the time.

### ChatSession, ChatThreads

A session is a record, its operations are operators. A message is its role,
its length in tokens and the ids of its calls; two texts are told apart only
where one could take the place of the other. What the service answers is chosen
from `Replies`, among them one that ends in tool calls and has none, and by a
stream or, after a stream that failed, by the fallback. A stream may also come to
its end without a choice, or with calls but no `finish_reason`, or the other way
round, when chunks do not parse: `[DONE]` is then told by what was read
(`host/providers/llm.rs:485`), and without a choice the answer is asked for again
(`:543`). `odd` remembers that this happened in a request. A request of the plugin
is a record in a slot: loading, asking, receiving, calling each tool, fixing a
call on a fork, answering, saving. `fs::write` is two actions, since it empties
the file first. `Fail` is an error, a trap or a stop of the server at any of
these points, which leave the same behind. `kept` and `broken` are history
variables: what was last saved whole, and whether a request ended between two
writes. A trim parts the system messages from the others with the filters of
`Selections`. No context is the text of the plugin's own prompt, and the calls
of a reply are a sequence of calls (`ThreadsAssumption`). Not modelled: the
wording of prompts, and what the tools do.

### MessageStream

The service sends chunks with any fragments that begin a call once and in
order of its index; content, names and arguments are sequences of pieces, each
the number of its chunk. `UpdateFinalResponse` merges for the plugin;
`Forwarded` is what the browser got. A chunk that does not parse is skipped by
both.

### NotebookGraph

`daggy::Dag` is external and modelled with its indices: a removal moves the
last node or edge into the gap. A request works on a copy of the graph, its
rows in the vector store change at once, and its thread and graph are written
when it ends. Undoing a path is one action per edge, as it is a loop of removals
whose indices move (`Undo`). `Search` may find any rows; the walks between
nodes are a function of their length, and the edges, rows and walks that a
filter keeps are those of `Selections`. `FailVisit` is `Fail` of `ChatThreads`.

### VectorTables, MdChunker, JsonManipulator

`VectorTables` has the calls of a request to the database as actions, with
other requests between them: look up, make, read the schema, embed, write. A
value is a text, a number, a flag or null. `MdChunker` and `JsonManipulator` are functions over
small inputs, checked against what must remain: the chunks put together are the
document, the items before and after an operation are the same. Numbers are
integers: a threshold of "NaN", by which neither `==` nor `!=` takes anything
(`json-manipulator/src/lib.rs:635`), is left out.

## 3. What the runs check

Each run answers one question. Those marked *violation* check one sentence of
the code's own documentation against what the code does, and TLC finds the
disagreement; `PROJECT.json` quotes the sentence under `findings`.

| Run | Instance | What it shows |
|---|---|---|
| `daemons` | two ids, two tasks, two registrations, daemons of both kinds, disabled ones and ones of period 0, both kinds of server, the state file and a restart; fair | at most one run at a time; none aborted half way; the status tells the error count; only a registration, that replaces an entry or whose client goes away, detaches a task; a polled daemon runs again and again |
| `jobs` | two jobs of no or two stages, a restart; fair | what a client can tell from its polls is what `JobContract` promises; a job whose task does not panic ends, and an ended job goes |
| `plugins` | one request at a time with two users, one organization, three hashes of two plugins; two at a time with three users and one plugin | one at a time, references have workers, users have one version of a plugin and a removal leaves no worker that nobody refers to; in both, nobody sees a stranger's plugin, whatever comes between the sections of a request |
| `resources` | two users, both alike, one organization, one name of either kind, two requests at a time and four in all, a save under way meanwhile, a restart | what is listed is registered, who lists an organization has a role there, both also after a restart from a copy made while requests went on; what is shared was shared by somebody who may; the last two of organizations that no second registration replaced |
| `accounts` | four names, one key, two requests of which one registers, clients that go away | both sides of a membership agree; a removed key opens nothing |
| `locks` | three tasks, all sections but four | no circle of waiting tasks |
| `state_file` | a key, a plugin and an organization that come and go, one request at a time, a stop and a start at any point, writes that fail | when nothing is under way the file holds what is in memory, unless the last save failed; `StateFile` is implemented: what a start loads is a state that was, and the file changes only to what is in memory |
| `chat` | two threads, two requests one after the other, replies with no, one and two calls, streams that are whole and that are not, a limit of nine tokens, two contexts, requests that end anywhere | every call that is sent is answered in its place, whatever was trimmed, fixed and loaded again; the context sent is the current one; `[DONE]` comes once and last where the streams came whole; saving adds the whole turn and drops only the oldest; the list tells the threads |
| `notebook` | two threads, three requests one after the other, three calls, four nodes, paths of two nodes, requests that end anywhere | nothing made is out of reach; the rows tell the saved nodes; an undone path leaves no trace in the graph; saved nodes and edges keep their index; a thread stands at a node that is there |
| `parts` | for each part all its small inputs: pipelines of up to four stages; a daemon of period 6; streams of five chunks with two choices and two calls; three requests of two plugins to one table; documents of four nodes; two operations on small data; two organizations, two changes | a stage sees exactly the earlier stages and the last top-level one wins; runs that call what they are for are a period apart and a daemon is idle for at most two periods and a wait; plugin and browser make the same of a stream; rows stand under their columns with their embedding, and a table takes the texts and numbers it was made for; chunks are the document; no item is lost or moved; a variable comes from the first source that offers it all the time |
| `state_file_at_once` | a key, two requests | *violation* of "Then atomically rename it to the final path" (`persistence.rs:184`): one save renames `state.tmp` while another writes it |
| `locks_register` | two tasks in `user_register` and `org_add_user` | *violation* of "Register a new user in the system" (`tenant/user/member_routes.rs:43`): the two take the same locks in opposite orders and wait for ever |

The theorems of section 4 state some more invariants of these modules
(`RunsOnlyUnpaused`, `StoreFindsJob`, `EndedJobsSwept`,
`RolesAreGiven`, `RefsHaveWorkers`, `CleansUp`, the `TypeOK`s), which need no run of their own. `PausedUntilAsked` holds in the
instance of `daemons` when it is put into the configuration.

### Further configurations

These are not among the runs above, which are kept few. Each checks one more
property, `tlc -config <file>.cfg <module>`. The first two hold; TLC finds
each of the others violated.

| Configuration | Property | What TLC finds |
|---|---|---|
| `MCTenantLocksEnd.cfg` | `SectionsEnd`: under fairness every section that began ends | holds for four sections that share four locks |
| `MCPersistenceAdded.cfg` | `LoadedRefsExist` with two requests that only add | holds: references are copied before the registries and made after them |
| `PipelineJobsResult.cfg` | `ClientGetsResult`: "get the result when ready" (`routes/pipeline_routes.rs:199`) | a panic leaves its job pending for good |
| `MCAccountsAtOnce.cfg` | `NamesUnique` with two registrations at a time | the checks and the insertion of `org_register` are under locks of their own (`tenant/org/member_routes.rs:30`, `:43`, `:77`), and a user takes the name in between; the other properties of `Accounts`, but for `TypeOK` and `RemovedKeysOpenNothing`, fail likewise when a second registration replaces an organization |
| `MCTenantPluginsRemoved.cfg` | `RefsHaveWorkers` with two requests at a time: "adds the plugin to the internal registry for later use" (`tenant/user/plugin_routes.rs:77`) | a cleanup (`tenant/mod.rs:427`) comes between the halves of an upload, and drops the worker that its user then refers to |
| `MCTenantPluginsVersions.cfg` | `OneVersionEach` with requests about two versions at a time | the upload of one drops its worker, which nobody uses at that moment, while it is uploaded again; the version without a worker is not found among the old ones (`tenant/mod.rs:159`) and stays. `CreatedAreVisible`, put in its place, fails as well: two uploads replace each other's version in one order and show it in the other (`:188`) |
| `MCChatThreadsFork.cfg` | `ForksAreAnswered` | the fork that fixes a call is cut at an index (`chat_session.rs:872`) that a trim in the same request has shifted |
| `MCChatThreadsAtOnce.cfg` | `SavingKeepsHistory` with two requests at a time | both load the thread, and the later save drops the other turn |
| `MCNotebookGraphAtOnce.cfg` | `RowsTellNodes` with two requests at a time | each saves its own copy of the graph, and rows of the one name nodes of the other |

Others need no file of their own: the property replaces those of the
configuration that is named (under `INVARIANTS`, or under `PROPERTIES` if it is
an action or temporal formula), and TLC finds it violated.

| In | Property | What TLC finds |
|---|---|---|
| `MCDaemons.cfg` | `TenantActiveIsPolled`: "Daemon is running normally" (`daemon.rs:86`) | the tasks of tenant daemons look only in the application registry (`daemon.rs:344`), find nothing and end |
| `MCDaemons.cfg` | `AppActiveIsPolled`: the same sentence | the task is spawned before the entry is inserted; when it looks first it ends (`daemon.rs:342`), and the daemon stays Active |
| `MCDaemons.cfg` | `RunsAreCounted`: "Count of consecutive execution errors" (`daemon.rs:60`) | a run that finds no such pipeline returns before counting (`daemon.rs:224`) |
| `MCParts.cfg` with `MaxRun = 1`, `MaxWait = 0`: each run takes a sixth of a period, and the lock is free | `KeepsFrequency`: "How often the daemon should run" (`daemon.rs:35`) | the next run is counted from the end of the last one (`daemon.rs:290`), so that the next tick comes just before it: every second tick is lost |
| `PipelineJobs.cfg` | `StageIsCurrent`: "Current stage index" (`routes/pipeline_routes.rs:45`) | the progress is reported when a stage has ended (`pipeline.rs:63`) |
| `PipelineJobs.cfg` | `EndedJobsShow` | a stored result that is null looks like a pending job (`routes/mod.rs:77`) |
| `MCTenantLocksEnd.cfg` with three tasks doing `get_user_created_plugins`, `register_plugin` and `add_user_plugin`, without a check for deadlock | `CreatedListEnds` | the one takes the registry before the references of users (`tenant/mod.rs:285`), the other the other way round (`:151`, `:157`), and a writer that waits for the registry closes the circle |
| `MCTenantLocksEnd.cfg` with four tasks doing `get_user_visible_plugins`, `user_plugin_hash_by_name`, `register_plugin` and `show_plugin`, without a check for deadlock | `CallEnds` | the one takes what is visible before the registry (`host/host_impl.rs:134`), the listing of visible plugins the other way round, and writers wait for both |
| `MCTenantPlugins.cfg` | `CreatedAreVisible` | with two requests, replacing and showing are two sections (`tenant/mod.rs:188`), and two uploads may show in the other order |
| `MCTenantPlugins.cfg` | `OrgPluginsAreVisible`: "... and plugins from all organizations they belong to" (`tenant/user/plugin_routes.rs:50`) | `org_add_user` does not call `update_user_plugin_visibility` (`tenant/mod.rs:315`), which nothing calls |
| `MCPersistence.cfg` with two slots | `SavedWhenQuiet`: "Save state after processing the request" (`persistence.rs:223`) | each request spawns a save of its own (`persistence.rs:197`), and the older copy may be the last to be renamed |
| `MCAccountsAtOnce.cfg` | `SettersManage` | the role is read under one lock and the variable written under another (`tenant/org/resource_routes.rs:35`, `:51`), and a second registration replaces the organization in between |
| `MCTenantResources.cfg` | `EveryListedIsMember` | the check of a name and the insertion are two sections (`tenant/org/member_routes.rs:30`, `:77`): the second of two registrations replaces the organization and its roles, and the first owner still lists it |
| `MCTenantResources.cfg` | `SharesResolve` | a copy has the registry before what is shared, so that after a restart an organization shows what is not registered (`tenant/org/resource_routes.rs:277`) |
| `MCTenantResources.cfg` | `NameIsContent`: "Central registry of all pipelines (hash -> pipeline)" (`tenant/mod.rs:37`) | the key is the name, and a second user who registers it replaces the first one's pipeline |
| `MCChatThreads.cfg` | `EveryStreamEndsOnce` | a stream without a choice is told `[DONE]` of and then asked for again (`host/providers/llm.rs:493`, `:543`); one that lost its `finish_reason` is told `[DONE]` of and followed by the calls it has; one that lost its calls ends without |
| `MCChatThreads.cfg` | `AnswersHaveCalls` | a trim takes the newest messages by their size (`message_utils.rs:62`) and may keep an answer whose call it drops |
| `MCChatThreads.cfg` | `TitlesStay`: "Get updated title if available" (`thread_storage.rs:19`) | a request that makes no title saves the thread without the one it had |
| `MCNotebookGraph.cfg` | `TakenAsListed` | `choose_path` indexes the options of the beginning of the request (`message_utils.rs:294`), also after other lists were shown |
| `MCParts.cfg` | `MadeTablesTakeAllRows` | a column of flags becomes a type for which the host has no array (`host/providers/vectordb.rs`), so a table does not take the rows it was made for |
| `MCParts.cfg` | `SmallChunksAreJoined`: "all chunks meet the minimum size requirement when possible" (`md-chunker/src/lib.rs:301`) | a small chunk that took the one before it is never joined with the one before that |

The order that keeps the sections of `locks` free of circles: organizations,
then users, then the references of organizations, of pipelines and of daemons;
the references of users, then the registry, then users; the registry, then what
is visible; users, then API keys. `user_register` (users before
organizations), `org_plugins_list` (references of organizations before the
registry), `get_user_created_plugins` (registry before the references of
users) and `user_plugin_hash_by_name` (visible before the registry) break it.

### Bounds

`Daemons`: two ids are needed for one daemon to wait for another; two
registrations make the two tasks that a replaced entry leaves behind, or one
for each id, and every start after a stop uses a freed name again; three errors
are the threshold, so `ErrorCap = 3`. `DaemonSchedule`: a run of 8 outlasts a
period of 6, so that ticks pile up; the state is finite because the overdue
ticks are worked off. `PipelineRun`: three levels and three siblings are what
order and paths can get wrong, and four stages make every such shape.
`PipelineJobs`: two jobs do not touch each other except through the sweeper; no
stage is the panic, two stages a progress between; a retention and a period of
two units tell early, in time and late apart. `TenantPlugins`: two users and
one organization are a member and someone who joins, a third user a stranger;
two versions and one other plugin tell replacing from adding, one request after
another; a race needs two requests, for which one plugin is enough. What two requests with more plugins may
show to strangers is proved for any number of them. `TenantLocks`: a circle of
two needs two tasks and, when both read, a queued writer for each lock: three
tasks show it, as the mutant of `NoCircularWait` does. `Accounts`: four names,
all alike and so symmetric, are an organization with an owner, an admin and
somebody whom the admin adds, or two users and two organizations; two requests
are a registration and anything beside it. `Persistence`: the three
kinds of facts are a change of two maps at once, one of two maps one after the
other and one in either order; a save needs one file beside the state file, and
two at a time one more; one restart shows what a second start would find. The
theorem covers any facts, maps and number of restarts. `TenantResources`: two
users are the one who shares and another who registers the same name; two
requests, a save and a restart make every overlap of two sections and a copy;
four requests are to register an organization, to register, to share and to
use. The theorems cover any number of all these. `ChatThreads`: nine tokens are
room for a context, a question, a call with a short answer, and no long one, so
that a trim comes both inside a turn and between two; two requests are a
thread that is begun and loaded again, two replies with calls are an answer
after an answer, a second thread makes the list longer than one; two ids of
calls, used again in every reply, tell an answer in its place from another.
`NotebookGraph`: a path of two nodes is undone in two steps, of which the first
moves what the second removes; three calls are a path, another after it was
undone, and a jump; three requests a lost one between two others. `MCParts`:
two indices of choices and of calls can come in either order, and five chunks
are both choices begun and three fragments; three requests to a table are one
that makes it and two at a time that fill it; four nodes are two joins in
either direction; three items with keys of three types and two operations show
an order that the first leaves to the second; two organizations and two
changes show a source that comes or goes behind the look-up or before it.

Deadlock is not checked where a behaviour is used up: requests, replies and
changes are bounded by constants (`Max...`), a daemon's server may be idle, and
a run, a stream or a document ends.

### Fairness

Actions of a task that can go on are weakly fair: the tokio runtime polls every
ready task. Taking a lock is strongly fair in `Daemons`, since the `RwLock` is
a queue; in `TenantLocks` the queue itself is modelled and weak fairness of its
head is enough. Time passes. Plugins return: a plugin that never returned would
hold the daemon registry for ever, and nothing in the code limits it. No
request is ever obliged to come. All other modules have safety properties only
and assume no fairness: how long a language model or a database takes is
nobody's promise.

## 4. What is proved

| Theorem | Says, for all values of the constants | Invariant |
|---|---|---|
| `DaemonsProofs!TypeCorrect`, `MutualExclusion`, `NoRunOfPaused`, `NoRunAborted` | types; one run at a time; no run of a paused daemon; a run ends by itself or with the server | `IInv`: `TypeOK`, and: a task runs exactly if it holds the lock; a live task has an id; what runs is there and not paused; a server for tenants has no application daemons, and runs none |
| `DaemonsProofs!StatusIsTold`, `NoTaskForgotten` | status and count of errors agree; a live task loses its owner only to a registration, that replaces its entry or whose client is gone | every entry, also one that waits in a registration or in the state file, tells its count; and `HandlesPoll`: the task whose handle an entry or a registration holds polls the id of that entry for as long as it lives |
| `PipelineJobsProofs!TypeCorrect`, `ResultsAreStored`, `EndedJobsGo`, `ImplementsContract` | types; a working task finds its job; ended jobs are swept in time; every step is, to a client that sees the JSON alone, a step of `JobContract` or stutters | `JobInv`: a working task's job is there, unfinished, and one stage behind; a job that ended with a null has reported its last stage; an ended job is no older than its retention and the time since the sweeper woke |
| `TenantPluginsProofs!TypeCorrect`, `TenantsAreApart` | types; nobody sees a stranger's plugin, with any number of requests at once | `TypeOK`, and: what a user or an organization refers to was made by the user or by a member; a request in a slot is about a plugin that its user, or somebody with her, made |
| `TenantPluginsProofs!WorkersStay`, `NewVersionReplaces`, `RemovalCleansUp`, and `AloneWorkersStay`, `AloneRemovalCleansUp` for the instance of `plugins` | with one request at a time: references have workers, a user has one version of a plugin, a removal leaves no worker that nobody refers to | `WorkInv`: types; what a request that is under way has found, replaced or asked for is still so; every other reference has a worker and every other worker a reference |
| `TenantLocksProofs!TypeCorrect` | types, for any number of tasks | `LockInv`: who holds a lock has taken it at an earlier step of its section; who stands in a queue is about to take that lock, and stands there once |
| `TenantLocksProofs!OneOrderNoCircle`, `NoDeadlock` | no circle of waiting tasks, for any number of tasks, as long as the sections take their locks in one order; all but four do | `LockInv`, and an argument by the last lock that anybody in the circle waits for |
| `TenantResourcesProofs!RunsKeepDistance`, `DaemonsDoNotIdle` | runs that call their plugin or pipeline are a period apart; a daemon is idle for at most two periods and a wait | `ScheduleInv`: the daemon is due a period after its last run, and the next tick is no later than a period after the one that was lost |
| `TenantResourcesProofs!StagesSeeWhatIsBefore`, `LastAtTheTopWins` | for any pipeline: a stage sees exactly the earlier stages; the last top-level one wins | `RunInv`: what is still to run covers the stages that have not run, in the order of the text and after all that ran; every output stands at the path of its stage; what comes before a stage that is to run has its output |
| `TenantPluginsProofs!BestOfferIsTaken` | a variable comes from the first source that offers it all the time, or one before, for any organizations and changes | `EnvInv`: the sources are those of a beginning of the caller's list of organizations; whoever offered the variable all the time has not been asked and passed over; a look-up that is over got the variable if there was such a source |
| `PluginsProofs!DoneIsToldOnce` | `[DONE]` once, with the last answer, for any replies, in every request whose streams came whole | `StreamInv`: as long as that is so, a request that talks was told no `[DONE]`; when it saves, one if the last answer was streamed, and none but an error otherwise; nothing came after the end |
| `PluginsProofs!ListTellsThreads` | with one request at a time, the list tells the threads that have a file, with their titles | `ListInv`: while a request saves, the list that it read tells of all threads but its own |
| `PluginsProofs!SentIsAnswered`, `SentTellsContext` | for any number of requests at once, any replies, contexts, limits and wherever requests end: every call that is sent is answered in place, also in the fork of a request that has trimmed nothing; the context of a request is the only one sent | `ChatInv` (types) and `TalkInv`: system messages come first and are of one context; the others, with the answers still to come, are well formed, and so are the first `idx` messages alone until a trim; a file holds such a conversation |
| `PluginsProofs!SavedIsWhole` | with one request at a time, saving adds the whole turn to what was last saved and loses only the oldest messages, after a trim | `TalkInv` and `HistoryInv`: a file that is whole holds what was last saved; what was saved before, with the turn after it, ends in the conversation of the request, and is all of it if nothing was trimmed |
| `PluginsProofs!Notebook_RowsTellNodes`, `Notebook_UndoneWhole`, `Notebook_CopyExtends`, `Notebook_ThreadsStandInGraph` | with one request at a time, for any graph, walk, path and number of requests: the row of every saved node tells that node; a path that cannot be walked is undone and leaves the graph and the place in it as they were; what a request saves keeps every node and edge at its index; a thread stands at a node of the graph loaded with it | `NotebookInv`: types; a request's copy begins with the saved graph; the rows are of the newest graph; while a path is made, the copy is the one before with that path at its end, whose edges end at the last nodes, so that a removal moves nothing else |
| `PluginsProofs!Notebook_MadeIsReachable` | with one request at a time, no graph has a cycle and every node but the first two is reached from where threads begin, also while a path is made and undone | `NotebookInv` and `ReachInv`: saved graph, copy, and the copy before the path are sound; what is reached from a node is closed under edges and needs no more steps than there are nodes |
| `PluginsProofs!Vector_RowsAsGiven`, `Vector_MadeTablesTakeRows` | for any plugins and requests at a time: every value stands in its field with the embedding of its text; a table made after rows of texts and numbers takes them | `VectorInv`: a row tells its request; how far a call is tells what it looked at, and a table, once there, keeps its schema; of a call that made the table, the schema it made |
| `AccountsProofs!TypeCorrect`, `RemovedKeysAreDead` | types; a removed key lets nobody in, with any number of registrations at once | `TypeOK`, and: a key that somebody lists is in use, and nobody else lists it |
| `AccountsProofs!MembershipsAgree`, `RolesComeFromAbove` | with one registration at a time: both sides of a membership agree; roles are only given, by somebody as high | `MembersInv`: types, the agreement, and: what a registration found when it checked is still so |
| `TenantResourcesProofs!ReferencesResolve`, `ListingIsMembership`, `SharesAreEarned` | the properties of `resources`, with any number of requests, saves and restarts; the last two of organizations that no second registration replaced | `Inv`: types; only a restart or such a registration takes anything from memory, so what a request found is still so; what a copy has and what it still lacks agree with memory; a file lacks nothing |
| `PersistenceProofs!TypeCorrect`, `OneSaverIsAtomic`, `StateFileImplemented`, `QuietIsSaved` | with one request at a time: types; the state file is whole at any moment; every step is a step of `StateFile` or stutters; when nothing is under way the file holds what is in memory | `TypeOK`, and: the part of the copy that is made agrees with memory; the file that is being written is `state.tmp`, not the state file, and holds exactly the blocks written so far |

The invariants of the runs are not inductive: that no run meets a pause needs
to know who holds the lock, that a stored result finds its job needs to know
that only ended jobs are swept, that nobody sees a stranger's plugin needs to
know what the organizations share and what each request still carries, that the state
file is whole needs to know what is in `state.tmp`. Each
proof shows `Init => IInv`, one lemma or step per action for
`IInv /\ [Next]_vars => IInv'`, and `IInv => ` the property. The proofs use the
assumptions named in the modules (`DaemonsAssumption`, `JobsAssumption`,
`TenantAssumption`, `ResourcesAssumption`, `PersistenceAssumption`,
`AccountsAssumption`), which TLC evaluates in the runs;
`ScheduleAssumption`, `EnvAssumption`, `ThreadsAssumption`,
`NotebookAssumption`, `VectorAssumption` and `NoneAssumption` likewise.

Some theorems have hypotheses, each because without it TLC finds the property
violated, or because it says what the constants stand for:

| Theorem | Hypothesis | Why |
|---|---|---|
| those about `Persistence` | `Slots = {s}` | with two the run `state_file_at_once` refutes them |
| `MembershipsAgree`, `RolesComeFromAbove` | `OneRegistrar` | with two `MCAccountsAtOnce.cfg` does |
| `WorkersStay`, `NewVersionReplaces`, `RemovalCleansUp` | `[]OneAtATime` | with two requests at a time `MCTenantPluginsRemoved.cfg` refutes the first and the third, and `MCTenantPluginsVersions.cfg` the second |
| `NoDeadlock` | `Enabled \cap OutOfOrder = {}` | with the four sections of `OutOfOrder`, circles are found in `locks_register` and, for some of them, in the configurations of section 3 |
| those about `NotebookGraph` | `Visitors = {s}` | two requests at a time give two nodes one index, and `MCNotebookGraphAtOnce.cfg` refutes `RowsTellNodes` |
| `ListTellsThreads` | `Slots = {s}`; `Absent` and `Cut` are no functions | two requests each write the list they read; a file that is not there, or whose write is under way, is not what was written of a thread |
| `SavedIsWhole` | `Slots = {s}`; `Absent` is no function | with two at once `MCChatThreadsAtOnce.cfg` refutes it; a file that is not there is not what was written of a thread |

Left to TLC:

- Everything under fairness and `ENABLED`, which the prover does not handle:
  `PolledDaemonsRun`, `JobsEndAndGo`, `RegistrationEnds`, `SectionsEnd`.
- What folds and recursive functions compute for every input, which is
  induction over data: `MergedAsForwarded`, `ChunksAreTheDocument`,
  `ItemsKept`.

Filters were `SelectSeq`, which is recursive. `Selections` tells a filter by the
places it keeps, and the lemmas about it need no induction: the n-th place is the
one with n - 1 below it. That is what the proofs about `NotebookGraph`,
`VectorTables` and `ChatThreads` stand on. The fold of the weights in
`ChatThreads` stays closed (`TooLong`, `Weight`): of a trim the proofs need only
that it keeps the system messages and an end of the others, whatever fits. A
call in such an end keeps its answers, which come after it; an answer that lost
its call then stands before all other messages, which `StandsWell` allows.

## 5. Plan

Done: all modules of section 2 and the proofs above.

Next, in this order:

1. Handlers of `TenantPlugins` that end early: a client that goes away drops the
   future of its handler at an await (`persistence.rs:221`), so an upload or a
   removal may stop between any two sections, without a save. `Accounts` and
   `TenantResources` have that already.
2. The run of a tenant's pipeline over the registry by hash
   (`tenant/user/pipeline_routes.rs:182`).

Not modelled, and why:

- Document conversion runs an external program; whether a second conversion
  finds a whole file is up to that program.
- HTTP, connection, knowledge graph and retrieval plugins make one external
  call each, and the file, time and example plugins one call of a library: they
  keep no state between calls that a model could relate.
- The application registry of plugins is a map that only grows.
- Generated bindings, route tables, argument parsing and the rewriting of
  schemas are wiring and formats.
- Password hashing, signatures, WASM, the evaluation of JSONPath, markdown
  parsing, the graph library and the database are external; the last four are
  modelled as far as the code relies on them.
- Prompts and wording have no property.
