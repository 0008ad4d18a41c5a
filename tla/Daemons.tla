------------------------------- MODULE Daemons -------------------------------
(****************************************************************************)
(* The scheduled daemons of the capability server                           *)
(* (plugin-host/src/daemon.rs, routes/daemon_routes.rs,                     *)
(* tenant/user/daemon_routes.rs).                                           *)
(*                                                                          *)
(* A daemon is an entry of one of two registries: `app` is                  *)
(* AppState.daemons, served by the /daemons routes, and `tenant` is         *)
(* TenantState.daemon_registry, served by the routes of logged-in users; a  *)
(* server process serves one of the two (server.rs:96-181).                 *)
(* Registering or resuming a daemon spawns a tokio task whose JoinHandle    *)
(* the entry keeps.  The task of EITHER registry polls AppState.daemons:    *)
(* it holds that registry's write lock while it runs the daemon.            *)
(*                                                                          *)
(* A handler that does not await between its lock and its unlock is one     *)
(* action; a run awaits plugins, so it is a begin and an end step.  Time is *)
(* a countdown: next_run is the time left before the daemon is due.         *)
(****************************************************************************)
EXTENDS Naturals, FiniteSets

CONSTANTS
    Ids,               \* daemon ids (DaemonConfig.name)
    Tasks,             \* names for spawned tokio tasks
    Configs,           \* the DaemonConfigs that clients register
    Modes,             \* the registries that the server may be started for
    None,              \* no entry, no task, no id
    ErrorCap,          \* bound on error_count; only >= 3 is ever tested
    MaxRegistrations,  \* bound on the register requests of a behaviour
    MaxRestarts        \* bound on the restarts of a behaviour

Registries == {"app", "tenant"}
Kinds == {"plugin", "pipeline"}
Statuses == {"Active", "Paused", "Error"}
Phases == {"gone", "spawned", "ticking", "locking", "running"}
Keys == Registries \X Ids

\* Consecutive failures after which a daemon is in the Error state.
ErrorThreshold == 3

Config == [frequency : Nat, enabled : BOOLEAN, kind : Kinds]

\* struct Daemon.  Initializing never outlives Daemon::new: every caller
\* resumes the daemon before anything else can see it.
Entry == [config : Config, status : Statuses, next_run : Nat,
          error_count : Nat, handle : Tasks \cup {None}]

ASSUME DaemonsAssumption ==
    /\ Configs \subseteq Config
    /\ Modes \subseteq Registries
    /\ None \notin Tasks
    /\ None \notin Ids
    /\ None \notin Entry
    /\ ErrorCap \in Nat
    /\ ErrorCap >= ErrorThreshold
    /\ MaxRegistrations \in Nat
    /\ MaxRestarts \in Nat

VARIABLES
    mode,         \* the registry that this process serves
    daemons,      \* both registries: key -> entry
    saved,        \* tenant entries in the state file: id -> entry
    registering,  \* register requests between the spawn and the insert
    phase,        \* where each task is
    polls,        \* the id each task polls in the app registry
    lock,         \* the task that holds AppState.daemons for writing
    registered,   \* register requests so far
    restarts      \* restarts so far

vars == <<mode, daemons, saved, registering, phase, polls, lock, registered,
          restarts>>

App(d) == <<"app", d>>
Tenant(d) == <<"tenant", d>>

Live(t) == phase[t] # "gone"
InRun(t) == phase[t] = "running"

\* A handler gets the write lock of registry r only when no run holds it.
\* Tenant handlers hold their own lock, which no task ever takes.
LockFree(r) == r = "app" => lock = None

HandledBy(k) == IF daemons[k] = None THEN None ELSE daemons[k].handle

\* Names that no live task and no JoinHandle uses.
FreeTasks ==
    { t \in Tasks : /\ ~Live(t)
                    /\ \A k \in Keys : HandledBy(k) # t
                    /\ \A q \in registering : q.entry.handle # t }
------------------------------------------------------------------------------
Init ==
    /\ mode \in Modes
    /\ daemons = [k \in Keys |-> None]
    /\ saved = [d \in Ids |-> None]
    /\ registering = {}
    /\ phase = [t \in Tasks |-> "gone"]
    /\ polls = [t \in Tasks |-> None]
    /\ lock = None
    /\ registered = 0
    /\ restarts = 0

\* Daemon::new followed by resume with its task t: Initializing, then Active.
NewDaemon(c, t) ==
    [config |-> c, status |-> "Active", next_run |-> c.frequency,
     error_count |-> 0, handle |-> t]

\* Mutant: a resumed daemon always comes back Active.
ResumedStatusForgetful(e) == "Active"

ResumedStatus(e) == IF e.error_count >= ErrorThreshold THEN "Error" ELSE "Active"

\* handle.abort() of task h while t (or nobody) is spawned for id d.  What
\* an abort would do to a run is left out: none ever meets one
\* (RunsNeverAborted).
Switch(h, t, d) ==
    /\ phase' = [s \in Tasks |-> IF s = t THEN "spawned"
                                 ELSE IF s = h THEN "gone" ELSE phase[s]]
    /\ polls' = [s \in Tasks |-> IF s = t THEN d
                                 ELSE IF s = h THEN None ELSE polls[s]]
------------------------------------------------------------------------------
(* Request handlers *)

\* daemon_register, user_daemon_register up to the insert: the task is
\* spawned and may run before the entry is in the registry.
RegisterSpawn(d, c) ==
    /\ registered < MaxRegistrations
    /\ \E t \in FreeTasks :
          /\ registering' = registering \cup
                {[registry |-> mode, id |-> d, entry |-> NewDaemon(c, t)]}
          /\ Switch(None, t, d)
    /\ registered' = registered + 1
    /\ UNCHANGED <<mode, daemons, saved, lock, restarts>>

\* The insert.  The JoinHandle of an entry it replaces is dropped, which
\* detaches that task and does not abort it.
RegisterInsert(q) ==
    /\ LockFree(q.registry)
    /\ daemons' = [daemons EXCEPT ![<<q.registry, q.id>>] = q.entry]
    /\ registering' = registering \ {q}
    /\ UNCHANGED <<mode, saved, phase, polls, lock, registered, restarts>>

\* The client goes away while the request waits for the registry, and its
\* handler is dropped with the entry: the task is detached before any insert.
RegisterDropped(q) ==
    /\ registering' = registering \ {q}
    /\ UNCHANGED <<mode, daemons, saved, phase, polls, lock, registered, restarts>>

\* daemon_start, user_daemon_start of a paused daemon.  Of any other daemon
\* they change nothing and reply success.
StartDaemon(k) ==
    /\ k[1] = mode
    /\ LockFree(mode)
    /\ daemons[k] # None
    /\ daemons[k].status = "Paused"
    /\ \E t \in FreeTasks :
          /\ daemons' = [daemons EXCEPT ![k] =
                [@ EXCEPT !.status = ResumedStatus(daemons[k]), !.handle = t]]
          /\ Switch(daemons[k].handle, t, k[2])
    /\ UNCHANGED <<mode, saved, registering, lock, registered, restarts>>

Pause(k) ==
    /\ daemons[k] # None
    /\ daemons' = [daemons EXCEPT
          ![k] = [@ EXCEPT !.status = "Paused", !.handle = None]]
    /\ Switch(daemons[k].handle, None, None)
    /\ UNCHANGED <<mode, saved, registering, lock, registered, restarts>>

\* Mutant: pausing does not wait for the registry's write lock.
StopDaemonUnlocked(k) == k[1] = mode /\ Pause(k)

\* Mutant: pausing forgets the JoinHandle without aborting the task.
StopDaemonKeepTask(k) ==
    /\ k[1] = mode
    /\ LockFree(mode)
    /\ daemons[k] # None
    /\ daemons' = [daemons EXCEPT
          ![k] = [@ EXCEPT !.status = "Paused", !.handle = None]]
    /\ UNCHANGED <<mode, saved, registering, phase, polls, lock, registered, restarts>>

\* daemon_stop, user_daemon_stop.
StopDaemon(k) == k[1] = mode /\ LockFree(mode) /\ Pause(k)
------------------------------------------------------------------------------
(* The background task of a daemon *)

TaskExits(t) ==
    /\ phase' = [phase EXCEPT ![t] = "gone"]
    /\ polls' = [polls EXCEPT ![t] = None]

\* The task's first step reads AppState.daemons.  It returns when the id is
\* not there, and tokio::time::interval panics on a zero period.
TaskLookup(t) ==
    /\ phase[t] = "spawned"
    /\ lock = None
    /\ LET e == daemons[App(polls[t])] IN
       IF IF e = None THEN TRUE ELSE e.config.frequency = 0
       THEN TaskExits(t)
       ELSE /\ phase' = [phase EXCEPT ![t] = "ticking"]
            /\ UNCHANGED polls
    /\ UNCHANGED <<mode, daemons, saved, registering, lock, registered, restarts>>

\* interval.tick(), at any time: DaemonSchedule models when ticks come.
TaskTick(t) ==
    /\ phase[t] = "ticking"
    /\ phase' = [phase EXCEPT ![t] = "locking"]
    /\ UNCHANGED <<mode, daemons, saved, registering, polls, lock, registered, restarts>>

\* Mutant: a daemon in the Error state is never tried again.
ShouldRunActive(e) == e.config.enabled /\ e.status = "Active" /\ e.next_run = 0

ShouldRun(e) == e.config.enabled /\ e.status # "Paused" /\ e.next_run = 0

\* The loop body after a tick, once it has the write lock: a run begins and
\* keeps the lock, or the lock is dropped and the task waits for a tick.
LoopBody(t) ==
    /\ phase[t] = "locking"
    /\ LET e == daemons[App(polls[t])] IN
       IF e = None
       THEN TaskExits(t) /\ UNCHANGED lock
       ELSE /\ phase' = [phase EXCEPT
                  ![t] = IF ShouldRun(e) THEN "running" ELSE "ticking"]
            /\ lock' = IF ShouldRun(e) THEN t ELSE lock
            /\ UNCHANGED polls
    /\ UNCHANGED <<mode, daemons, saved, registering, registered, restarts>>

\* Mutant: the task reads the registry without taking the write lock.
TaskPollUnlocked(t) == LoopBody(t)

TaskPoll(t) == lock = None /\ LoopBody(t)

BumpError(n) == IF n < ErrorCap THEN n + 1 ELSE n

\* Daemon::run after the plugin or the pipeline came back.
AfterOk(e) == [e EXCEPT !.status = "Active", !.error_count = 0,
                        !.next_run = e.config.frequency]
AfterErr(e) ==
    LET n == BumpError(e.error_count) IN
    [e EXCEPT !.error_count = n, !.next_run = e.config.frequency,
              !.status = IF n >= ErrorThreshold THEN "Error" ELSE @]

\* The end of a run: it succeeds, fails, or finds no such pipeline and
\* returns early with the entry as it was.
RunReturns(t) ==
    /\ InRun(t)
    /\ LET k == App(polls[t]) e == daemons[k] IN
          \/ daemons' = [daemons EXCEPT ![k] = AfterOk(e)]
          \/ daemons' = [daemons EXCEPT ![k] = AfterErr(e)]
          \/ e.config.kind = "pipeline" /\ UNCHANGED daemons
    /\ lock' = None
    /\ phase' = [phase EXCEPT ![t] = "ticking"]
    /\ UNCHANGED <<mode, saved, registering, polls, registered, restarts>>

\* The run panics, where run_plugin cuts the text of the input inside a
\* character (plugin.rs:70) or a pipeline has no stage (pipeline.rs:38): the
\* task ends, its guard drops the lock, the entry is as it was.
RunUnwinds(t) ==
    /\ InRun(t)
    /\ TaskExits(t)
    /\ lock' = None
    /\ UNCHANGED <<mode, daemons, saved, registering, registered, restarts>>
------------------------------------------------------------------------------
(* Time, the state file, restarts *)

Sooner(e) == IF e.next_run = 0 THEN e ELSE [e EXCEPT !.next_run = @ - 1]
SoonerOpt(e) == IF e = None THEN None ELSE Sooner(e)

\* One unit of time passes, also for the entries on file: next_run is a
\* wall-clock time.
Elapse ==
    /\ \/ \E k \in Keys : daemons[k] # None /\ daemons[k].next_run > 0
       \/ \E d \in Ids : saved[d] # None /\ saved[d].next_run > 0
       \/ \E q \in registering : q.entry.next_run > 0
    /\ daemons' = [k \in Keys |-> SoonerOpt(daemons[k])]
    /\ saved' = [d \in Ids |-> SoonerOpt(saved[d])]
    /\ registering' = { [q EXCEPT !.entry = Sooner(q.entry)] : q \in registering }
    /\ UNCHANGED <<mode, phase, polls, lock, registered, restarts>>

\* PersistentState::save copies the tenant registry; task_handle is
\* serde(skip).
Save ==
    /\ restarts < MaxRestarts
    /\ saved' = [d \in Ids |-> IF daemons[Tenant(d)] = None THEN None
                               ELSE [daemons[Tenant(d)] EXCEPT !.handle = None]]
    /\ UNCHANGED <<mode, daemons, registering, phase, polls, lock, registered, restarts>>

\* The process stops at any point and starts again: load_state puts back
\* the tenant registry, the app registry starts empty, no task is spawned.
\* The server may come back for the other kind of routes.
Restart ==
    /\ restarts < MaxRestarts
    /\ mode' \in Modes
    /\ daemons' = [k \in Keys |-> IF k[1] = "tenant" THEN saved[k[2]] ELSE None]
    /\ registering' = {}
    /\ phase' = [t \in Tasks |-> "gone"]
    /\ polls' = [t \in Tasks |-> None]
    /\ lock' = None
    /\ restarts' = restarts + 1
    /\ UNCHANGED <<saved, registered>>
------------------------------------------------------------------------------
Handlers ==
    \/ \E d \in Ids, c \in Configs : RegisterSpawn(d, c)
    \/ \E q \in registering : RegisterInsert(q) \/ RegisterDropped(q)
    \/ \E k \in Keys : StartDaemon(k)
    \/ \E k \in Keys : StopDaemon(k)

TaskStep(t) ==
    \/ TaskLookup(t)
    \/ TaskTick(t)
    \/ TaskPoll(t)
    \/ RunReturns(t)
    \/ RunUnwinds(t)

Next ==
    \/ Handlers
    \/ \E t \in Tasks : TaskStep(t)
    \/ Elapse
    \/ Save
    \/ Restart

Spec == Init /\ [][Next]_vars

\* The runtime polls every ready task, wall-clock time passes, plugins return,
\* and tokio's RwLock queues its waiters in order, so that a task that waits
\* for the lock gets it however often others take it.  No request is ever
\* obliged to come; one that came is carried on, unless its client is gone.
Fairness ==
    /\ WF_vars(Elapse)
    /\ SF_vars(\E q \in registering : RegisterInsert(q))
    /\ \A t \in Tasks : /\ WF_vars(TaskTick(t))
                        /\ WF_vars(RunReturns(t) \/ RunUnwinds(t))
                        /\ SF_vars(TaskLookup(t))
                        /\ SF_vars(TaskPoll(t))

FairSpec == Spec /\ Fairness
------------------------------------------------------------------------------
(* Properties *)

TypeOK ==
    /\ mode \in Modes
    /\ daemons \in [Keys -> Entry \cup {None}]
    /\ saved \in [Ids -> Entry \cup {None}]
    /\ registering \subseteq [registry : Registries, id : Ids, entry : Entry]
    /\ phase \in [Tasks -> Phases]
    /\ polls \in [Tasks -> Ids \cup {None}]
    /\ lock \in Tasks \cup {None}
    /\ registered \in 0..MaxRegistrations
    /\ restarts \in 0..MaxRestarts

\* At most one daemon runs at any moment in the whole server, even when a
\* re-registered id left two tasks polling the same entry: the run holds
\* the registry's write lock (daemon.rs:365-377).
OneRunAtATime ==
    \A s, t \in Tasks : InRun(s) /\ InRun(t) => s = t

\* The daemon a task runs exists and is not paused for as long as the run
\* takes: a stop that comes during a run takes effect after it, so the run's
\* last write (status = Active) can never undo the pause.
RunsOnlyUnpaused ==
    \A t \in Tasks : InRun(t) =>
        /\ daemons[App(polls[t])] # None
        /\ daemons[App(polls[t])].status # "Paused"

\* The status tells the error count, across pauses, resumes and restarts: an
\* unpaused daemon is in Error exactly when its last three runs failed.
StatusTellsErrors ==
    \A k \in Keys : daemons[k] # None =>
        LET e == daemons[k] IN
        /\ e.status = "Error" => e.error_count >= ErrorThreshold
        /\ e.status = "Active" => e.error_count < ErrorThreshold

\* Whoever holds a live task's JoinHandle.
Owned(t) ==
    \/ \E k \in Keys : HandledBy(k) = t
    \/ \E q \in registering : q.entry.handle = t

\* Starting and stopping never leaves a task behind that nobody can abort: a
\* live task loses its owner only when a registration of its id replaces the
\* entry that held its handle, or when the client whose request spawned it is
\* gone before the entry is inserted.
OnlyRegisteringDetaches ==
    [][\A t \in Tasks :
          Live(t) /\ Live(t)' /\ Owned(t) /\ ~Owned(t)'
          => \E q \in registering :
                /\ q \notin registering'
                /\ q.id = polls[t]
                /\ \/ daemons'[<<q.registry, q.id>>] = q.entry
                   \/ q.entry.handle = t /\ daemons' = daemons]_vars

\* No run is cut off half way by an abort: whoever aborts a task holds the
\* lock that a run would hold, and a server whose handlers take another lock
\* runs no daemon at all.
RunsNeverAborted ==
    [][\A t \in Tasks : InRun(t) /\ ~InRun(t)' =>
          RunReturns(t) \/ RunUnwinds(t) \/ Restart]_vars

\* A paused daemon stays paused until a request starts it or
\* registers it anew: no background task resumes it.
PausedUntilAsked ==
    [][\A k \in Keys :
          /\ daemons[k] # None /\ daemons[k].status = "Paused"
          /\ daemons'[k] # None /\ daemons'[k].status # "Paused"
          /\ restarts' = restarts
          => daemons'[k].handle \in Tasks /\ daemons'[k].handle # daemons[k].handle]_vars

\* An enabled daemon whose task got past its lookup is run again and again
\* until it is paused, loses its task or is registered anew as disabled: a
\* task that waits for the lock is not starved by the runs of other daemons.
Polled(d) ==
    /\ daemons[App(d)] # None
    /\ daemons[App(d)].config.enabled
    /\ daemons[App(d)].status # "Paused"
    /\ \E t \in Tasks : polls[t] = d /\ phase[t] \in {"ticking", "locking"}

PolledDaemonsRun ==
    \A d \in Ids :
        Polled(d) ~> \/ \E t \in Tasks : polls[t] = d /\ InRun(t)
                     \/ ~Polled(d)

\* An Active daemon of registry r "is running normally" (daemon.rs:86): a live
\* task polls it.
ActiveIsPolled(r) ==
    \A d \in Ids :
        LET e == daemons[<<r, d>>] IN
        (e # None /\ (e # None => e.status = "Active")) =>
            \E t \in Tasks : Live(t) /\ polls[t] = d

AppActiveIsPolled == ActiveIsPolled("app")
TenantActiveIsPolled == ActiveIsPolled("tenant")

\* error_count is the "count of consecutive execution errors" (daemon.rs:60):
\* a run that returns to its task either succeeded or was counted.
RunsAreCounted ==
    [][\A t \in Tasks :
          phase[t] = "running" /\ phase'[t] = "ticking" =>
             LET n == daemons[App(polls[t])].error_count
                 m == daemons'[App(polls[t])].error_count IN
             m = 0 \/ m = BumpError(n)]_vars
==============================================================================
