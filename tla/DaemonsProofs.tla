---------------------------- MODULE DaemonsProofs ----------------------------
(* Proofs about Daemons, for every set of ids, tasks and configs: type        *)
(* correctness, one run at a time, no run of a paused daemon, no run cut off  *)
(* by an abort, the status and the count of errors agree, and who may leave a *)
(* task without an owner.                                                     *)
EXTENDS Daemons, TLAPS

USE DEF ErrorThreshold

\* What Daemon::new and a resume return is an entry.
LEMMA NewDaemonType ==
    ASSUME NEW c \in Configs, NEW t \in Tasks
    PROVE  NewDaemon(c, t) \in Entry
BY DaemonsAssumption DEF NewDaemon, Entry, Statuses, Config

\* What a run and the passing of time make of an entry is an entry, and
\* neither moves the handle.
LEMMA EntryUpdates ==
    ASSUME NEW e \in Entry
    PROVE  /\ AfterOk(e) \in Entry
           /\ AfterErr(e) \in Entry
           /\ Sooner(e) \in Entry
           /\ \A s \in Statuses, h \in Tasks \cup {None} :
                 [e EXCEPT !.status = s, !.handle = h] \in Entry
           /\ Sooner(e).status = e.status
<1>1. AfterOk(e) \in Entry
  BY DEF AfterOk, Entry, Statuses, Config
<1>2. AfterErr(e) \in Entry
  <2> DEFINE n == BumpError(e.error_count)
             st == IF n >= ErrorThreshold THEN "Error" ELSE e.status
  <2>1. n \in Nat /\ e.config.frequency \in Nat
    BY DaemonsAssumption DEF BumpError, Entry, Config
  <2>2. st \in Statuses
    BY DEF Entry, Statuses
  <2>3. AfterErr(e) = [e EXCEPT !.error_count = n, !.next_run = e.config.frequency,
                                !.status = st]
    BY DEF AfterErr
  <2> HIDE DEF n, st
  <2>4. QED
    BY <2>1, <2>2, <2>3 DEF Entry
<1>3. Sooner(e) \in Entry /\ Sooner(e).status = e.status
  BY DEF Sooner, Entry
<1>4. \A s \in Statuses, h \in Tasks \cup {None} :
         [e EXCEPT !.status = s, !.handle = h] \in Entry
  BY DEF Entry
<1>5. QED
  BY <1>1, <1>2, <1>3, <1>4

\* Switch keeps the task tables well typed.
LEMMA SwitchType ==
    ASSUME TypeOK, NEW h \in Tasks \cup {None}, NEW t \in Tasks \cup {None},
           NEW d \in Ids \cup {None}, Switch(h, t, d)
    PROVE  /\ phase' \in [Tasks -> Phases]
           /\ polls' \in [Tasks -> Ids \cup {None}]
BY DEF Switch, TypeOK, Phases

\* The inductive invariant.  OneRunAtATime does not say who holds the lock; a
\* run's last write is a write to the entry only if that entry exists; and the
\* handlers of a tenant server, which take another lock, meet no run because
\* the app registry of such a server is empty.
LockHeld == \A t \in Tasks : InRun(t) <=> lock = t
LiveTasksPoll == \A t \in Tasks : Live(t) => polls[t] \in Ids
ServedRegistry ==
    /\ \A d \in Ids : daemons[App(d)] # None => mode = "app"
    /\ \A q \in registering : q.registry = mode
IInv == TypeOK /\ LockHeld /\ LiveTasksPoll /\ RunsOnlyUnpaused /\ ServedRegistry

\* A task in a run has an entry to update.
LEMMA RunningEntry ==
    ASSUME IInv, NEW t \in Tasks, InRun(t)
    PROVE  /\ App(polls[t]) \in Keys
           /\ daemons[App(polls[t])] \in Entry
           /\ daemons[App(polls[t])].status # "Paused"
           /\ mode = "app"
<1>1. Live(t) /\ polls[t] \in Ids
  BY DEF IInv, LiveTasksPoll, Live, InRun
<1>2. App(polls[t]) \in Keys
  BY <1>1 DEF App, Keys, Registries
<1>3. QED
  BY <1>1, <1>2 DEF IInv, TypeOK, RunsOnlyUnpaused, ServedRegistry

\* Where a handler gets its registry's lock, no task runs a daemon.
LEMMA HandlersMeetNoRun ==
    ASSUME IInv, LockFree(mode)
    PROVE  /\ lock = None
           /\ \A t \in Tasks : ~InRun(t)
<1>1. ASSUME NEW t \in Tasks, InRun(t) PROVE FALSE
  <2>1. mode = "app" /\ lock = t
    BY <1>1, RunningEntry DEF IInv, LockHeld
  <2>2. QED
    BY <2>1, DaemonsAssumption DEF LockFree
<1>2. QED
  BY <1>1 DEF IInv, LockHeld, TypeOK

\* Every step keeps the types.
LEMMA TypeStep == IInv /\ [Next]_vars => TypeOK'
<1> SUFFICES ASSUME IInv, [Next]_vars PROVE TypeOK'
  OBVIOUS
<1>0. TypeOK
  BY DEF IInv
<1> USE DaemonsAssumption
<1>1. ASSUME NEW d \in Ids, NEW c \in Configs, RegisterSpawn(d, c)
      PROVE  TypeOK'
  <2>1. PICK t \in FreeTasks :
           /\ registering' = registering \cup
                {[registry |-> mode, id |-> d, entry |-> NewDaemon(c, t)]}
           /\ Switch(None, t, d)
    BY <1>1 DEF RegisterSpawn
  <2>2. t \in Tasks
    BY DEF FreeTasks
  <2>3. /\ phase' \in [Tasks -> Phases]
        /\ polls' \in [Tasks -> Ids \cup {None}]
    BY <1>0, <2>1, <2>2, SwitchType
  <2>4. registering' \subseteq [registry : Registries, id : Ids, entry : Entry]
    BY <1>0, <2>1, <2>2, NewDaemonType, DaemonsAssumption DEF TypeOK
  <2>5. registered' \in 0..MaxRegistrations
    BY <1>0, <1>1 DEF RegisterSpawn, TypeOK
  <2>6. QED
    BY <1>0, <1>1, <2>3, <2>4, <2>5 DEF RegisterSpawn, TypeOK
<1>dropped. ASSUME NEW q \in registering, RegisterDropped(q)
      PROVE  TypeOK'
  BY <1>0, <1>dropped DEF RegisterDropped, TypeOK
<1>2. ASSUME NEW q \in registering, RegisterInsert(q)
      PROVE  TypeOK'
  <2>1. q.entry \in Entry /\ <<q.registry, q.id>> \in Keys
    BY <1>0 DEF TypeOK, Keys
  <2>2. QED
    BY <1>0, <1>2, <2>1 DEF RegisterInsert, TypeOK
<1>3. ASSUME NEW k \in Keys, StartDaemon(k)
      PROVE  TypeOK'
  <2>1. daemons[k] \in Entry /\ k[2] \in Ids
    BY <1>0, <1>3 DEF StartDaemon, TypeOK, Keys
  <2>2. PICK t \in FreeTasks :
           /\ daemons' = [daemons EXCEPT ![k] =
                 [@ EXCEPT !.status = ResumedStatus(daemons[k]), !.handle = t]]
           /\ Switch(daemons[k].handle, t, k[2])
    BY <1>0, <1>3 DEF StartDaemon
  <2>3. t \in Tasks /\ daemons[k].handle \in Tasks \cup {None}
    BY <2>1 DEF FreeTasks, Entry
  <2>4. /\ phase' \in [Tasks -> Phases]
        /\ polls' \in [Tasks -> Ids \cup {None}]
    BY <1>0, <2>1, <2>2, <2>3, SwitchType
  <2>5. ResumedStatus(daemons[k]) \in Statuses
    BY DEF ResumedStatus, Statuses
  <2>6. daemons' \in [Keys -> Entry \cup {None}]
    <3>1. [daemons[k] EXCEPT !.status = ResumedStatus(daemons[k]), !.handle = t] \in Entry
      BY <2>1, <2>3, <2>5, EntryUpdates
    <3>2. QED
      BY <1>0, <2>2, <3>1 DEF TypeOK
  <2>7. QED
    BY <1>0, <1>3, <2>4, <2>6 DEF StartDaemon, TypeOK
<1>4. ASSUME NEW k \in Keys, StopDaemon(k)
      PROVE  TypeOK'
  <2>1. daemons[k] \in Entry
    BY <1>0, <1>4 DEF StopDaemon, Pause, TypeOK
  <2>2. daemons[k].handle \in Tasks \cup {None}
    BY <2>1 DEF Entry
  <2>3. /\ phase' \in [Tasks -> Phases]
        /\ polls' \in [Tasks -> Ids \cup {None}]
    BY <1>0, <1>4, <2>2, SwitchType DEF StopDaemon, Pause
  <2>4. [daemons[k] EXCEPT !.status = "Paused", !.handle = None] \in Entry
    BY <2>1, EntryUpdates DEF Statuses
  <2>5. daemons' \in [Keys -> Entry \cup {None}]
    BY <1>0, <1>4, <2>4 DEF StopDaemon, Pause, TypeOK
  <2>6. QED
    BY <1>0, <1>4, <2>3, <2>5 DEF StopDaemon, Pause, TypeOK
<1>5. ASSUME NEW t \in Tasks, TaskLookup(t)
      PROVE  TypeOK'
  BY <1>0, <1>5 DEF TaskLookup, TaskExits, TypeOK, Phases
<1>6. ASSUME NEW t \in Tasks, TaskTick(t)
      PROVE  TypeOK'
  BY <1>0, <1>6 DEF TaskTick, TypeOK, Phases
<1>7. ASSUME NEW t \in Tasks, TaskPoll(t)
      PROVE  TypeOK'
  BY <1>0, <1>7 DEF TaskPoll, LoopBody, TaskExits, TypeOK, Phases
<1>8. ASSUME NEW t \in Tasks, RunReturns(t)
      PROVE  TypeOK'
  <2> DEFINE k == App(polls[t])
  <2>1. k \in Keys /\ daemons[k] \in Entry
    BY <1>8, RunningEntry DEF RunReturns
  <2>2. AfterOk(daemons[k]) \in Entry /\ AfterErr(daemons[k]) \in Entry
    BY <2>1, EntryUpdates
  <2>3. daemons' \in [Keys -> Entry \cup {None}]
    BY <1>0, <1>8, <2>2 DEF RunReturns, TypeOK
  <2>4. QED
    BY <1>0, <1>8, <2>3 DEF RunReturns, TaskExits, TypeOK, Phases
<1>9. ASSUME NEW t \in Tasks, RunUnwinds(t)
      PROVE  TypeOK'
  BY <1>0, <1>9 DEF RunUnwinds, TaskExits, TypeOK, Phases
<1>10. CASE Elapse
  <2>1. \A x \in Entry \cup {None} : SoonerOpt(x) \in Entry \cup {None}
    BY EntryUpdates DEF SoonerOpt
  <2>2. \A q \in registering :
           [q EXCEPT !.entry = Sooner(q.entry)]
              \in [registry : Registries, id : Ids, entry : Entry]
    <3> TAKE q \in registering
    <3>1. q \in [registry : Registries, id : Ids, entry : Entry]
      BY <1>0 DEF TypeOK
    <3>2. Sooner(q.entry) \in Entry
      BY <3>1, EntryUpdates
    <3>3. QED
      BY <3>1, <3>2
  <2>3. registering' \subseteq [registry : Registries, id : Ids, entry : Entry]
    BY <1>10, <2>2 DEF Elapse
  <2>4. QED
    BY <1>0, <1>10, <2>1, <2>3 DEF Elapse, TypeOK
<1>11. CASE Save
  <2>1. \A d \in Ids : daemons[Tenant(d)] # None =>
           [daemons[Tenant(d)] EXCEPT !.handle = None] \in Entry
    BY <1>0 DEF TypeOK, Tenant, Keys, Registries, Entry
  <2>2. QED
    BY <1>0, <1>11, <2>1 DEF Save, TypeOK
<1>12. CASE Restart
  BY <1>0, <1>12 DEF Restart, TypeOK, Keys, Phases
<1>13. CASE UNCHANGED vars
  BY <1>0, <1>13 DEF vars, TypeOK
<1>14. QED
  BY <1>dropped, <1>1, <1>2, <1>3, <1>4, <1>5, <1>6, <1>7, <1>8, <1>9, <1>10, <1>11, <1>12, <1>13
     DEF Next, Handlers, TaskStep

\* Every step keeps the lock with the one task that runs a daemon, and every
\* live task pointed at an id.
LEMMA TasksStep == IInv /\ [Next]_vars => LockHeld' /\ LiveTasksPoll'
<1> SUFFICES ASSUME IInv, [Next]_vars PROVE LockHeld' /\ LiveTasksPoll'
  OBVIOUS
<1> USE DEF LockHeld, LiveTasksPoll, Live, InRun
<1>0. TypeOK /\ LockHeld /\ LiveTasksPoll
  BY DEF IInv
<1>1. ASSUME NEW h \in Tasks \cup {None}, NEW t \in Tasks \cup {None},
             NEW d \in Ids \cup {None}, Switch(h, t, d), UNCHANGED lock,
             t # None => d \in Ids /\ phase[t] = "gone",
             h # None => phase[h] # "running"
      PROVE  LockHeld' /\ LiveTasksPoll'
  BY <1>0, <1>1, DaemonsAssumption DEF Switch, TypeOK
<1>2. ASSUME NEW d \in Ids, NEW c \in Configs, RegisterSpawn(d, c)
      PROVE  LockHeld' /\ LiveTasksPoll'
  BY <1>1, <1>2 DEF RegisterSpawn, FreeTasks
<1>dropped. ASSUME NEW q \in registering, RegisterDropped(q)
      PROVE  LockHeld' /\ LiveTasksPoll'
  BY <1>0, <1>dropped DEF RegisterDropped
<1>3. ASSUME NEW q \in registering, RegisterInsert(q)
      PROVE  LockHeld' /\ LiveTasksPoll'
  BY <1>0, <1>3 DEF RegisterInsert
<1>4. ASSUME NEW k \in Keys, StartDaemon(k)
      PROVE  LockHeld' /\ LiveTasksPoll'
  <2>1. daemons[k].handle \in Tasks \cup {None} /\ k[2] \in Ids
    BY <1>0, <1>4 DEF StartDaemon, TypeOK, Entry, Keys
  <2>2. PICK t \in FreeTasks : Switch(daemons[k].handle, t, k[2])
    BY <1>4 DEF StartDaemon
  <2>3. t \in Tasks /\ phase[t] = "gone"
    BY DEF FreeTasks
  <2>4. \A s \in Tasks : phase[s] # "running"
    BY <1>4, HandlersMeetNoRun DEF StartDaemon
  <2>5. QED
    BY <1>1, <1>4, <2>1, <2>2, <2>3, <2>4 DEF StartDaemon
<1>5. ASSUME NEW k \in Keys, StopDaemon(k)
      PROVE  LockHeld' /\ LiveTasksPoll'
  <2>1. daemons[k].handle \in Tasks \cup {None}
    BY <1>0, <1>5 DEF StopDaemon, Pause, TypeOK, Entry
  <2>2. \A s \in Tasks : phase[s] # "running"
    BY <1>5, HandlersMeetNoRun DEF StopDaemon
  <2>3. QED
    BY <1>1, <1>5, <2>1, <2>2 DEF StopDaemon, Pause
<1>6. ASSUME NEW t \in Tasks, TaskLookup(t)
      PROVE  LockHeld' /\ LiveTasksPoll'
  BY <1>0, <1>6, DaemonsAssumption DEF TaskLookup, TaskExits, TypeOK
<1>7. ASSUME NEW t \in Tasks, TaskTick(t)
      PROVE  LockHeld' /\ LiveTasksPoll'
  BY <1>0, <1>7 DEF TaskTick, TypeOK
<1>8. ASSUME NEW t \in Tasks, TaskPoll(t)
      PROVE  LockHeld' /\ LiveTasksPoll'
  BY <1>0, <1>8, DaemonsAssumption DEF TaskPoll, LoopBody, TaskExits, TypeOK
<1>9. ASSUME NEW t \in Tasks, RunReturns(t)
      PROVE  LockHeld' /\ LiveTasksPoll'
  BY <1>0, <1>9, DaemonsAssumption DEF RunReturns, TaskExits, TypeOK
<1>10. ASSUME NEW t \in Tasks, RunUnwinds(t)
      PROVE  LockHeld' /\ LiveTasksPoll'
  BY <1>0, <1>10, DaemonsAssumption DEF RunUnwinds, TaskExits, TypeOK
<1>11. CASE Elapse
  BY <1>0, <1>11 DEF Elapse
<1>12. CASE Save
  BY <1>0, <1>12 DEF Save
<1>13. CASE Restart
  BY <1>0, <1>13, DaemonsAssumption DEF Restart
<1>14. CASE UNCHANGED vars
  BY <1>0, <1>14 DEF vars
<1>15. QED
  BY <1>dropped, <1>2, <1>3, <1>4, <1>5, <1>6, <1>7, <1>8, <1>9, <1>10, <1>11, <1>12, <1>13, <1>14
     DEF Next, Handlers, TaskStep

\* No step pauses or removes the daemon of a run.
LEMMA RunsStep == IInv /\ [Next]_vars => RunsOnlyUnpaused'
<1> SUFFICES ASSUME IInv, [Next]_vars, NEW t \in Tasks, InRun(t)'
             PROVE  /\ daemons'[App(polls'[t])] # None
                    /\ daemons'[App(polls'[t])].status # "Paused"
  BY DEF RunsOnlyUnpaused
<1> DEFINE k == App(polls[t])
           Kept == InRun(t) /\ polls'[t] = polls[t] /\ daemons'[k] = daemons[k]
<1>0. TypeOK /\ LockHeld /\ LiveTasksPoll
  BY DEF IInv
<1>1. InRun(t) => /\ k \in Keys
                  /\ daemons[k] # None
                  /\ daemons[k].status # "Paused"
                  /\ lock = t
  BY <1>0, RunningEntry, DaemonsAssumption DEF LockHeld
<1>2. Kept => /\ daemons'[App(polls'[t])] # None
              /\ daemons'[App(polls'[t])].status # "Paused"
  BY <1>1
<1>3. ASSUME LockFree(mode), InRun(t)
      PROVE  FALSE
  BY <1>3, HandlersMeetNoRun
<1>4. ASSUME NEW d \in Ids, NEW c \in Configs, RegisterSpawn(d, c)
      PROVE  Kept
  BY <1>0, <1>4, DaemonsAssumption DEF RegisterSpawn, FreeTasks, Switch, InRun, TypeOK
<1>dropped. ASSUME NEW q \in registering, RegisterDropped(q)
      PROVE  Kept
  BY <1>0, <1>dropped DEF RegisterDropped, InRun, TypeOK
<1>5. ASSUME NEW q \in registering, RegisterInsert(q)
      PROVE  FALSE
  <2>1. InRun(t)
    BY <1>5 DEF RegisterInsert, InRun
  <2>2. LockFree(mode)
    BY <1>5 DEF RegisterInsert, IInv, ServedRegistry
  <2>3. QED
    BY <1>3, <2>1, <2>2
<1>6. ASSUME NEW x \in Keys, StartDaemon(x)
      PROVE  FALSE
  <2>1. InRun(t)
    BY <1>0, <1>6 DEF StartDaemon, Switch, InRun, TypeOK
  <2>2. QED
    BY <1>3, <1>6, <2>1 DEF StartDaemon
<1>7. ASSUME NEW x \in Keys, StopDaemon(x)
      PROVE  FALSE
  <2>1. InRun(t)
    BY <1>0, <1>7, DaemonsAssumption DEF StopDaemon, Pause, Switch, InRun, TypeOK
  <2>2. QED
    BY <1>3, <1>7, <2>1 DEF StopDaemon
<1>8. ASSUME NEW s \in Tasks, TaskLookup(s)
      PROVE  Kept
  BY <1>0, <1>8 DEF TaskLookup, TaskExits, InRun, TypeOK
<1>9. ASSUME NEW s \in Tasks, TaskTick(s)
      PROVE  Kept
  BY <1>0, <1>9 DEF TaskTick, InRun, TypeOK
<1>10. ASSUME NEW s \in Tasks, TaskPoll(s)
       PROVE  /\ daemons'[App(polls'[t])] # None
              /\ daemons'[App(polls'[t])].status # "Paused"
  <2>1. CASE InRun(t)
    <3>1. Kept
      BY <1>0, <1>10, <2>1 DEF TaskPoll, LoopBody, TaskExits, InRun, TypeOK
    <3>2. QED
      BY <1>2, <3>1
  <2>2. CASE ~InRun(t)
    <3>1. s = t /\ daemons[k] # None /\ ShouldRun(daemons[k]) /\ UNCHANGED <<polls, daemons>>
      BY <1>0, <1>10, <2>2 DEF TaskPoll, LoopBody, TaskExits, InRun, TypeOK
    <3>2. QED
      BY <3>1 DEF ShouldRun
  <2>3. QED
    BY <2>1, <2>2
<1>11. ASSUME NEW s \in Tasks, RunReturns(s)
       PROVE  FALSE
  <2>1. s = t \/ InRun(t)
    BY <1>0, <1>11 DEF RunReturns, TaskExits, InRun, TypeOK
  <2>2. s = t
    BY <1>0, <1>11, <2>1 DEF RunReturns, LockHeld
  <2>3. QED
    BY <1>0, <1>11, <2>2 DEF RunReturns, TaskExits, InRun, TypeOK
<1>12. ASSUME NEW s \in Tasks, RunUnwinds(s)
       PROVE  FALSE
  <2>1. s = t \/ InRun(t)
    BY <1>0, <1>12 DEF RunUnwinds, TaskExits, InRun, TypeOK
  <2>2. s = t
    BY <1>0, <1>12, <2>1 DEF RunUnwinds, LockHeld
  <2>3. QED
    BY <1>0, <1>12, <2>2 DEF RunUnwinds, TaskExits, InRun, TypeOK
<1>13. ASSUME Elapse
       PROVE  /\ daemons'[App(polls'[t])] # None
              /\ daemons'[App(polls'[t])].status # "Paused"
  <2>1. InRun(t) /\ polls' = polls
    BY <1>13 DEF Elapse, InRun
  <2>2. daemons[k] \in Entry /\ daemons'[k] = Sooner(daemons[k])
    BY <1>0, <1>1, <1>13, <2>1 DEF Elapse, SoonerOpt, TypeOK
  <2>3. Sooner(daemons[k]) \in Entry /\ Sooner(daemons[k]).status # "Paused"
    BY <1>1, <2>1, <2>2, EntryUpdates
  <2>4. QED
    BY <2>1, <2>2, <2>3, DaemonsAssumption
<1>14. CASE Save
  BY <1>2, <1>14 DEF Save, InRun
<1>15. CASE Restart
  BY <1>15 DEF Restart, InRun
<1>16. CASE UNCHANGED vars
  BY <1>2, <1>16 DEF vars, InRun
<1>17. QED
  BY <1>dropped, <1>2, <1>4, <1>5, <1>6, <1>7, <1>8, <1>9, <1>10, <1>11, <1>12, <1>13, <1>14, <1>15, <1>16
     DEF Next, Handlers, TaskStep

\* Registration, and nothing else, fills the registry that is served.
LEMMA ServedStep == IInv /\ [Next]_vars => ServedRegistry'
<1> SUFFICES ASSUME IInv, [Next]_vars PROVE ServedRegistry'
  OBVIOUS
<1> USE DEF ServedRegistry
<1>0. TypeOK /\ ServedRegistry
  BY DEF IInv
<1>1. ASSUME mode' = mode, registering' \subseteq registering,
             \A d \in Ids : daemons'[App(d)] # None => daemons[App(d)] # None
      PROVE  ServedRegistry'
  BY <1>0, <1>1
<1>2. ASSUME NEW d \in Ids, NEW c \in Configs, RegisterSpawn(d, c)
      PROVE  ServedRegistry'
  BY <1>0, <1>2 DEF RegisterSpawn
<1>dropped. ASSUME NEW q \in registering, RegisterDropped(q)
      PROVE  ServedRegistry'
  BY <1>0, <1>1, <1>dropped DEF RegisterDropped
<1>3. ASSUME NEW q \in registering, RegisterInsert(q)
      PROVE  ServedRegistry'
  <2>1. q.registry = mode /\ registering' \subseteq registering
    BY <1>0, <1>3 DEF RegisterInsert
  <2>2. ASSUME NEW d \in Ids, daemons'[App(d)] # None
        PROVE  mode = "app"
    <3>1. CASE App(d) = <<q.registry, q.id>>
      BY <2>1, <3>1 DEF App
    <3>2. CASE App(d) # <<q.registry, q.id>>
      <4>1. daemons'[App(d)] = daemons[App(d)]
        BY <1>3, <3>2 DEF RegisterInsert, TypeOK, App, Keys, Registries
      <4>2. QED
        BY <1>0, <2>2, <4>1
    <3>3. QED
      BY <3>1, <3>2
  <2>3. QED
    BY <1>0, <1>3, <2>1, <2>2 DEF RegisterInsert
<1>4. ASSUME NEW k \in Keys, StartDaemon(k)
      PROVE  ServedRegistry'
  BY <1>0, <1>1, <1>4 DEF StartDaemon, TypeOK
<1>5. ASSUME NEW k \in Keys, StopDaemon(k)
      PROVE  ServedRegistry'
  BY <1>0, <1>1, <1>5 DEF StopDaemon, Pause, TypeOK
<1>6. ASSUME NEW t \in Tasks,
             \/ TaskLookup(t) \/ TaskTick(t) \/ TaskPoll(t) \/ RunUnwinds(t)
      PROVE  ServedRegistry'
  BY <1>1, <1>6 DEF TaskLookup, TaskTick, TaskPoll, LoopBody, RunUnwinds
<1>7. ASSUME NEW t \in Tasks, RunReturns(t)
      PROVE  ServedRegistry'
  <2>1. App(polls[t]) \in Keys /\ daemons[App(polls[t])] \in Entry
    BY <1>7, RunningEntry DEF RunReturns
  <2>2. daemons[App(polls[t])] # None
    BY <2>1, DaemonsAssumption
  <2>3. ASSUME NEW d \in Ids, daemons'[App(d)] # None
        PROVE  daemons[App(d)] # None
    <3>1. CASE App(d) = App(polls[t])
      BY <2>2, <3>1
    <3>2. CASE App(d) # App(polls[t])
      <4>1. daemons'[App(d)] = daemons[App(d)]
        BY <1>0, <1>7, <3>2 DEF RunReturns, TypeOK, App, Keys, Registries
      <4>2. QED
        BY <2>3, <4>1
    <3>3. QED
      BY <3>1, <3>2
  <2>4. mode' = mode /\ registering' \subseteq registering
    BY <1>7 DEF RunReturns
  <2>5. QED
    BY <1>1, <2>3, <2>4
<1>8. CASE Elapse
  <2>1. \A d \in Ids : daemons'[App(d)] # None => daemons[App(d)] # None
    BY <1>8 DEF Elapse, SoonerOpt, App, Keys, Registries
  <2>2. \A q \in registering' : q.registry = mode'
    <3>1. \A q \in registering : [q EXCEPT !.entry = Sooner(q.entry)].registry = mode
      BY <1>0 DEF TypeOK
    <3>2. QED
      BY <1>8, <3>1 DEF Elapse
  <2>3. QED
    BY <1>0, <1>8, <2>1, <2>2 DEF Elapse
<1>9. CASE Save
  BY <1>1, <1>9 DEF Save
<1>10. CASE Restart
  BY <1>10 DEF Restart, App, Keys, Registries
<1>11. CASE UNCHANGED vars
  BY <1>1, <1>11 DEF vars
<1>12. QED
  BY <1>dropped, <1>2, <1>3, <1>4, <1>5, <1>6, <1>7, <1>8, <1>9, <1>10, <1>11
     DEF Next, Handlers, TaskStep

\* The inductive invariant holds of the initial state and of every other.
THEOREM InductiveInvariant == Spec => []IInv
<1>1. Init => IInv
  BY DaemonsAssumption DEF Init, IInv, TypeOK, LockHeld, LiveTasksPoll, RunsOnlyUnpaused,
     ServedRegistry, Live, InRun, Phases, App, Keys, Registries
<1>2. IInv /\ [Next]_vars => IInv'
  BY TypeStep, TasksStep, RunsStep, ServedStep DEF IInv
<1>3. QED
  BY <1>1, <1>2, PTL DEF Spec

\* Type correctness of the registries, the tasks and the lock (daemon.rs,
\* routes/daemon_routes.rs), for every number of ids and tasks.
THEOREM TypeCorrect == Spec => []TypeOK
<1>1. IInv => TypeOK
  BY DEF IInv
<1>2. QED
  BY <1>1, InductiveInvariant, PTL

\* At most one daemon runs at any moment (daemon.rs:365-377): a run holds the
\* write lock of AppState.daemons from its begin to its end.
THEOREM MutualExclusion == Spec => []OneRunAtATime
<1>1. IInv => OneRunAtATime
  BY DEF IInv, LockHeld, OneRunAtATime
<1>2. QED
  BY <1>1, InductiveInvariant, PTL

\* A daemon is never paused, removed or replaced while it is being run, so a
\* run's last write cannot undo a pause (daemon.rs:266, 304).
THEOREM NoRunOfPaused == Spec => []RunsOnlyUnpaused
<1>1. IInv => RunsOnlyUnpaused
  BY DEF IInv
<1>2. QED
  BY <1>1, InductiveInvariant, PTL

\* No abort ever stops a run half way (daemon.rs:307, 336): a task leaves a
\* run by returning, by unwinding or with the whole process.
THEOREM NoRunAborted == Spec => RunsNeverAborted
<1>1. ASSUME IInv, [Next]_vars, NEW t \in Tasks, InRun(t), ~InRun(t)'
      PROVE  RunReturns(t) \/ RunUnwinds(t) \/ Restart
  <2>0. TypeOK
    BY <1>1 DEF IInv
  <2>1. ASSUME NEW d \in Ids, NEW c \in Configs, RegisterSpawn(d, c)
        PROVE  FALSE
    BY <1>1, <2>0, <2>1, DaemonsAssumption
       DEF RegisterSpawn, Switch, FreeTasks, Live, InRun, TypeOK
  <2>dropped. ASSUME NEW q \in registering, RegisterDropped(q)
        PROVE  FALSE
    BY <1>1, <2>dropped DEF RegisterDropped, InRun
  <2>2. ASSUME NEW q \in registering, RegisterInsert(q)
        PROVE  FALSE
    BY <1>1, <2>2 DEF RegisterInsert, InRun
  <2>3. ASSUME NEW k \in Keys, StartDaemon(k)
        PROVE  FALSE
    BY <1>1, <2>3, HandlersMeetNoRun DEF StartDaemon
  <2>4. ASSUME NEW k \in Keys, StopDaemon(k)
        PROVE  FALSE
    BY <1>1, <2>4, HandlersMeetNoRun DEF StopDaemon
  <2>5. ASSUME NEW s \in Tasks, TaskLookup(s) \/ TaskTick(s) \/ TaskPoll(s)
        PROVE  FALSE
    BY <1>1, <2>0, <2>5 DEF TaskLookup, TaskTick, TaskPoll, LoopBody, TaskExits, InRun, TypeOK
  <2>6. ASSUME NEW s \in Tasks, RunReturns(s) \/ RunUnwinds(s)
        PROVE  s = t
    BY <1>1, <2>0, <2>6 DEF RunReturns, RunUnwinds, TaskExits, InRun, TypeOK
  <2>7. CASE Elapse \/ Save \/ UNCHANGED vars
    BY <1>1, <2>7 DEF Elapse, Save, vars, InRun
  <2>8. QED
    BY <2>dropped, <1>1, <2>1, <2>2, <2>3, <2>4, <2>5, <2>6, <2>7 DEF Next, Handlers, TaskStep
<1>2. IInv /\ [Next]_vars =>
        [\A t \in Tasks : InRun(t) /\ ~InRun(t)' =>
            RunReturns(t) \/ RunUnwinds(t) \/ Restart]_vars
  BY <1>1
<1>3. QED
  BY <1>2, InductiveInvariant, PTL DEF Spec, RunsNeverAborted
------------------------------------------------------------------------------
(* The status and the count of errors *)

\* The status of an entry tells its error count.
Tells(e) ==
    /\ e.status = "Error" => e.error_count >= ErrorThreshold
    /\ e.status = "Active" => e.error_count < ErrorThreshold

\* Entries in the registries, in the state file and of requests under way: a
\* restart loads the second, an insertion takes the third.
AllTell ==
    /\ \A k \in Keys : daemons[k] # None => Tells(daemons[k])
    /\ \A d \in Ids : saved[d] # None => Tells(saved[d])
    /\ \A q \in registering : Tells(q.entry)

\* Whatever is done to an entry keeps its status and its count together.
LEMMA UpdatesTell ==
    ASSUME NEW e \in Entry
    PROVE  /\ Tells(AfterOk(e))
           /\ Tells(e) => Tells(AfterErr(e)) /\ Tells(Sooner(e))
           /\ \A h \in Tasks \cup {None} :
                 /\ Tells([e EXCEPT !.status = ResumedStatus(e), !.handle = h])
                 /\ Tells([e EXCEPT !.status = "Paused", !.handle = h])
                 /\ Tells(e) => Tells([e EXCEPT !.handle = h])
<1> USE DEF Tells
<1>1. Tells(AfterOk(e))
  BY DEF AfterOk, Entry
<1>2. ASSUME Tells(e) PROVE Tells(AfterErr(e))
  <2> DEFINE n == BumpError(e.error_count)
             st == IF n >= ErrorThreshold THEN "Error" ELSE e.status
  <2>1. n \in Nat /\ (e.error_count >= ErrorThreshold => n >= ErrorThreshold)
    BY DaemonsAssumption DEF BumpError, Entry
  <2>2. AfterErr(e).error_count = n /\ AfterErr(e).status = st
    BY DEF AfterErr, Entry
  <2>3. /\ st = "Error" => n >= ErrorThreshold
        /\ st = "Active" => ~(n >= ErrorThreshold)
    BY <1>2, <2>1
  <2> HIDE DEF n, st
  <2> QED
    BY <2>1, <2>2, <2>3
<1>3. ASSUME Tells(e) PROVE Tells(Sooner(e))
  BY <1>3 DEF Sooner, Entry
<1>4. ASSUME NEW h \in Tasks \cup {None}
      PROVE  /\ Tells([e EXCEPT !.status = ResumedStatus(e), !.handle = h])
             /\ Tells([e EXCEPT !.status = "Paused", !.handle = h])
             /\ Tells(e) => Tells([e EXCEPT !.handle = h])
  BY DEF ResumedStatus, Entry
<1> QED
  BY <1>1, <1>2, <1>3, <1>4

\* Every step keeps all statuses and counts together.
LEMMA TellStep == IInv /\ AllTell /\ [Next]_vars => AllTell'
<1> SUFFICES ASSUME IInv, AllTell, [Next]_vars PROVE AllTell'
  OBVIOUS
<1> USE DEF AllTell
<1>0. TypeOK
  BY DEF IInv
<1> USE DaemonsAssumption
\* One entry of the registries changes, the file and the requests do not.
<1>1. ASSUME NEW k \in Keys, NEW e, Tells(e), daemons' = [daemons EXCEPT ![k] = e],
             saved' = saved, registering' \subseteq registering
      PROVE  AllTell'
  BY <1>0, <1>1 DEF TypeOK
<1>2. ASSUME daemons' = daemons, saved' = saved, registering' = registering
      PROVE  AllTell'
  BY <1>2
<1>3. ASSUME NEW d \in Ids, NEW c \in Configs, RegisterSpawn(d, c)
      PROVE  AllTell'
  <2>1. \A t : Tells(NewDaemon(c, t))
    BY DEF NewDaemon, Tells
  <2> QED
    BY <1>3, <2>1 DEF RegisterSpawn
<1>dropped. ASSUME NEW q \in registering, RegisterDropped(q)
      PROVE  AllTell'
  BY <1>dropped DEF RegisterDropped
<1>4. ASSUME NEW q \in registering, RegisterInsert(q)
      PROVE  AllTell'
  <2>1. <<q.registry, q.id>> \in Keys
    BY <1>0 DEF TypeOK, Keys
  <2> QED
    BY <1>1, <1>4, <2>1 DEF RegisterInsert
<1>5. ASSUME NEW k \in Keys, StartDaemon(k)
      PROVE  AllTell'
  <2>1. PICK t \in FreeTasks :
           daemons' = [daemons EXCEPT ![k] =
              [@ EXCEPT !.status = ResumedStatus(daemons[k]), !.handle = t]]
    BY <1>5 DEF StartDaemon
  <2>2. daemons[k] \in Entry /\ t \in Tasks
    BY <1>0, <1>5 DEF StartDaemon, TypeOK, FreeTasks
  <2>3. Tells([daemons[k] EXCEPT !.status = ResumedStatus(daemons[k]), !.handle = t])
    BY <2>2, UpdatesTell
  <2>4. daemons' = [daemons EXCEPT ![k] =
           [daemons[k] EXCEPT !.status = ResumedStatus(daemons[k]), !.handle = t]]
    BY <1>0, <2>1 DEF TypeOK
  <2> QED
    BY <1>1, <1>5, <2>3, <2>4 DEF StartDaemon
<1>6. ASSUME NEW k \in Keys, StopDaemon(k)
      PROVE  AllTell'
  <2>1. daemons[k] \in Entry
    BY <1>0, <1>6 DEF StopDaemon, Pause, TypeOK
  <2>2. Tells([daemons[k] EXCEPT !.status = "Paused", !.handle = None])
    BY <2>1, UpdatesTell
  <2>3. daemons' = [daemons EXCEPT ![k] =
           [daemons[k] EXCEPT !.status = "Paused", !.handle = None]]
    BY <1>0, <1>6 DEF StopDaemon, Pause, TypeOK
  <2> QED
    BY <1>1, <1>6, <2>2, <2>3 DEF StopDaemon, Pause
<1>7. ASSUME NEW t \in Tasks,
             TaskLookup(t) \/ TaskTick(t) \/ TaskPoll(t) \/ RunUnwinds(t)
      PROVE  AllTell'
  BY <1>2, <1>7 DEF TaskLookup, TaskTick, TaskPoll, LoopBody, RunUnwinds
<1>8. ASSUME NEW t \in Tasks, RunReturns(t)
      PROVE  AllTell'
  <2> DEFINE k == App(polls[t])
  <2>1. k \in Keys /\ daemons[k] \in Entry
    BY <1>8, RunningEntry DEF RunReturns
  <2>2. Tells(AfterOk(daemons[k])) /\ Tells(AfterErr(daemons[k]))
    BY <2>1, UpdatesTell
  <2>3. \/ daemons' = [daemons EXCEPT ![k] = AfterOk(daemons[k])]
        \/ daemons' = [daemons EXCEPT ![k] = AfterErr(daemons[k])]
        \/ daemons' = daemons
    BY <1>8 DEF RunReturns
  <2>4. saved' = saved /\ registering' = registering
    BY <1>8 DEF RunReturns
  <2> HIDE DEF k
  <2> QED
    BY <1>1, <1>2, <2>1, <2>2, <2>3, <2>4
<1>9. CASE Elapse
  <2>1. ASSUME NEW k \in Keys, daemons'[k] # None
        PROVE  Tells(daemons'[k])
    <3>1. daemons[k] \in Entry /\ daemons'[k] = Sooner(daemons[k])
      BY <1>0, <1>9, <2>1 DEF Elapse, SoonerOpt, TypeOK
    <3> QED
      BY <3>1, UpdatesTell
  <2>2. ASSUME NEW d \in Ids, saved'[d] # None
        PROVE  Tells(saved'[d])
    <3>1. saved[d] \in Entry /\ saved'[d] = Sooner(saved[d])
      BY <1>0, <1>9, <2>2 DEF Elapse, SoonerOpt, TypeOK
    <3> QED
      BY <3>1, UpdatesTell
  <2>3. ASSUME NEW q \in registering'
        PROVE  Tells(q.entry)
    <3>1. PICK p \in registering : q = [p EXCEPT !.entry = Sooner(p.entry)]
      BY <1>9, <2>3 DEF Elapse
    <3>2. p.entry \in Entry /\ q.entry = Sooner(p.entry)
      BY <1>0, <3>1 DEF TypeOK
    <3> QED
      BY <3>2, UpdatesTell
  <2> QED
    BY <2>1, <2>2, <2>3
<1>10. CASE Save
  <2>1. ASSUME NEW d \in Ids, saved'[d] # None
        PROVE  Tells(saved'[d])
    <3>1. /\ Tenant(d) \in Keys
          /\ daemons[Tenant(d)] # None
          /\ saved'[d] = [daemons[Tenant(d)] EXCEPT !.handle = None]
      BY <1>10, <2>1 DEF Save, Tenant, Keys, Registries
    <3>2. daemons[Tenant(d)] \in Entry /\ Tells(daemons[Tenant(d)])
      BY <1>0, <3>1 DEF TypeOK
    <3>3. Tells([daemons[Tenant(d)] EXCEPT !.handle = None])
      BY <3>2, UpdatesTell
    <3> QED
      BY <3>1, <3>3
  <2> QED
    BY <1>10, <2>1 DEF Save
<1>11. CASE Restart
  BY <1>11 DEF Restart, Keys
<1>12. CASE UNCHANGED vars
  BY <1>2, <1>12 DEF vars
<1> QED
  BY <1>dropped, <1>3, <1>4, <1>5, <1>6, <1>7, <1>8, <1>9, <1>10, <1>11, <1>12
     DEF Next, Handlers, TaskStep

\* The status tells the count of errors in every state, whatever runs, pauses,
\* resumes, registrations, saves and restarts came before (daemon.rs:268, 278,
\* 319).
THEOREM StatusIsTold == Spec => []StatusTellsErrors
<1>1. Init => AllTell
  BY DEF Init, AllTell
<1>2. AllTell => StatusTellsErrors
  BY DEF AllTell, Tells, StatusTellsErrors
<1>3. QED
  BY <1>1, <1>2, TellStep, InductiveInvariant, PTL DEF Spec
------------------------------------------------------------------------------
(* Who can abort a task *)

\* The task whose handle an entry or a request under way holds polls the id of
\* that entry for as long as it lives: routes/daemon_routes.rs, daemon.rs:336.
HandlesPoll ==
    /\ \A k \in Keys, t \in Tasks : HandledBy(k) = t /\ Live(t) => polls[t] = k[2]
    /\ \A q \in registering, t \in Tasks :
          q.entry.handle = t /\ Live(t) => polls[t] = q.id

\* A step that leaves handles where they are, and spawns nobody.
LEMMA HandlesStay ==
    ASSUME HandlesPoll,
           \A k \in Keys : HandledBy(k)' \in Tasks => HandledBy(k)' = HandledBy(k),
           \A q \in registering' : \E p \in registering :
               q.id = p.id /\ q.entry.handle = p.entry.handle,
           \A t \in Tasks : Live(t)' => Live(t) /\ polls'[t] = polls[t]
    PROVE  HandlesPoll'
BY DEF HandlesPoll

\* The end of a run leaves the handles of all entries as they are.
LEMMA RunKeepsHandles ==
    ASSUME IInv, NEW t \in Tasks, RunReturns(t)
    PROVE  \A k \in Keys : HandledBy(k)' = HandledBy(k)
<1> DEFINE k == App(polls[t])
<1>1. k \in Keys /\ daemons[k] \in Entry
  BY RunningEntry DEF RunReturns
<1>2. /\ AfterOk(daemons[k]) \in Entry /\ AfterOk(daemons[k]).handle = daemons[k].handle
      /\ AfterErr(daemons[k]) \in Entry /\ AfterErr(daemons[k]).handle = daemons[k].handle
  BY <1>1, EntryUpdates DEF AfterOk, AfterErr, Entry
<1>3. \/ daemons' = [daemons EXCEPT ![k] = AfterOk(daemons[k])]
      \/ daemons' = [daemons EXCEPT ![k] = AfterErr(daemons[k])]
      \/ daemons' = daemons
  BY DEF RunReturns
<1>4. daemons \in [Keys -> Entry \cup {None}] /\ None \notin Entry
  BY DaemonsAssumption DEF IInv, TypeOK
<1> HIDE DEF k
<1> QED
  BY <1>1, <1>2, <1>3, <1>4 DEF HandledBy

\* So does the passing of time, also for those of requests under way.
LEMMA TimeKeepsHandles ==
    ASSUME IInv, Elapse
    PROVE  /\ \A k \in Keys : HandledBy(k)' = HandledBy(k)
           /\ \A q \in registering' : \E p \in registering :
                 q.id = p.id /\ q.entry.handle = p.entry.handle
           /\ \A p \in registering : \E q \in registering' :
                 q.id = p.id /\ q.entry.handle = p.entry.handle
<1>0. TypeOK /\ None \notin Entry
  BY DaemonsAssumption DEF IInv
<1>1. \A e \in Entry : Sooner(e) \in Entry /\ Sooner(e).handle = e.handle
  BY EntryUpdates DEF Sooner, Entry
<1>2. ASSUME NEW k \in Keys PROVE HandledBy(k)' = HandledBy(k)
  <2>1. daemons[k] \in Entry \cup {None} /\ daemons'[k] = SoonerOpt(daemons[k])
    BY <1>0 DEF Elapse, TypeOK
  <2> QED
    BY <1>0, <1>1, <2>1 DEF HandledBy, SoonerOpt
<1>3. ASSUME NEW p \in registering
      PROVE  /\ [p EXCEPT !.entry = Sooner(p.entry)].id = p.id
             /\ [p EXCEPT !.entry = Sooner(p.entry)].entry.handle = p.entry.handle
  BY <1>0, <1>1 DEF TypeOK
<1>4. registering' = { [p EXCEPT !.entry = Sooner(p.entry)] : p \in registering }
  BY DEF Elapse
<1> QED
  BY <1>2, <1>3, <1>4

\* Every step keeps it.
LEMMA HandlesStep == IInv /\ HandlesPoll /\ [Next]_vars => HandlesPoll'
<1> SUFFICES ASSUME IInv, HandlesPoll, [Next]_vars PROVE HandlesPoll'
  OBVIOUS
<1>0. TypeOK
  BY DEF IInv
<1> USE DaemonsAssumption
<1>1. ASSUME NEW d \in Ids, NEW c \in Configs, RegisterSpawn(d, c)
      PROVE  HandlesPoll'
  <2>1. PICK t \in FreeTasks :
           /\ registering' = registering \cup
                {[registry |-> mode, id |-> d, entry |-> NewDaemon(c, t)]}
           /\ Switch(None, t, d)
    BY <1>1 DEF RegisterSpawn
  <2>2. /\ t \in Tasks
        /\ \A k \in Keys : HandledBy(k) # t
        /\ \A q \in registering : q.entry.handle # t
    BY DEF FreeTasks
  <2>3. \A s \in Tasks : s # t => Live(s)' = Live(s) /\ polls'[s] = polls[s]
    BY <1>0, <2>1 DEF Switch, Live, TypeOK
  <2>4. polls'[t] = d /\ NewDaemon(c, t).handle = t
    BY <2>1, <2>2 DEF Switch, NewDaemon
  <2>5. \A k \in Keys : HandledBy(k)' = HandledBy(k)
    BY <1>1 DEF RegisterSpawn, HandledBy
  <2> QED
    BY <2>1, <2>2, <2>3, <2>4, <2>5 DEF HandlesPoll
<1>dropped. ASSUME NEW q \in registering, RegisterDropped(q)
      PROVE  HandlesPoll'
  BY <1>0, <1>dropped, HandlesStay DEF RegisterDropped, HandledBy, Live
<1>2. ASSUME NEW q \in registering, RegisterInsert(q)
      PROVE  HandlesPoll'
  <2>1. <<q.registry, q.id>> \in Keys /\ q.entry \in Entry
    BY <1>0 DEF TypeOK, Keys
  <2>2. ASSUME NEW k \in Keys
        PROVE  HandledBy(k)' = IF k = <<q.registry, q.id>> THEN q.entry.handle ELSE HandledBy(k)
    BY <1>0, <1>2, <2>1 DEF RegisterInsert, HandledBy, TypeOK
  <2>3. \A t \in Tasks : Live(t)' = Live(t) /\ polls'[t] = polls[t]
    BY <1>2 DEF RegisterInsert, Live
  <2> QED
    BY <1>2, <2>2, <2>3 DEF HandlesPoll, RegisterInsert
<1>3. ASSUME NEW k \in Keys, StartDaemon(k)
      PROVE  HandlesPoll'
  <2>1. PICK t \in FreeTasks :
           /\ daemons' = [daemons EXCEPT ![k] =
                 [@ EXCEPT !.status = ResumedStatus(daemons[k]), !.handle = t]]
           /\ Switch(daemons[k].handle, t, k[2])
    BY <1>3 DEF StartDaemon
  <2>2. /\ t \in Tasks
        /\ \A j \in Keys : HandledBy(j) # t
        /\ \A q \in registering : q.entry.handle # t
    BY DEF FreeTasks
  <2>3. daemons[k] \in Entry
    BY <1>0, <1>3 DEF StartDaemon, TypeOK
  <2>4. \A s \in Tasks : s # t /\ Live(s)' => Live(s) /\ polls'[s] = polls[s]
    BY <1>0, <2>1 DEF Switch, Live, TypeOK
  <2>5. polls'[t] = k[2]
    BY <2>1, <2>2 DEF Switch
  <2>6. daemons'[k] \in Entry /\ daemons'[k].handle = t
    <3>1. daemons'[k] = [daemons[k] EXCEPT !.status = ResumedStatus(daemons[k]), !.handle = t]
      BY <1>0, <2>1 DEF TypeOK
    <3>2. ResumedStatus(daemons[k]) \in Statuses
      BY DEF ResumedStatus, Statuses
    <3> QED
      BY <2>2, <2>3, <3>1, <3>2 DEF Entry
  <2>7. \A j \in Keys : HandledBy(j)' = IF j = k THEN t ELSE HandledBy(j)
    BY <1>0, <2>1, <2>6 DEF HandledBy, TypeOK
  <2>8. registering' = registering
    BY <1>3 DEF StartDaemon
  <2> QED
    BY <2>2, <2>4, <2>5, <2>7, <2>8 DEF HandlesPoll
<1>4. ASSUME NEW k \in Keys, StopDaemon(k)
      PROVE  HandlesPoll'
  <2>1. daemons[k] \in Entry
    BY <1>0, <1>4 DEF StopDaemon, Pause, TypeOK
  <2>2. \A s \in Tasks : Live(s)' => Live(s) /\ polls'[s] = polls[s]
    BY <1>0, <1>4 DEF StopDaemon, Pause, Switch, Live, TypeOK
  <2>3. daemons'[k].handle = None
    BY <1>0, <1>4, <2>1 DEF StopDaemon, Pause, TypeOK, Entry
  <2>4. \A j \in Keys : HandledBy(j)' \in Tasks => HandledBy(j)' = HandledBy(j)
    BY <1>0, <1>4, <2>3 DEF StopDaemon, Pause, HandledBy, TypeOK
  <2>5. registering' = registering
    BY <1>4 DEF StopDaemon, Pause
  <2> QED
    BY <2>2, <2>4, <2>5, HandlesStay
<1>5. ASSUME NEW t \in Tasks,
             TaskLookup(t) \/ TaskTick(t) \/ TaskPoll(t) \/ RunUnwinds(t)
      PROVE  HandlesPoll'
  <2>1. \A s \in Tasks : Live(s)' => Live(s) /\ polls'[s] = polls[s]
    BY <1>0, <1>5 DEF TaskLookup, TaskTick, TaskPoll, LoopBody, RunUnwinds, TaskExits,
       InRun, Live, TypeOK
  <2>2. daemons' = daemons /\ registering' = registering
    BY <1>5 DEF TaskLookup, TaskTick, TaskPoll, LoopBody, RunUnwinds
  <2> QED
    BY <2>1, <2>2, HandlesStay DEF HandledBy
<1>6. ASSUME NEW t \in Tasks, RunReturns(t)
      PROVE  HandlesPoll'
  <2>1. \A s \in Tasks : Live(s)' => Live(s) /\ polls'[s] = polls[s]
    BY <1>0, <1>6 DEF RunReturns, InRun, Live, TypeOK
  <2>2. \A k \in Keys : HandledBy(k)' = HandledBy(k)
    BY <1>6, RunKeepsHandles DEF RunReturns
  <2>3. registering' = registering
    BY <1>6 DEF RunReturns
  <2> QED
    BY <2>1, <2>2, <2>3, HandlesStay
<1>7. CASE Elapse
  <2>1. \A k \in Keys : HandledBy(k)' = HandledBy(k)
    BY <1>7, TimeKeepsHandles
  <2>2. \A q \in registering' : \E p \in registering :
           q.id = p.id /\ q.entry.handle = p.entry.handle
    BY <1>7, TimeKeepsHandles
  <2>3. \A s \in Tasks : Live(s)' = Live(s) /\ polls'[s] = polls[s]
    BY <1>7 DEF Elapse, Live
  <2> QED
    BY <2>1, <2>2, <2>3, HandlesStay
<1>8. CASE Save
  BY <1>8, HandlesStay DEF Save, HandledBy, Live
<1>9. CASE Restart
  BY <1>9 DEF Restart, HandlesPoll, Live
<1>10. CASE UNCHANGED vars
  BY <1>10, HandlesStay DEF vars, HandledBy, Live
<1> QED
  BY <1>dropped, <1>1, <1>2, <1>3, <1>4, <1>5, <1>6, <1>7, <1>8, <1>9, <1>10
     DEF Next, Handlers, TaskStep

\* The handles of all entries and requests are those of tasks that poll for
\* them, in every state.
LEMMA HandlesAlwaysPoll == Spec => []HandlesPoll
<1>1. Init => HandlesPoll
  BY DEF Init, HandlesPoll, Live
<1>2. QED
  BY <1>1, HandlesStep, InductiveInvariant, PTL DEF Spec

\* A live task is left without an owner by nothing but a registration: one that
\* replaces its entry, or its own, whose client is gone while it waits to
\* insert (routes/daemon_routes.rs:73). Neither a start nor a stop forgets a
\* task that runs on.
THEOREM NoTaskForgotten == Spec => OnlyRegisteringDetaches
<1> DEFINE Replaced(t) == \E q \in registering :
                             /\ q \notin registering'
                             /\ q.id = polls[t]
                             /\ daemons'[<<q.registry, q.id>>] = q.entry
           Gone(t) == \E q \in registering :
                         /\ q \notin registering'
                         /\ q.id = polls[t]
                         /\ q.entry.handle = t /\ daemons' = daemons
<1>1. ASSUME IInv, HandlesPoll, [Next]_vars, NEW t \in Tasks,
             Live(t), Live(t)', Owned(t), ~Owned(t)'
      PROVE  Replaced(t) \/ Gone(t)
  <2>0. TypeOK
    BY <1>1 DEF IInv
  <2> USE DaemonsAssumption
  <2>1. ASSUME \A k \in Keys : HandledBy(k) = t => HandledBy(k)' = t,
               \A p \in registering : p.entry.handle = t =>
                  \E q \in registering' : q.entry.handle = t
        PROVE  FALSE
    BY <1>1, <2>1 DEF Owned
  <2>2. ASSUME NEW d \in Ids, NEW c \in Configs, RegisterSpawn(d, c)
        PROVE  FALSE
    BY <2>1, <2>2 DEF RegisterSpawn, HandledBy
  <2>dropped. ASSUME NEW q \in registering, RegisterDropped(q)
        PROVE  Gone(t)
    <3>1. \A k \in Keys : HandledBy(k)' = HandledBy(k)
      BY <2>dropped DEF RegisterDropped, HandledBy
    <3>2. PICK p \in registering : p.entry.handle = t /\ p \notin registering'
      BY <1>1, <3>1 DEF Owned
    <3>3. p.id = polls[t]
      BY <1>1, <3>2 DEF HandlesPoll
    <3> QED
      BY <2>dropped, <3>2, <3>3 DEF RegisterDropped
  <2>3. ASSUME NEW q \in registering, RegisterInsert(q)
        PROVE  Replaced(t)
    <3>1. <<q.registry, q.id>> \in Keys /\ q.entry \in Entry
      BY <2>0 DEF TypeOK, Keys
    <3>2. daemons'[<<q.registry, q.id>>] = q.entry
      BY <2>0, <2>3, <3>1 DEF RegisterInsert, TypeOK
    <3>3. \A k \in Keys : k # <<q.registry, q.id>> => HandledBy(k)' = HandledBy(k)
      BY <2>0, <2>3, <3>1 DEF RegisterInsert, HandledBy, TypeOK
    <3>4. q.entry.handle # t
      BY <1>1, <3>1, <3>2 DEF Owned, HandledBy
    <3>5. PICK k \in Keys : HandledBy(k) = t /\ k = <<q.registry, q.id>>
      BY <1>1, <2>3, <3>3, <3>4 DEF Owned, RegisterInsert
    <3>6. polls[t] = q.id
      BY <1>1, <3>5 DEF HandlesPoll
    <3>7. q \notin registering'
      BY <2>3 DEF RegisterInsert
    <3> QED
      BY <3>2, <3>6, <3>7
  <2>4. ASSUME NEW k \in Keys, StartDaemon(k)
        PROVE  FALSE
    <3>1. PICK s \in FreeTasks :
             /\ daemons' = [daemons EXCEPT ![k] =
                   [@ EXCEPT !.status = ResumedStatus(daemons[k]), !.handle = s]]
             /\ Switch(daemons[k].handle, s, k[2])
      BY <2>4 DEF StartDaemon
    <3>2. s # t
      BY <1>1 DEF FreeTasks
    <3>3. daemons[k].handle # t
      BY <1>1, <3>1, <3>2 DEF Switch, Live
    <3>4. \A j \in Keys : HandledBy(j) = t => HandledBy(j)' = t
      BY <2>0, <2>4, <3>1, <3>3 DEF StartDaemon, HandledBy, TypeOK
    <3> QED
      BY <2>1, <2>4, <3>4 DEF StartDaemon
  <2>5. ASSUME NEW k \in Keys, StopDaemon(k)
        PROVE  FALSE
    <3>1. daemons[k].handle # t
      BY <1>1, <2>5 DEF StopDaemon, Pause, Switch, Live
    <3>2. \A j \in Keys : HandledBy(j) = t => HandledBy(j)' = t
      BY <2>0, <2>5, <3>1 DEF StopDaemon, Pause, HandledBy, TypeOK
    <3> QED
      BY <2>1, <2>5, <3>2 DEF StopDaemon, Pause
  <2>6. ASSUME NEW s \in Tasks,
               TaskLookup(s) \/ TaskTick(s) \/ TaskPoll(s) \/ RunUnwinds(s)
        PROVE  FALSE
    BY <2>1, <2>6 DEF TaskLookup, TaskTick, TaskPoll, LoopBody, RunUnwinds, HandledBy
  <2>7. ASSUME NEW s \in Tasks, RunReturns(s)
        PROVE  FALSE
    <3>1. registering' = registering
      BY <2>7 DEF RunReturns
    <3> QED
      BY <1>1, <2>1, <2>7, <3>1, RunKeepsHandles
  <2>8. CASE Elapse
    BY <1>1, <2>1, <2>8, TimeKeepsHandles
  <2>9. CASE Save
    BY <2>1, <2>9 DEF Save, HandledBy
  <2>10. CASE Restart
    BY <1>1, <2>10 DEF Restart, Live
  <2>11. CASE UNCHANGED vars
    BY <2>1, <2>11 DEF vars, HandledBy
  <2> HIDE DEF Replaced, Gone
  <2> QED
    BY <2>dropped, <1>1, <2>2, <2>3, <2>4, <2>5, <2>6, <2>7, <2>8, <2>9, <2>10, <2>11
       DEF Next, Handlers, TaskStep
<1>2. IInv /\ HandlesPoll /\ [Next]_vars =>
        [\A t \in Tasks : Live(t) /\ Live(t)' /\ Owned(t) /\ ~Owned(t)'
            => \E q \in registering :
                  /\ q \notin registering'
                  /\ q.id = polls[t]
                  /\ \/ daemons'[<<q.registry, q.id>>] = q.entry
                     \/ q.entry.handle = t /\ daemons' = daemons]_vars
  BY <1>1
<1>3. QED
  BY <1>2, InductiveInvariant, HandlesAlwaysPoll, PTL DEF Spec, OnlyRegisteringDetaches
==============================================================================
