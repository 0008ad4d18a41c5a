-------------------------- MODULE TenantLocksProofs --------------------------
(****************************************************************************)
(* Proofs about TenantLocks, for any number of tasks: a writer is alone,    *)
(* and tasks that take their locks in one order never wait for each other   *)
(* in a circle, although a lock is handed on in the order of its queue and  *)
(* a waiting writer holds up the readers behind it.                         *)
(*                                                                          *)
(* Neither is inductive.  What the locks are held for and who stands in the *)
(* queues follows from the steps of the sections: who holds a lock has      *)
(* taken it at an earlier step, and who stands in a queue is about to take  *)
(* that lock and stands there once.  Then of the tasks in a circle one is   *)
(* first in the queue of the last lock that any of them waits for.  It      *)
(* waits for who holds this lock, and that task for a later one still.      *)
(****************************************************************************)
EXTENDS TenantLocks, SequenceTheorems, WellFoundedInduction, TLAPS

Step == [do : {"read", "write", "free"}, lock : Locks] \cup {Answer}
Takes(a) == a.do \in {"read", "write"}

\* The section takes its locks in the order of their ranks.
Orderly(rank, section) ==
    \A i, j \in 1 .. Len(section) :
        i < j /\ Takes(section[i]) /\ Takes(section[j]) =>
            rank[section[i].lock] < rank[section[j].lock]

Shape ==
    /\ doing \in [Tasks -> Enabled \cup {None}]
    /\ step \in [Tasks -> Nat]
    /\ \A t \in Tasks :
          step[t] \in IF doing[t] = None THEN {1} ELSE 1 .. Len(Sections[doing[t]]) + 1
    /\ readers \in [Locks -> SUBSET Tasks]
    /\ writers \in [Locks -> SUBSET Tasks]
    /\ queue \in [Locks -> Seq(Tasks)]

\* Who holds a lock has taken it.
TakenBefore(t, l) ==
    /\ doing[t] # None
    /\ \E i \in 1 .. step[t] - 1 :
          LET a == Sections[doing[t]][i] IN Takes(a) /\ a.lock = l

HeldIsTaken == \A l \in Locks : \A t \in readers[l] \cup writers[l] : TakenBefore(t, l)

\* Who stands in a queue is about to take the lock, and stands there once.
TakesNext(t, l) ==
    /\ doing[t] # None /\ ~Over(t)
    /\ Takes(Coming(t)) /\ Coming(t).lock = l

QueuedTakesNext ==
    \A l \in Locks : \A i \in 1 .. Len(queue[l]) : TakesNext(queue[l][i], l)

QueuedOnce ==
    \A l \in Locks : \A i, j \in 1 .. Len(queue[l]) : queue[l][i] = queue[l][j] => i = j

LockInv == Shape /\ HeldIsTaken /\ QueuedTakesNext /\ QueuedOnce
------------------------------------------------------------------------------
(* Numbers *)

\* A set of natural numbers has a least one.
LEMMA Least ==
    ASSUME NEW T, T \subseteq Nat, T # {}
    PROVE  \E x \in T : \A y \in T : x <= y
<1> DEFINE R == { p \in Nat \X Nat : p[1] < p[2] }
<1>1. PICK x \in T : \A y \in T : <<y, x>> \notin OpToRel(<, Nat)
  BY NatLessThanWellFounded, WFMin
<1>2. OpToRel(<, Nat) = R
  BY Zenon DEF OpToRel
<1>3. \A y \in T : y < x => <<y, x>> \in R
  OBVIOUS
<1>4. \A y \in T : ~(y < x)
  BY <1>1, <1>2, <1>3
<1> QED
  BY <1>4
------------------------------------------------------------------------------
(* Sections *)

\* What sections are made of.
LEMMA StepsAre ==
    ASSUME NEW l \in Locks
    PROVE  Read(l) \in Step /\ Write(l) \in Step /\ Free(l) \in Step /\ Answer \in Step
BY DEF Read, Write, Free, Answer, Step

\* The section is orderly, and takes only locks of certain ranks.
Ranked(rank, section, lo, hi) ==
    /\ section \in Seq(Step)
    /\ Orderly(rank, section)
    /\ \A i \in 1 .. Len(section) :
          Takes(section[i]) => rank[section[i].lock] \in lo .. hi

\* A section in two parts is orderly when the second takes the later locks.
LEMMA RankedJoin ==
    ASSUME NEW rank, NEW a \in Nat, NEW b \in Nat, NEW c \in Nat, a <= b, b < c,
           NEW s1, Ranked(rank, s1, a, b), NEW s2, Ranked(rank, s2, b + 1, c)
    PROVE  Ranked(rank, s1 \o s2, a, c)
<1> USE DEF Ranked
<1> DEFINE s == s1 \o s2
           n == Len(s1)
<1>1. /\ s \in Seq(Step) /\ n \in Nat /\ Len(s2) \in Nat
      /\ Len(s) = n + Len(s2)
      /\ \A i \in 1 .. Len(s) : s[i] = IF i <= n THEN s1[i] ELSE s2[i - n]
  BY ConcatProperties, LenProperties
<1> HIDE DEF s, n
<1>2. \A i \in 1 .. Len(s) : Takes(s[i]) =>
         IF i <= n THEN rank[s[i].lock] \in a .. b ELSE rank[s[i].lock] \in (b + 1) .. c
  <2> SUFFICES ASSUME NEW i \in 1 .. Len(s), Takes(s[i])
               PROVE  IF i <= n THEN rank[s[i].lock] \in a .. b
                      ELSE rank[s[i].lock] \in (b + 1) .. c
    OBVIOUS
  <2>1. CASE i <= n
    BY <1>1, <2>1 DEF n
  <2>2. CASE i > n
    <3>1. i - n \in 1 .. Len(s2) /\ s[i] = s2[i - n]
      BY <1>1, <2>2
    <3> QED
      BY <1>1, <2>2, <3>1
  <2> QED
    BY <1>1, <2>1, <2>2
<1>3. ASSUME NEW i \in 1 .. Len(s), NEW j \in 1 .. Len(s), i < j,
             Takes(s[i]), Takes(s[j])
      PROVE  rank[s[i].lock] < rank[s[j].lock]
  <2>1. CASE j <= n
    BY <1>1, <1>3, <2>1 DEF Orderly, n
  <2>2. CASE i > n
    <3>1. /\ i - n \in 1 .. Len(s2) /\ j - n \in 1 .. Len(s2) /\ i - n < j - n
          /\ s[i] = s2[i - n] /\ s[j] = s2[j - n]
      BY <1>1, <1>3, <2>2
    <3> QED
      BY <1>3, <3>1 DEF Orderly
  <2>3. CASE i <= n /\ j > n
    BY <1>1, <1>2, <1>3, <2>3
  <2> QED
    BY <1>1, <2>1, <2>2, <2>3
<1>4. Orderly(rank, s)
  BY <1>3 DEF Orderly
<1>5. \A i \in 1 .. Len(s) : Takes(s[i]) => rank[s[i].lock] \in a .. c
  BY <1>2
<1> QED
  BY <1>1, <1>4, <1>5 DEF s

\* A brief use of a lock.
LEMMA RankedBriefly ==
    ASSUME NEW rank, NEW l \in Locks, NEW take \in {Read(l), Write(l)},
           NEW n \in Nat, rank[l] = n
    PROVE  Ranked(rank, Briefly(take), n, n)
<1>1. Briefly(take) = <<take, Free(l)>>
  BY DEF Briefly, Read, Write
<1>2. /\ take \in Step /\ Free(l) \in Step
      /\ take.lock = l /\ ~Takes(Free(l))
  <2>1. take \in Step /\ Free(l) \in Step
    BY StepsAre
  <2>2. take.lock = l /\ ~Takes(Free(l))
    BY DEF Read, Write, Free, Takes
  <2> QED
    BY <2>1, <2>2
<1> DEFINE s == <<take, Free(l)>>
<1>3. /\ s \in Seq(Step) /\ Len(s) = 2
      /\ s[1] = take /\ ~Takes(s[2])
  <2>1. /\ s \in Seq(Step) /\ Len(s) = 2
        /\ s[1] = take /\ s[2] = Free(l)
    BY <1>2
  <2> QED
    BY <1>2, <2>1
<1> HIDE DEF s
<1>4. \A i \in 1 .. Len(s) : Takes(s[i]) => i = 1
  BY <1>3
<1>5. rank[s[1].lock] \in n .. n
  BY <1>2, <1>3
<1>6. Ranked(rank, s, n, n)
  BY <1>3, <1>4, <1>5 DEF Ranked, Orderly
<1> QED
  BY <1>1, <1>6 DEF s

\* The order of the locks that all but four sections follow.
Order ==
    [l \in Locks |->
       IF l \in {"organizations", "user_plugin_refs"} THEN 1
       ELSE IF l \in {"user_pipeline_refs", "plugin_registry"} THEN 2
       ELSE IF l \in {"users", "org_pipelines", "org_daemons"} THEN 3
       ELSE IF l = "user_daemons" THEN 5 ELSE 4]

OutOfOrder ==
    {"user_register", "org_plugins_list", "get_user_created_plugins",
     "user_plugin_hash_by_name"}

\* Sections of at most five steps, written out.
LEMMA ShortSections ==
    /\ Ranked(Order, OrgAddUser, 1, 5)
    /\ Ranked(Order, OrgUsersList, 1, 5)
    /\ Ranked(Order, OrgPipelinesList, 1, 5)
    /\ Ranked(Order, OrgDaemonsList, 1, 5)
    /\ Ranked(Order, ApiKeys, 1, 5)
    /\ Ranked(Order, AuthenticateWithApiKey, 1, 5)
    /\ Ranked(Order, UserVisiblePlugins, 1, 5)
    /\ Ranked(Order, UserPipelinesList, 1, 5)
    /\ Ranked(Order, UserDaemonsList, 1, 5)
    /\ Ranked(Order, OrgRegister, 1, 5)
    /\ Ranked(Order, UserAddEnvVar, 1, 5)
    /\ Ranked(Order, RegisterPlugin, 1, 5)
    /\ Ranked(Order, SharePlugin, 1, 5)
    /\ Ranked(Order, ShowPlugin, 1, 5)
    /\ Ranked(Order, RegisterPipeline, 1, 5)
    /\ Ranked(Order, RegisterDaemon, 1, 5)
<1> USE DEF Ranked, Orderly, Takes, Order, Locks, Read, Write, Answer, Step
<1>1. Ranked(Order, OrgAddUser, 1, 5)
  BY DEF OrgAddUser
<1>2. Ranked(Order, OrgUsersList, 1, 5)
  BY DEF OrgUsersList
<1>3. Ranked(Order, OrgPipelinesList, 1, 5)
  BY DEF OrgPipelinesList
<1>4. Ranked(Order, OrgDaemonsList, 1, 5)
  BY DEF OrgDaemonsList
<1>5. Ranked(Order, ApiKeys, 1, 5) /\ Ranked(Order, AuthenticateWithApiKey, 1, 5)
  BY DEF ApiKeys, AuthenticateWithApiKey
<1>6. Ranked(Order, UserVisiblePlugins, 1, 5) /\ Ranked(Order, UserDaemonsList, 1, 5)
  BY DEF UserVisiblePlugins, UserDaemonsList
<1>7. Ranked(Order, UserPipelinesList, 1, 5)
  BY DEF UserPipelinesList
<1>8. /\ Ranked(Order, OrgRegister, 1, 5)
      /\ Ranked(Order, UserAddEnvVar, 1, 5)
      /\ Ranked(Order, RegisterPlugin, 1, 5)
      /\ Ranked(Order, SharePlugin, 1, 5)
      /\ Ranked(Order, ShowPlugin, 1, 5)
      /\ Ranked(Order, RegisterPipeline, 1, 5)
      /\ Ranked(Order, RegisterDaemon, 1, 5)
  BY DEF OrgRegister, UserAddEnvVar, RegisterPlugin, SharePlugin, ShowPlugin,
         RegisterPipeline, RegisterDaemon
<1> QED
  BY <1>1, <1>2, <1>3, <1>4, <1>5, <1>6, <1>7, <1>8

\* Sections that use a lock briefly while they hold others.
LEMMA LongSections ==
    /\ Ranked(Order, AddUserPlugin, 1, 4)
    /\ Ranked(Order, RemoveUserPlugin, 1, 4)
    /\ Ranked(Order, SharePipeline, 1, 3)
<1> USE DEF Takes, Order, Locks, Read, Write, Answer, Step
<1>1. Ranked(Order, AddUserPlugin, 1, 4)
  <2> DEFINE first == <<Write("user_plugin_refs"), Read("plugin_registry"), Answer,
                        Read("users"), Answer>>
  <2>1. Ranked(Order, first, 1, 3)
    BY DEF Ranked, Orderly
  <2> HIDE DEF first
  <2>2. Ranked(Order, Briefly(Write("org_plugin_refs")), 4, 4)
    BY RankedBriefly
  <2>3. Ranked(Order, first \o Briefly(Write("org_plugin_refs")), 1, 4)
    BY <2>1, <2>2, RankedJoin
  <2> QED
    BY <2>3 DEF first, AddUserPlugin
<1>2. Ranked(Order, RemoveUserPlugin, 1, 4)
  <2> DEFINE first == <<Read("organizations"), Read("users"), Answer>>
  <2>1. Ranked(Order, first, 1, 3)
    BY DEF Ranked, Orderly
  <2> HIDE DEF first
  <2>2. Ranked(Order, Briefly(Read("org_plugin_refs")), 4, 4)
    BY RankedBriefly
  <2>3. Ranked(Order, first \o Briefly(Read("org_plugin_refs")), 1, 4)
    BY <2>1, <2>2, RankedJoin
  <2> QED
    BY <2>3 DEF first, RemoveUserPlugin
<1>3. Ranked(Order, SharePipeline, 1, 3)
  <2> DEFINE first == <<Read("organizations"), Answer>>
             last == <<Answer, Write("org_pipelines")>>
             middle == Briefly(Read("user_pipeline_refs"))
  <2>1. Ranked(Order, first, 1, 1) /\ Ranked(Order, last, 3, 3)
    BY DEF Ranked, Orderly
  <2> HIDE DEF first, last
  <2>2. Ranked(Order, middle, 2, 2)
    BY RankedBriefly
  <2> HIDE DEF middle
  <2>3. Ranked(Order, first \o middle, 1, 2)
    BY <2>1, <2>2, RankedJoin
  <2>4. Ranked(Order, (first \o middle) \o last, 1, 3)
    BY <2>1, <2>3, RankedJoin
  <2> QED
    BY <2>4 DEF first, middle, last, SharePipeline
<1> QED
  BY <1>1, <1>2, <1>3

\* All but four sections follow the order, and all are sequences of steps.
LEMMA SectionsFollow ==
    ASSUME NEW section \in DOMAIN Sections
    PROVE  /\ Sections[section] \in Seq(Step)
           /\ section \notin OutOfOrder => Orderly(Order, Sections[section])
<1>1. CASE section \notin OutOfOrder
  BY SMTT(30), <1>1, ShortSections, LongSections DEF Sections, OutOfOrder, Ranked
<1>2. CASE section \in OutOfOrder
  <2>1. /\ OrgPluginsList \in Seq(Step)
        /\ UserCreatedPlugins \in Seq(Step)
        /\ UserPluginHashByName \in Seq(Step)
    BY DEF OrgPluginsList, UserCreatedPlugins, UserPluginHashByName,
           Locks, Read, Write, Answer, Step
  <2>2. UserRegister \in Seq(Step)
    <3>1. <<Write("users"), Answer, Read("organizations"), Answer>> \in Seq(Step)
      BY DEF Locks, Read, Write, Answer, Step
    <3>2. /\ Briefly(Write("user_plugin_refs")) \in Seq(Step)
          /\ Briefly(Write("user_visible_plugins")) \in Seq(Step)
      <4> SUFFICES ASSUME NEW l \in Locks PROVE Briefly(Write(l)) \in Seq(Step)
        BY DEF Locks
      <4>1. Briefly(Write(l)) = <<Write(l), Free(l)>>
        BY DEF Briefly, Write
      <4>2. Write(l) \in Step /\ Free(l) \in Step
        BY StepsAre
      <4> QED
        BY <4>1, <4>2
    <3> QED
      BY <3>1, <3>2, ConcatProperties DEF UserRegister
  <2> QED
    BY <1>2, <2>1, <2>2 DEF Sections, OutOfOrder
<1> QED
  BY <1>1, <1>2
------------------------------------------------------------------------------
(* Steps *)

\* What a task in a section knows of where it is.
LEMMA InSection ==
    ASSUME Shape, NEW t \in Tasks, doing[t] # None
    PROVE  /\ doing[t] \in Enabled /\ doing[t] \in DOMAIN Sections
           /\ Sections[doing[t]] \in Seq(Step)
           /\ Len(Sections[doing[t]]) \in Nat
           /\ step[t] \in 1 .. Len(Sections[doing[t]]) + 1
           /\ ~Over(t) => step[t] \in 1 .. Len(Sections[doing[t]]) /\ Coming(t) \in Step
<1>1. doing[t] \in Enabled /\ doing[t] \in DOMAIN Sections
  BY LocksAssumption DEF Shape
<1>2. Sections[doing[t]] \in Seq(Step) /\ Len(Sections[doing[t]]) \in Nat
  BY <1>1, SectionsFollow, LenProperties
<1>3. step[t] \in 1 .. Len(Sections[doing[t]]) + 1
  BY DEF Shape
<1>4. ~Over(t) => step[t] \in 1 .. Len(Sections[doing[t]])
  BY <1>2, <1>3 DEF Over
<1> QED
  BY <1>1, <1>2, <1>3, <1>4, ElementOfSeq DEF Coming

\* A task that is about to do something else stands in no queue.
LEMMA NotQueued ==
    ASSUME LockInv, NEW t \in Tasks, ~(doing[t] # None /\ ~Over(t) /\ Takes(Coming(t)))
    PROVE  \A l \in Locks : \A i \in 1 .. Len(queue[l]) : queue[l][i] # t
BY DEF LockInv, QueuedTakesNext, TakesNext

\* What a task has to do with locks and queues stays as it is when neither its
\* section nor its step changes.
LEMMA StaysThere ==
    ASSUME NEW t, doing'[t] = doing[t], step'[t] = step[t], NEW l
    PROVE  /\ TakenBefore(t, l) => TakenBefore(t, l)'
           /\ TakesNext(t, l) => TakesNext(t, l)'
BY DEF TakenBefore, TakesNext, Over, Coming

\* What was taken before stays taken when the task goes on.
LEMMA GoesOn ==
    ASSUME Shape, NEW t \in Tasks, doing[t] # None,
           doing'[t] = doing[t], step'[t] = step[t] + 1, NEW l
    PROVE  /\ TakenBefore(t, l) => TakenBefore(t, l)'
           /\ ~Over(t) /\ Takes(Coming(t)) /\ Coming(t).lock = l => TakenBefore(t, l)'
<1>1. step[t] \in Nat \ {0}
  BY InSection
<1> QED
  BY <1>1 DEF TakenBefore, Coming

\* A task t moves and the others stay; it stands in no queue, and holds no more
\* than it has taken.
LEMMA MoveKeeps ==
    ASSUME LockInv, Shape', NEW t \in Tasks,
           \A u \in Tasks \ {t} : doing'[u] = doing[u] /\ step'[u] = step[u],
           \A l \in Locks : \A i \in 1 .. Len(queue[l]) : queue[l][i] # t,
           UNCHANGED queue,
           \A l \in Locks : readers'[l] \subseteq readers[l] /\ writers'[l] \subseteq writers[l],
           \A l \in Locks : t \in readers'[l] \cup writers'[l] => TakenBefore(t, l)'
    PROVE  LockInv'
<1>1. HeldIsTaken'
  <2> SUFFICES ASSUME NEW l \in Locks, NEW u \in readers'[l] \cup writers'[l]
               PROVE  TakenBefore(u, l)'
    BY DEF HeldIsTaken
  <2>1. CASE u = t
    BY <2>1
  <2>2. CASE u # t
    <3>1. TakenBefore(u, l) /\ u \in Tasks
      BY DEF LockInv, HeldIsTaken, Shape
    <3> QED
      BY <2>2, <3>1, StaysThere
  <2> QED
    BY <2>1, <2>2
<1>2. QueuedTakesNext'
  <2> SUFFICES ASSUME NEW l \in Locks, NEW i \in 1 .. Len(queue[l])
               PROVE  TakesNext(queue[l][i], l)'
    BY DEF QueuedTakesNext
  <2>1. queue[l][i] # t /\ queue[l][i] \in Tasks
    BY ElementOfSeq DEF LockInv, Shape
  <2>2. TakesNext(queue[l][i], l)
    BY DEF LockInv, QueuedTakesNext
  <2> DEFINE u == queue[l][i]
  <2>3. TakesNext(u, l)'
    BY <2>1, <2>2, StaysThere
  <2> QED
    BY <2>3
<1>3. QueuedOnce'
  BY DEF LockInv, QueuedOnce
<1> QED
  BY <1>1, <1>2, <1>3 DEF LockInv

\* A section begins.
LEMMA BeginKeeps ==
    ASSUME LockInv, NEW t \in Tasks, NEW section \in Enabled, Begin(t, section)
    PROVE  LockInv'
<1>1. /\ doing[t] = None /\ doing' = [doing EXCEPT ![t] = section]
      /\ step' = [step EXCEPT ![t] = 1]
      /\ UNCHANGED readers /\ UNCHANGED writers /\ UNCHANGED queue
  BY DEF Begin
<1>2. section \in DOMAIN Sections /\ section # None
  BY LocksAssumption
<1>3. Len(Sections[section]) \in Nat
  BY <1>2, SectionsFollow, LenProperties
<1>4. Shape'
  BY <1>1, <1>2, <1>3 DEF LockInv, Shape
<1>5. \A u \in Tasks \ {t} : doing'[u] = doing[u] /\ step'[u] = step[u]
  BY <1>1 DEF LockInv, Shape
<1>6. \A l \in Locks : t \notin readers[l] \cup writers[l]
  BY <1>1 DEF LockInv, HeldIsTaken, TakenBefore
<1>7. \A l \in Locks : \A i \in 1 .. Len(queue[l]) : queue[l][i] # t
  BY <1>1, NotQueued
<1> QED
  BY <1>1, <1>4, <1>5, <1>6, <1>7, MoveKeeps

\* A task asks for its next lock, and stands at the end of the queue.
LEMMA AskKeeps ==
    ASSUME LockInv, NEW t \in Tasks, Ask(t)
    PROVE  LockInv'
<1> DEFINE k == Coming(t).lock
           n == Len(queue[k])
<1>1. /\ doing[t] # None /\ ~Over(t) /\ Takes(Coming(t)) /\ ~Waits(t)
      /\ queue' = [queue EXCEPT ![k] = Append(queue[k], t)]
      /\ UNCHANGED doing /\ UNCHANGED step /\ UNCHANGED readers /\ UNCHANGED writers
  BY DEF Ask, Comes, Takes
<1>2. k \in Locks
  <2>1. Coming(t) \in Step
    BY <1>1, InSection DEF LockInv
  <2> QED
    BY <1>1, <2>1 DEF Step, Takes, Answer
<1>3. queue \in [Locks -> Seq(Tasks)] /\ queue[k] \in Seq(Tasks) /\ n \in Nat
  BY <1>2 DEF LockInv, Shape
<1> HIDE DEF k, n
<1>4. /\ queue' \in [Locks -> Seq(Tasks)]
      /\ Len(queue'[k]) = n + 1 /\ queue'[k][n + 1] = t
      /\ \A i \in 1 .. n : queue'[k][i] = queue[k][i]
      /\ \A l \in Locks \ {k} : queue'[l] = queue[l]
  <2>1. queue'[k] = Append(queue[k], t)
    BY <1>1, <1>2, <1>3
  <2> QED
    BY <1>1, <1>2, <1>3, <2>1 DEF n
<1>5. Shape'
  BY <1>1, <1>4 DEF LockInv, Shape
<1>6. HeldIsTaken'
  BY <1>1 DEF LockInv, HeldIsTaken, TakenBefore
<1>7. \A u, l : TakesNext(u, l) => TakesNext(u, l)'
  BY <1>1 DEF TakesNext, Over, Coming
<1>8. TakesNext(t, k)
  BY <1>1 DEF TakesNext, k
<1>9. QueuedTakesNext'
  <2> SUFFICES ASSUME NEW l \in Locks, NEW i \in 1 .. Len(queue'[l])
               PROVE  TakesNext(queue'[l][i], l)
    BY <1>7 DEF QueuedTakesNext
  <2>1. CASE l = k /\ i = n + 1
    BY <1>4, <1>8, <2>1
  <2>2. CASE l # k \/ i # n + 1
    <3>1. i \in 1 .. Len(queue[l]) /\ queue'[l][i] = queue[l][i]
      BY <1>3, <1>4, <2>2 DEF n
    <3> QED
      BY <3>1 DEF LockInv, QueuedTakesNext
  <2> QED
    BY <2>1, <2>2
<1>10. \A l \in Locks : \A i \in 1 .. Len(queue[l]) : queue[l][i] # t
  <2>1. \A l \in Locks : queue[l] \in Seq(Tasks)
    BY <1>3
  <2>2. \A l \in Locks : DOMAIN queue[l] = 1 .. Len(queue[l])
    BY <2>1, LenProperties
  <2> QED
    BY <1>1, <2>2 DEF Waits, InQueue
<1>11. QueuedOnce'
  <2> SUFFICES ASSUME NEW l \in Locks, NEW i \in 1 .. Len(queue'[l]),
                      NEW j \in 1 .. Len(queue'[l]), queue'[l][i] = queue'[l][j]
               PROVE  i = j
    BY DEF QueuedOnce
  <2>1. CASE l # k
    BY <1>4, <2>1 DEF LockInv, QueuedOnce
  <2>2. CASE l = k
    <3>1. i \in 1 .. n + 1 /\ j \in 1 .. n + 1
      BY <1>4, <2>2
    <3>2. CASE i = n + 1 \/ j = n + 1
      BY <1>2, <1>3, <1>4, <1>10, <2>2, <3>1, <3>2 DEF n
    <3>3. CASE i # n + 1 /\ j # n + 1
      <4>1. i \in 1 .. n /\ j \in 1 .. n
        BY <1>3, <3>1, <3>3
      <4>2. queue[k][i] = queue[k][j]
        BY <1>4, <2>2, <4>1
      <4> QED
        BY <1>2, <4>1, <4>2 DEF LockInv, QueuedOnce, n
    <3> QED
      BY <3>2, <3>3
  <2> QED
    BY <2>1, <2>2
<1> QED
  BY <1>5, <1>6, <1>9, <1>11 DEF LockInv

\* A task drops one guard, or goes on without an answer.
LEMMA GoOnKeeps ==
    ASSUME LockInv, NEW t \in Tasks, Release(t) \/ GoOn(t)
    PROVE  LockInv'
<1>1. /\ doing[t] # None /\ ~Over(t) /\ Coming(t).do \in {"free", "answer"}
      /\ step' = [step EXCEPT ![t] = step[t] + 1]
      /\ UNCHANGED doing /\ UNCHANGED queue
  BY DEF Release, GoOn, Comes
<1>2. step[t] \in 1 .. Len(Sections[doing[t]]) /\ Len(Sections[doing[t]]) \in Nat
  BY <1>1, InSection DEF LockInv
<1>3. /\ readers' \in [Locks -> SUBSET Tasks] /\ writers' \in [Locks -> SUBSET Tasks]
      /\ \A l \in Locks : readers'[l] \subseteq readers[l] /\ writers'[l] \subseteq writers[l]
  <2> DEFINE k == Coming(t).lock
  <2>1. CASE Release(t)
    <3>1. /\ readers' = [readers EXCEPT ![k] = readers[k] \ {t}]
          /\ writers' = [writers EXCEPT ![k] = writers[k] \ {t}]
      BY <2>1 DEF Release
    <3>2. readers \in [Locks -> SUBSET Tasks] /\ writers \in [Locks -> SUBSET Tasks]
      BY DEF LockInv, Shape
    <3> HIDE DEF k
    <3> QED
      BY <3>1, <3>2
  <2>2. CASE GoOn(t)
    BY <2>2 DEF GoOn, LockInv, Shape
  <2> QED
    BY <2>1, <2>2
<1>4. step' \in [Tasks -> Nat] /\ step'[t] = step[t] + 1
  BY <1>1, <1>2 DEF LockInv, Shape
<1>5. \A u \in Tasks \ {t} : doing'[u] = doing[u] /\ step'[u] = step[u]
  BY <1>1 DEF LockInv, Shape
<1>6. Shape'
  BY <1>1, <1>2, <1>3, <1>4, <1>5 DEF LockInv, Shape
<1>7. \A l \in Locks : \A i \in 1 .. Len(queue[l]) : queue[l][i] # t
  BY <1>1, NotQueued DEF Takes
<1>8. \A l \in Locks : t \in readers'[l] \cup writers'[l] => TakenBefore(t, l)'
  <2> SUFFICES ASSUME NEW l \in Locks, t \in readers[l] \cup writers[l]
               PROVE  TakenBefore(t, l)'
    BY <1>3
  <2>1. TakenBefore(t, l)
    BY DEF LockInv, HeldIsTaken
  <2> QED
    BY <1>1, <1>4, <2>1, GoesOn DEF LockInv
<1> QED
  BY <1>1, <1>3, <1>5, <1>6, <1>7, <1>8, MoveKeeps

\* A section ends, and its task holds nothing.
LEMMA EndKeeps ==
    ASSUME LockInv, NEW t \in Tasks, End(t), doing[t] # None,
           Over(t) \/ Coming(t).do = "answer"
    PROVE  LockInv'
<1>1. /\ readers' = [l \in Locks |-> readers[l] \ {t}]
      /\ writers' = [l \in Locks |-> writers[l] \ {t}]
      /\ doing' = [doing EXCEPT ![t] = None]
      /\ step' = [step EXCEPT ![t] = 1]
      /\ UNCHANGED queue
  BY DEF End
<1>2. Shape'
  <2>1. /\ readers' \in [Locks -> SUBSET Tasks] /\ writers' \in [Locks -> SUBSET Tasks]
        /\ queue' \in [Locks -> Seq(Tasks)]
    BY <1>1 DEF LockInv, Shape
  <2>2. /\ doing' \in [Tasks -> Enabled \cup {None}] /\ step' \in [Tasks -> Nat]
        /\ doing'[t] = None /\ step'[t] = 1
        /\ \A u \in Tasks \ {t} : doing'[u] = doing[u] /\ step'[u] = step[u]
    BY <1>1 DEF LockInv, Shape
  <2> QED
    BY <2>1, <2>2 DEF LockInv, Shape
<1>3. \A u \in Tasks \ {t} : doing'[u] = doing[u] /\ step'[u] = step[u]
  BY <1>1 DEF LockInv, Shape
<1>4. \A l \in Locks : \A i \in 1 .. Len(queue[l]) : queue[l][i] # t
  BY NotQueued DEF Takes
<1>5. \A l \in Locks : readers'[l] = readers[l] \ {t} /\ writers'[l] = writers[l] \ {t}
  BY <1>1
<1> QED
  BY <1>1, <1>2, <1>3, <1>4, <1>5, MoveKeeps

\* The first in the queue gets the lock, and the others move up.
LEMMA GrantKeeps ==
    ASSUME LockInv, NEW k \in Locks, Grant(k)
    PROVE  LockInv'
<1> DEFINE n == Len(queue[k])
           t == queue[k][1]
<1>1. queue \in [Locks -> Seq(Tasks)] /\ queue[k] \in Seq(Tasks) /\ n \in Nat
  BY DEF LockInv, Shape
<1>2. 1 \in 1 .. n /\ t \in Tasks
  <2>1. 1 \in DOMAIN queue[k]
    BY DEF Grant, FirstOf
  <2> QED
    BY <1>1, <2>1, LenProperties, ElementOfSeq
<1>3. /\ queue' = [queue EXCEPT ![k] = SubSeq(queue[k], 1, 0) \o SubSeq(queue[k], 2, n)]
      /\ IF Coming(t).do = "read"
         THEN readers' = [readers EXCEPT ![k] = @ \cup {t}] /\ UNCHANGED writers
         ELSE writers' = [writers EXCEPT ![k] = {t}] /\ UNCHANGED readers
      /\ step' = [step EXCEPT ![t] = step[t] + 1]
      /\ UNCHANGED doing
  BY DEF Grant, FirstOf
<1>4. TakesNext(t, k) /\ doing[t] # None /\ ~Over(t)
  BY <1>2 DEF LockInv, QueuedTakesNext, TakesNext
<1>5. step[t] \in 1 .. Len(Sections[doing[t]]) /\ Len(Sections[doing[t]]) \in Nat
  BY <1>2, <1>4, InSection DEF LockInv
<1>6. /\ queue'[k] \in Seq(Tasks) /\ Len(queue'[k]) = n - 1
      /\ \A i \in 1 .. n - 1 : queue'[k][i] = queue[k][i + 1]
  <2>1. queue'[k] = SubSeq(queue[k], 1, 0) \o SubSeq(queue[k], 2, n)
    BY <1>1, <1>3
  <2>2. SubSeq(queue[k], 1, 0) = <<>>
    BY SubSeqEmpty
  <2>3. \A i \in 2 .. n : queue[k][i] \in Tasks
    BY <1>1, ElementOfSeq
  <2>4. /\ SubSeq(queue[k], 2, n) \in Seq(Tasks)
        /\ Len(SubSeq(queue[k], 2, n)) = n - 1
        /\ \A i \in 1 .. n - 1 : SubSeq(queue[k], 2, n)[i] = queue[k][i + 1]
    <3>1. /\ SubSeq(queue[k], 2, n) \in Seq(Tasks)
          /\ Len(SubSeq(queue[k], 2, n)) = IF 2 <= n THEN n - 2 + 1 ELSE 0
          /\ \A i \in 1 .. n - 2 + 1 : SubSeq(queue[k], 2, n)[i] = queue[k][2 + i - 1]
      <4>1. n \in Int /\ 2 \in Int
        BY <1>1
      <4> HIDE DEF n
      <4> QED
        BY <4>1, <2>3, SubSeqProperties
    <3>2. n - 2 + 1 = n - 1 /\ (~(2 <= n) => n - 1 = 0)
      <4>1. n \in Nat /\ 1 <= n
        BY <1>1, <1>2
      <4> HIDE DEF n
      <4> QED
        BY <4>1
    <3>3. \A i \in 1 .. n - 1 : SubSeq(queue[k], 2, n)[i] = queue[k][i + 1]
      <4> SUFFICES ASSUME NEW i \in 1 .. n - 1
                   PROVE  SubSeq(queue[k], 2, n)[i] = queue[k][i + 1]
        OBVIOUS
      <4>1. 2 + i - 1 = i + 1
        OBVIOUS
      <4> HIDE DEF n
      <4> QED
        BY <3>1, <3>2, <4>1
    <3>4. Len(SubSeq(queue[k], 2, n)) = n - 1
      <4> HIDE DEF n
      <4> QED
        BY <1>1, <3>1, <3>2
    <3> QED
      BY <3>1, <3>3, <3>4
  <2>5. queue'[k] = SubSeq(queue[k], 2, n)
    BY <2>1, <2>2, <2>4, ConcatEmptySeq
  <2> QED
    BY <2>4, <2>5
<1>7. \A l \in Locks \ {k} : queue'[l] = queue[l]
  BY <1>1, <1>3
<1> HIDE DEF n, t
<1>8. /\ step'[t] = step[t] + 1 /\ doing'[t] = doing[t]
      /\ step' \in [Tasks -> Nat]
      /\ \A u \in Tasks \ {t} : doing'[u] = doing[u] /\ step'[u] = step[u]
  BY <1>2, <1>3, <1>5 DEF LockInv, Shape
<1>9. /\ readers' \in [Locks -> SUBSET Tasks] /\ writers' \in [Locks -> SUBSET Tasks]
      /\ \A l \in Locks : readers'[l] \cup writers'[l] \subseteq
            readers[l] \cup writers[l] \cup (IF l = k THEN {t} ELSE {})
  <2>1. readers \in [Locks -> SUBSET Tasks] /\ writers \in [Locks -> SUBSET Tasks]
    BY DEF LockInv, Shape
  <2>2. CASE Coming(t).do = "read"
    <3>1. readers' = [readers EXCEPT ![k] = @ \cup {t}] /\ writers' = writers
      BY <1>3, <2>2
    <3> QED
      BY <1>2, <2>1, <3>1
  <2>3. CASE Coming(t).do # "read"
    <3>1. writers' = [writers EXCEPT ![k] = {t}] /\ readers' = readers
      BY <1>3, <2>3
    <3> QED
      BY <1>2, <2>1, <3>1
  <2> QED
    BY <2>2, <2>3
<1>10. queue' \in [Locks -> Seq(Tasks)]
  BY <1>1, <1>3, <1>6
<1>11. Shape'
  BY <1>3, <1>4, <1>5, <1>8, <1>9, <1>10 DEF LockInv, Shape
<1>12. HeldIsTaken'
  <2> SUFFICES ASSUME NEW l \in Locks, NEW u \in readers'[l] \cup writers'[l]
               PROVE  TakenBefore(u, l)'
    BY DEF HeldIsTaken
  <2>1. u \in Tasks
    BY <1>9
  <2>2. CASE u \in readers[l] \cup writers[l]
    <3>1. TakenBefore(u, l)
      BY <2>2 DEF LockInv, HeldIsTaken
    <3>2. CASE u = t
      BY <1>2, <1>4, <1>8, <3>1, <3>2, GoesOn DEF LockInv
    <3>3. CASE u # t
      BY <1>8, <2>1, <3>1, <3>3, StaysThere
    <3> QED
      BY <3>2, <3>3
  <2>3. CASE u = t /\ l = k
    BY <1>2, <1>4, <1>8, <2>3, GoesOn DEF LockInv, TakesNext
  <2> QED
    BY <1>9, <2>2, <2>3
\* Where each task of the new queues stood before.
<1>13. \A l \in Locks : \A i \in 1 .. Len(queue'[l]) :
          LET j == IF l = k THEN i + 1 ELSE i IN
          /\ j \in 1 .. Len(queue[l])
          /\ queue'[l][i] = queue[l][j]
          /\ queue'[l][i] # t /\ queue'[l][i] \in Tasks
  <2> SUFFICES ASSUME NEW l \in Locks, NEW i \in 1 .. Len(queue'[l])
               PROVE  LET j == IF l = k THEN i + 1 ELSE i IN
                      /\ j \in 1 .. Len(queue[l])
                      /\ queue'[l][i] = queue[l][j]
                      /\ queue'[l][i] # t /\ queue'[l][i] \in Tasks
    OBVIOUS
  <2>1. queue'[l][i] \in Tasks
    BY <1>10, ElementOfSeq
  <2>2. CASE l = k
    <3>1. i + 1 \in 1 .. n /\ queue'[k][i] = queue[k][i + 1] /\ i # 0
      BY <1>1, <1>6, <2>2
    <3>2. queue[k][i + 1] # t
      <4>1. i + 1 # 1
        BY <3>1
      <4> QED
        BY <1>2, <3>1, <4>1 DEF LockInv, QueuedOnce, n, t
    <3> QED
      BY <2>1, <2>2, <3>1, <3>2 DEF n
  <2>3. CASE l # k
    <3>1. queue'[l] = queue[l] /\ TakesNext(queue[l][i], l)
      BY <1>7, <2>3 DEF LockInv, QueuedTakesNext
    <3>2. queue[l][i] # t
      BY <1>4, <2>3, <3>1 DEF TakesNext
    <3> QED
      BY <2>1, <2>3, <3>1, <3>2
  <2> QED
    BY <2>2, <2>3
<1>14. QueuedTakesNext'
  <2> SUFFICES ASSUME NEW l \in Locks, NEW i \in 1 .. Len(queue'[l])
               PROVE  TakesNext(queue[l][i], l)'
    BY DEF QueuedTakesNext
  <2>1. PICK u \in Tasks : u = queue'[l][i] /\ u # t /\ TakesNext(u, l)
    BY <1>13 DEF LockInv, QueuedTakesNext
  <2>2. TakesNext(u, l)'
    BY <1>8, <2>1, StaysThere
  <2> QED
    BY <2>1, <2>2
<1>15. QueuedOnce'
  <2> SUFFICES ASSUME NEW l \in Locks, NEW i \in 1 .. Len(queue'[l]),
                      NEW j \in 1 .. Len(queue'[l]), queue'[l][i] = queue'[l][j]
               PROVE  i = j
    BY DEF QueuedOnce
  <2>1. CASE l = k
    <3>1. /\ i + 1 \in 1 .. Len(queue[l]) /\ j + 1 \in 1 .. Len(queue[l])
          /\ queue[l][i + 1] = queue[l][j + 1]
      BY <1>13, <2>1
    <3>2. i + 1 = j + 1
      BY <3>1 DEF LockInv, QueuedOnce
    <3> QED
      BY <3>2
  <2>2. CASE l # k
    BY <1>7, <2>2 DEF LockInv, QueuedOnce
  <2> QED
    BY <2>1, <2>2
<1> QED
  BY <1>11, <1>12, <1>14, <1>15 DEF LockInv

\* Every step keeps the invariant.
LEMMA LockStep == LockInv /\ [Next]_vars => LockInv'
<1> SUFFICES ASSUME LockInv, [Next]_vars PROVE LockInv'
  OBVIOUS
<1>1. ASSUME NEW t \in Tasks, Go(t) PROVE LockInv'
  <2>1. CASE AnswerEarly(t) \/ Finish(t)
    BY <2>1, EndKeeps DEF AnswerEarly, Finish, Comes
  <2> QED
    BY <1>1, <2>1, AskKeeps, GoOnKeeps DEF Go
<1>2. CASE UNCHANGED vars
  <2>1. /\ doing' = doing /\ step' = step /\ queue' = queue
        /\ readers' = readers /\ writers' = writers
    BY <1>2 DEF vars
  <2>2. Shape'
    BY <2>1 DEF LockInv, Shape
  <2>3. HeldIsTaken'
    BY <2>1 DEF LockInv, HeldIsTaken, TakenBefore
  <2>4. QueuedTakesNext'
    BY <2>1 DEF LockInv, QueuedTakesNext, TakesNext, Over, Coming
  <2>5. QueuedOnce'
    BY <2>1 DEF LockInv, QueuedOnce
  <2> QED
    BY <2>2, <2>3, <2>4, <2>5 DEF LockInv
<1> QED
  BY <1>1, <1>2, BeginKeeps, GrantKeeps DEF Next

LEMMA InitLocks == Init => LockInv
<1> SUFFICES ASSUME Init PROVE LockInv
  OBVIOUS
<1>1. Shape
  BY DEF Init, Shape
<1>2. \A l \in Locks : Len(queue[l]) = 0 /\ readers[l] = {} /\ writers[l] = {}
  BY DEF Init
<1> QED
  BY <1>1, <1>2 DEF LockInv, HeldIsTaken, QueuedTakesNext, QueuedOnce

\* Every task is at a step of its section, and locks and queues know only
\* tasks.
THEOREM TypeCorrect == Spec => []TypeOK
<1>1. LockInv => TypeOK
  <2> SUFFICES ASSUME LockInv PROVE TypeOK
    OBVIOUS
  <2>1. \A l \in Locks : \A i \in DOMAIN queue[l] : queue[l][i] \in Tasks
    <3>1. \A l \in Locks : queue[l] \in Seq(Tasks)
      BY DEF LockInv, Shape
    <3> QED
      BY <3>1, LenProperties, ElementOfSeq
  <2>2. \A l \in Locks : readers[l] \subseteq Tasks /\ writers[l] \subseteq Tasks
    BY DEF LockInv, Shape
  <2> QED
    BY <2>1, <2>2 DEF LockInv, Shape, TypeOK
<1> QED
  BY <1>1, InitLocks, LockStep, PTL DEF Spec

------------------------------------------------------------------------------
(* Waiting *)

\* Among tasks that wait, when all sections take their locks in one order, one
\* waits for none of the others: the first of them in the queue of the last
\* lock that any of them waits for.
LEMMA NoCircle ==
    ASSUME LockInv, NEW bound \in Nat, NEW rank \in [Locks -> 0 .. bound],
           \A section \in Enabled : Orderly(rank, Sections[section])
    PROVE  NoCircularWait
<1> SUFFICES ASSUME NEW S \in SUBSET {t \in Tasks : Waits(t)}, S # {}
             PROVE  \E t \in S : \A u \in S : ~WaitsFor(t, u)
  BY DEF NoCircularWait
<1>1. \A l \in Locks : DOMAIN queue[l] = 1 .. Len(queue[l]) /\ Len(queue[l]) \in Nat
  <2>1. \A l \in Locks : queue[l] \in Seq(Tasks)
    BY DEF LockInv, Shape
  <2> QED
    BY <2>1, LenProperties
<1> DEFINE Awaited == { l \in Locks : \E t \in S : InQueue(t, l) }
<1>2. \A t \in S : t \in Tasks /\ \E l \in Awaited : InQueue(t, l)
  BY DEF Waits
\* The last lock that is waited for.
<1>3. PICK l \in Awaited : \A m \in Awaited : rank[m] <= rank[l]
  <2> DEFINE T == { bound - rank[m] : m \in Awaited }
  <2>1. \A m \in Awaited : rank[m] \in 0 .. bound
    OBVIOUS
  <2>2. T \subseteq Nat /\ T # {}
    BY <1>2, <2>1
  <2>3. PICK x \in T : \A y \in T : x <= y
    <3> HIDE DEF T
    <3> QED
      BY <2>2, Least
  <2>4. PICK m \in Awaited : x = bound - rank[m]
    BY <2>3
  <2>5. \A k \in Awaited : bound - rank[m] <= bound - rank[k]
    BY <2>3, <2>4
  <2>6. \A k \in Awaited : rank[k] <= rank[m]
    BY <2>1, <2>4, <2>5
  <2> QED
    BY <2>4, <2>6
\* The first in its queue.
<1>4. PICK i \in 1 .. Len(queue[l]) :
         /\ queue[l][i] \in S
         /\ \A j \in 1 .. Len(queue[l]) : queue[l][j] \in S => i <= j
  <2> DEFINE T == { j \in 1 .. Len(queue[l]) : queue[l][j] \in S }
  <2>1. T # {} /\ T \subseteq Nat
    BY <1>1 DEF InQueue
  <2>2. PICK x \in T : \A y \in T : x <= y
    <3> HIDE DEF T
    <3> QED
      BY <2>1, Least
  <2> QED
    BY <2>2
<1> DEFINE t == queue[l][i]
<1>5. ASSUME NEW u \in S, WaitsFor(t, u)
      PROVE  FALSE
  <2>0. PICK m \in Locks : \E j \in 1 .. Len(queue[m]) :
           /\ queue[m][j] = t
           /\ \/ \E k \in 1 .. j - 1 : queue[m][k] = u
              \/ u \in readers[m] \cup writers[m]
    BY <1>1, <1>5 DEF WaitsFor
  <2>1. PICK j \in 1 .. Len(queue[m]) :
           /\ queue[m][j] = t
           /\ \/ \E k \in 1 .. j - 1 : queue[m][k] = u
              \/ u \in readers[m] \cup writers[m]
    BY <2>0
  <2>2. TakesNext(t, l) /\ TakesNext(t, m)
    BY <1>4, <2>1 DEF LockInv, QueuedTakesNext
  <2>3. m = l
    BY <2>2 DEF TakesNext
  <2>4. j = i
    BY <1>4, <2>1, <2>3 DEF LockInv, QueuedOnce
  <2>5. CASE \E k \in 1 .. j - 1 : queue[m][k] = u
    <3>1. PICK k \in 1 .. i - 1 : queue[l][k] = u
      BY <2>3, <2>4, <2>5
    <3>2. k \in 1 .. Len(queue[l]) /\ ~(i <= k)
      BY <1>1, <1>4
    <3> QED
      BY <1>4, <1>5, <3>1, <3>2
  <2>6. CASE u \in readers[m] \cup writers[m]
    <3>1. TakenBefore(u, l) /\ u \in Tasks
      BY <1>2, <2>3, <2>6 DEF LockInv, HeldIsTaken
    <3>2. PICK k \in Awaited : InQueue(u, k)
      BY <1>2
    <3>3. TakesNext(u, k)
      BY <1>1, <3>2 DEF LockInv, QueuedTakesNext, InQueue
    <3> DEFINE section == Sections[doing[u]]
    <3>4. /\ doing[u] \in Enabled /\ Len(section) \in Nat
          /\ step[u] \in 1 .. Len(section)
      BY <3>1, <3>3, InSection DEF LockInv, TakesNext
    <3>5. PICK n \in 1 .. step[u] - 1 : Takes(section[n]) /\ section[n].lock = l
      BY <3>1 DEF TakenBefore
    <3>6. n \in 1 .. Len(section) /\ n < step[u]
      BY <3>4
    <3>7. Takes(section[step[u]]) /\ section[step[u]].lock = k
      BY <3>3 DEF TakesNext, Coming
    <3>8. rank[l] < rank[k]
      <4>1. Orderly(rank, section)
        BY <3>4
      <4> QED
        BY <3>4, <3>5, <3>6, <3>7, <4>1 DEF Orderly
    <3>9. rank[k] <= rank[l] /\ rank[k] \in Nat /\ rank[l] \in Nat
      BY <1>3
    <3> QED
      BY <3>8, <3>9
  <2> QED
    BY <2>1, <2>5, <2>6
<1> QED
  BY <1>4, <1>5

\* Sections that take their locks in one order, whichever it is, never end up
\* in a circle of tasks each of which waits for the next.
THEOREM OneOrderNoCircle ==
    ASSUME NEW bound \in Nat, NEW rank \in [Locks -> 0 .. bound],
           \A section \in Enabled : Orderly(rank, Sections[section])
    PROVE  Spec => []NoCircularWait
<1>1. LockInv => NoCircularWait
  BY NoCircle
<1> QED
  BY <1>1, InitLocks, LockStep, PTL DEF Spec

\* As long as nobody registers a user, lists the plugins of an organization or
\* those of her own, or calls a plugin by its name, no requests wait for each
\* other in a circle, however many there are: the other sections of
\* plugin-host/src/tenant and daemon all follow one order of the locks.
THEOREM NoDeadlock ==
    ASSUME Enabled \cap OutOfOrder = {}
    PROVE  Spec => []NoCircularWait
<1>1. Order \in [Locks -> 0 .. 5]
  BY DEF Order
<1>2. \A section \in Enabled : Orderly(Order, Sections[section])
  BY LocksAssumption, SectionsFollow
<1>3. 5 \in Nat
  OBVIOUS
<1> QED
  BY <1>1, <1>2, <1>3, OneOrderNoCircle
==============================================================================
