----------------------- MODULE TenantResourcesProofs -----------------------
(***************************************************************************)
(* What TenantResources keeps for any users, organizations, names and      *)
(* requests at once, any number of saves and of restarts.                  *)
(*                                                                         *)
(* Only a restart, and a second registration of an organization's name,    *)
(* take anything away from memory; whatever else was checked under one     *)
(* lock is therefore still so under the next one, and a copy               *)
(* that has references but not yet the registry gets a registry that has   *)
(* grown since.  So the invariant says of what a copy still lacks that     *)
(* memory has it, and of a file that it lacks nothing.                     *)
(*                                                                         *)
(* Then how what is registered runs: a daemon (DaemonSchedule), for any    *)
(* period and any lengths of runs and waits, and a pipeline (PipelineRun), *)
(* what its stages are called with and what its result is, however deep    *)
(* and broad it may be.                                                    *)
(***************************************************************************)
EXTENDS TenantResources, PipelineRun, DaemonSchedule, FiniteSetTheorems,
        SequenceTheorems, TLAPS

Requests ==
    [at : Phases, kind : Kinds \cup {None}, user : Users,
     name : Names \cup {None}, org : Orgs \cup {None}]

Listings == [Users -> SUBSET Orgs]
RoleTables == [Orgs -> [Users -> Nat]]
References == [Kinds -> [Users -> SUBSET Names]]
Registries == [Kinds -> [Names -> Users \cup {None}]]
Shares == [Kinds -> [Orgs -> SUBSET Names]]

States ==
    [listed : Listings, roles : RoleTables, refs : References,
     registry : Registries, shared : Shares]

TypeOK ==
    /\ listed \in Listings /\ roles \in RoleTables /\ refs \in References
    /\ registry \in Registries /\ shared \in Shares
    /\ request \in [Slots -> Requests \cup {Idle}]
    /\ restarts \in Nat
    /\ overwritten \subseteq Orgs

\* Who lists an organization that was not overwritten has a role there; what a
\* user refers to is there.
MemberLists(lists, table, lost) ==
    \A u \in Users : \A o \in lists[u] \ lost : table[o][u] > 0
RefsIn(references, entries) ==
    \A k \in Kinds, u \in Users : \A n \in references[k][u] : entries[k][n] # None

MemoryInv == MemberLists(listed, roles, overwritten) /\ RefsIn(refs, registry)

\* What a request has found is still so.
StillSo(s) ==
    LET r == request[s]
    IN  r # Idle =>
        /\ r.at \in {"found", "list"} => r.org \in Orgs
        /\ r.at = "list" => r.org \in overwritten \/ roles[r.org][r.user] > 0
        /\ r.at \notin {"found", "list"} => r.kind \in Kinds /\ r.name \in Names
        /\ r.at \in {"refer", "look up", "add"} => registry[r.kind][r.name] # None
        /\ r.at \in {"referred?", "add"} =>
              r.org \in Orgs /\ (r.org \in overwritten \/ roles[r.org][r.user] >= Contributor)
        /\ r.at = "add" => r.name \in refs[r.kind][r.user]

RequestsInv == \A s \in Slots : StillSo(s)

EarnedInv ==
    restarts = 0 =>
        \A k \in Kinds, o \in Orgs \ overwritten : \A n \in shared[k][o] :
            \E u \in Users : roles[o][u] >= Contributor /\ n \in refs[k][u]

\* Where a copy has the registry of a kind.
RegistryAt == [k \in Kinds |-> IF k = "pipeline" THEN 4 ELSE 7]

CopyInv ==
    copied # None =>
        /\ copied.next \in 1..9
        /\ copied.state \in States
        /\ MemberLists(copied.state.listed, IF copied.next > 2 THEN copied.state.roles ELSE roles,
                       overwritten)
        /\ RefsIn(copied.state.refs,
                  [k \in Kinds |-> IF copied.next > RegistryAt[k] THEN copied.state.registry[k]
                                   ELSE registry[k]])

FileInv ==
    file # None =>
        /\ file \in States
        /\ MemberLists(file.listed, file.roles, overwritten)
        /\ RefsIn(file.refs, file.registry)

Inv == TypeOK /\ MemoryInv /\ RequestsInv /\ EarnedInv /\ CopyInv /\ FileInv

\* A step that takes nothing away but from organizations overwritten by it.
Grows ==
    /\ overwritten \subseteq overwritten'
    /\ \A o \in Orgs \ overwritten', u \in Users : roles'[o][u] >= roles[o][u]
    /\ \A k \in Kinds, n \in Names : registry[k][n] # None => registry'[k][n] # None
    /\ \A k \in Kinds, u \in Users : refs[k][u] \subseteq refs'[k][u]
-----------------------------------------------------------------------------
(* Initially there is nothing that could be wrong. *)
LEMMA InitInv == Init => Inv
<1> SUFFICES ASSUME Init PROVE Inv
    OBVIOUS
<1> USE DEF Init, Empty
<1>1. TypeOK
    BY DEF TypeOK, Listings, RoleTables, References, Registries, Shares, Idle
<1>2. MemoryInv /\ EarnedInv
    BY DEF MemoryInv, EarnedInv, MemberLists, RefsIn
<1>3. RequestsInv /\ CopyInv /\ FileInv
    BY DEF RequestsInv, StillSo, CopyInv, FileInv
<1>. QED BY <1>1, <1>2, <1>3 DEF Inv

(* A request under way is told from none by where it is. *)
LEMMA UnderWay ==
    ASSUME NEW s \in Slots, request[s].at \in Phases PROVE request[s] # Idle
<1> SUFFICES ASSUME request[s] = Idle PROVE FALSE
    OBVIOUS
<1>1. Idle.at = None
    BY DEF Idle
<1>2. request[s].at = None
    BY <1>1
<1>. QED BY <1>2, ResourcesAssumption DEF Phases

(* What a request has found stays so as memory grows. *)
LEMMA StillSoKept ==
    ASSUME TypeOK, TypeOK', Grows, NEW q \in Slots, request'[q] = request[q], StillSo(q)
    PROVE  StillSo(q)'
<1> DEFINE r == request[q]
<1> SUFFICES ASSUME r # Idle PROVE StillSo(q)'
    BY DEF StillSo
<1>1. /\ r \in Requests
      /\ r.user \in Users
      /\ \A o \in Orgs, u \in Users : roles[o][u] \in Nat /\ roles'[o][u] \in Nat
    BY DEF TypeOK, Requests, RoleTables
<1>2. r.at \in {"found", "list"} => r.org \in Orgs
    BY DEF StillSo
<1>list. r.at = "list" => r.org \in overwritten' \/ roles'[r.org][r.user] > 0
  <2> SUFFICES ASSUME r.at = "list", r.org \notin overwritten' PROVE roles'[r.org][r.user] > 0
      OBVIOUS
  <2>1. r.org \in Orgs /\ r.org \notin overwritten /\ roles[r.org][r.user] > 0
      BY DEF StillSo, Grows
  <2>2. roles'[r.org][r.user] >= roles[r.org][r.user]
      BY <1>1, <2>1 DEF Grows
  <2>. QED BY <1>1, <2>1, <2>2
<1>3. r.at \notin {"found", "list"} => r.kind \in Kinds /\ r.name \in Names
    BY DEF StillSo
<1>4. r.at \in {"refer", "look up", "add"} => registry'[r.kind][r.name] # None
    BY <1>3 DEF StillSo, Grows
<1>5. r.at \in {"referred?", "add"} =>
         r.org \in Orgs /\ (r.org \in overwritten' \/ roles'[r.org][r.user] >= Contributor)
  <2> SUFFICES ASSUME r.at \in {"referred?", "add"}
               PROVE  /\ r.org \in Orgs
                      /\ r.org \notin overwritten' => roles'[r.org][r.user] >= Contributor
      OBVIOUS
  <2> SUFFICES ASSUME r.org \notin overwritten'
               PROVE  r.org \in Orgs /\ roles'[r.org][r.user] >= Contributor
      BY DEF StillSo
  <2>1. r.org \in Orgs /\ roles[r.org][r.user] >= Contributor
      BY DEF StillSo, Grows
  <2>2. roles'[r.org][r.user] >= roles[r.org][r.user]
      BY <1>1, <2>1 DEF Grows
  <2>. QED BY <1>1, <2>1, <2>2 DEF Contributor
<1>6. r.at = "add" => r.name \in refs'[r.kind][r.user]
    BY <1>1, <1>3 DEF StillSo, Grows
<1>. QED BY <1>2, <1>list, <1>3, <1>4, <1>5, <1>6 DEF StillSo

(* What other requests have found, what was shared and what a save has       *)
(* copied stays right as long as memory grows.                               *)
LEMMA OthersKept ==
    ASSUME Inv, TypeOK', Grows, NEW s \in Slots, UNCHANGED <<copied, file, restarts>>,
           \A q \in Slots \ {s} : request'[q] = request[q], StillSo(s)'
    PROVE  RequestsInv' /\ CopyInv' /\ FileInv' /\ (UNCHANGED shared => EarnedInv')
<1>1. RequestsInv'
  <2> SUFFICES ASSUME NEW q \in Slots, q # s PROVE StillSo(q)'
      BY DEF RequestsInv
  <2>. QED BY StillSoKept DEF Inv, RequestsInv
<1>2. CopyInv'
  <2> SUFFICES ASSUME copied # None PROVE CopyInv'
      BY DEF CopyInv
  <2>1. CopyInv
      BY DEF Inv
  <2>2. MemberLists(copied'.state.listed, (IF copied.next > 2 THEN copied.state.roles ELSE roles)',
                    overwritten')
      BY <2>1 DEF CopyInv, MemberLists, Grows, States, Listings, Inv, TypeOK, RoleTables
  <2>3. RefsIn(copied'.state.refs,
               [k \in Kinds |-> IF copied.next > RegistryAt[k] THEN copied.state.registry[k]
                                ELSE registry[k]]')
      BY <2>1 DEF CopyInv, RefsIn, Grows, States, References
  <2>. QED BY <2>1, <2>2, <2>3 DEF CopyInv
<1>3. FileInv'
    BY DEF Inv, FileInv, MemberLists, Grows
<1>4. ASSUME UNCHANGED shared PROVE EarnedInv'
    BY <1>4 DEF Inv, EarnedInv, Grows, TypeOK, RoleTables, References, Shares, Contributor
<1>. QED BY <1>1, <1>2, <1>3, <1>4

(* A request that ends, or that goes on with what it has, changes nothing   *)
(* else: memory is as it was.                                               *)
LEMMA RequestOnly ==
    ASSUME Inv, NEW s \in Slots, UNCHANGED <<memory, others>>,
           NEW r \in Requests \cup {Idle}, request' = [request EXCEPT ![s] = r], StillSo(s)'
    PROVE  Inv'
<1>1. TypeOK'
    BY DEF Inv, TypeOK, memory, others
<1>2. Grows
    BY DEF Grows, memory, others, Inv, TypeOK, RoleTables
<1>3. \A q \in Slots \ {s} : request'[q] = request[q]
    BY DEF Inv, TypeOK
<1>4. UNCHANGED <<copied, file, restarts, shared>> /\ MemoryInv'
    BY DEF memory, others, Inv, MemoryInv
<1>. QED BY <1>1, <1>2, <1>3, <1>4, OthersKept DEF Inv

(* One slot of request', as the actions write it. *)
LEMMA SlotsOf ==
    ASSUME TypeOK, NEW s \in Slots, NEW r, request' = [request EXCEPT ![s] = r]
    PROVE  request'[s] = r /\ \A q \in Slots \ {s} : request'[q] = request[q]
BY DEF TypeOK

LEMMA IdleHolds ==
    ASSUME NEW s \in Slots, request'[s] = Idle PROVE StillSo(s)'
BY DEF StillSo
-----------------------------------------------------------------------------
(* The actions that change organizations. *)
LEMMA OrgInsertInv ==
    ASSUME Inv, NEW s \in Slots, OrgInsert(s) PROVE Inv'
<1> DEFINE r == [request[s] EXCEPT !.at = "list"]
           o == Org(s)
           u == User(s)
<1>1. TypeOK /\ MemoryInv /\ StillSo(s)
    BY DEF Inv, RequestsInv
<1>2. /\ request[s].at = "found"
      /\ roles' = [roles EXCEPT ![o] = [v \in Users |-> IF v = u THEN Owner ELSE 0]]
      /\ overwritten' = IF Exists(o) THEN overwritten \cup {o} ELSE overwritten
      /\ request' = [request EXCEPT ![s].at = "list"]
      /\ UNCHANGED <<listed, refs, registry, shared, copied, file, restarts>>
    BY DEF OrgInsert, At, Goto
<1>3. request[s] # Idle
    BY <1>2, UnderWay DEF Phases
<1>4. request[s] \in Requests /\ o \in Orgs /\ u \in Users
    BY <1>1, <1>2, <1>3 DEF TypeOK, Requests, StillSo, User, Org
<1>5. r \in Requests /\ request' = [request EXCEPT ![s] = r]
    BY <1>2, <1>4 DEF Requests, Phases
<1>6. /\ request'[s] = r
      /\ \A q \in Slots \ {s} : request'[q] = request[q]
    BY <1>1, <1>5, SlotsOf
<1>7. TypeOK'
  <2>1. roles' \in RoleTables
      BY <1>1, <1>2 DEF TypeOK, RoleTables, Owner
  <2>2. overwritten' \subseteq Orgs
      BY <1>1, <1>2, <1>4 DEF TypeOK
  <2>. QED BY <1>1, <1>2, <1>5, <2>1, <2>2 DEF TypeOK
<1>8. roles'[o][u] > 0 /\ Grows
  <2>1. \A p \in Orgs, v \in Users :
           roles'[p][v] = IF p # o THEN roles[p][v] ELSE IF v = u THEN Owner ELSE 0
      BY <1>1, <1>2, <1>4 DEF TypeOK, RoleTables
  <2>2. \A p \in Orgs, v \in Users : roles[p][v] \in Nat
      BY <1>1 DEF TypeOK, RoleTables
  <2>3. o \in overwritten' \/ \A v \in Users : roles[o][v] = 0
      BY <1>2, <1>4, <2>2 DEF Exists
  <2>. QED BY <1>2, <1>4, <2>1, <2>2, <2>3 DEF Grows, Owner
<1>9. MemoryInv'
  <2>1. \A v \in Users : listed[v] \subseteq Orgs
      BY <1>1 DEF TypeOK, Listings
  <2>2. \A p \in Orgs, v \in Users : roles[p][v] \in Nat /\ roles'[p][v] \in Nat
      BY <1>1, <1>7 DEF TypeOK, RoleTables
  <2>. QED BY <1>1, <1>2, <1>8, <2>1, <2>2 DEF MemoryInv, MemberLists, RefsIn, Grows
<1>10. StillSo(s)'
  <2>1. r.at = "list" /\ r.user = u /\ r.org = o
      BY <1>4 DEF Requests, User, Org
  <2>. QED BY <1>4, <1>6, <1>8, <2>1 DEF StillSo
<1>. QED BY <1>2, <1>6, <1>7, <1>8, <1>9, <1>10, OthersKept DEF Inv

LEMMA OrgListedInv ==
    ASSUME Inv, NEW s \in Slots, OrgListed(s) PROVE Inv'
<1>1. TypeOK /\ MemoryInv /\ StillSo(s)
    BY DEF Inv, RequestsInv
<1>2. /\ request[s].at = "list"
      /\ listed' = [listed EXCEPT ![User(s)] = @ \cup {Org(s)}]
      /\ request' = [request EXCEPT ![s] = Idle]
      /\ UNCHANGED <<roles, refs, registry, shared, copied, file, restarts, overwritten>>
    BY DEF OrgListed, At, Respond, others
<1>3. request[s] # Idle
    BY <1>2, UnderWay DEF Phases
<1>4. /\ User(s) \in Users /\ Org(s) \in Orgs
      /\ Org(s) \in overwritten \/ roles[Org(s)][User(s)] > 0
    BY <1>1, <1>2, <1>3 DEF TypeOK, Requests, StillSo, User, Org
<1>5. /\ request'[s] = Idle
      /\ \A q \in Slots \ {s} : request'[q] = request[q]
    BY <1>1, <1>2, SlotsOf
<1>6. TypeOK'
    BY <1>1, <1>2, <1>4 DEF TypeOK, Listings
<1>7. Grows
  <2>1. \A o \in Orgs, u \in Users : roles[o][u] \in Nat
      BY <1>1 DEF TypeOK, RoleTables
  <2>. QED BY <1>2, <2>1 DEF Grows
<1>8. MemoryInv'
    BY <1>1, <1>2, <1>4 DEF MemoryInv, MemberLists, RefsIn, TypeOK, Listings
<1>. QED BY <1>2, <1>5, <1>6, <1>7, <1>8, IdleHolds, OthersKept DEF Inv

LEMMA OrgAddUserInv ==
    ASSUME Inv, NEW s \in Slots, NEW o \in Orgs, NEW u \in Users, NEW role \in Roles,
           OrgAddUser(s, o, u, role)
    PROVE  Inv'
<1>1. TypeOK /\ MemoryInv /\ StillSo(s) /\ role \in Nat /\ role > 0
    BY DEF Inv, RequestsInv, Roles, Viewer, Contributor, Owner
<1>2. /\ roles[o][u] = 0
      /\ roles' = [roles EXCEPT ![o][u] = role]
      /\ listed' = [listed EXCEPT ![u] = @ \cup {o}]
      /\ UNCHANGED <<refs, registry, shared, request, copied, file, restarts, overwritten>>
    BY DEF OrgAddUser, others
<1>3. TypeOK'
    BY <1>1, <1>2 DEF TypeOK, RoleTables, Listings
<1>4. roles'[o][u] > 0 /\ Grows
    BY <1>1, <1>2 DEF Grows, TypeOK, RoleTables
<1>5. MemoryInv'
  <2>1. ASSUME NEW v \in Users, NEW p \in listed'[v] \ overwritten PROVE roles'[p][v] > 0
    <3>1. p \in Orgs
        BY <1>3, <2>1 DEF TypeOK, Listings
    <3>2. CASE p \in listed[v]
        BY <1>1, <1>2, <1>3, <1>4, <2>1, <3>1, <3>2 DEF MemoryInv, MemberLists, Grows, TypeOK, RoleTables
    <3>3. CASE p \notin listed[v]
        BY <1>1, <1>2, <1>4, <2>1, <3>3 DEF TypeOK, Listings
    <3>. QED BY <3>2, <3>3
  <2>. QED BY <1>1, <1>2, <2>1 DEF MemoryInv, MemberLists, RefsIn
<1>6. StillSo(s)'
    BY <1>1, <1>2, <1>3, <1>4, StillSoKept
<1>. QED BY <1>2, <1>3, <1>4, <1>5, <1>6, OthersKept DEF Inv
-----------------------------------------------------------------------------
(* The actions that change the registries, the references and the shares.   *)
LEMMA InsertInv ==
    ASSUME Inv, NEW s \in Slots, Insert(s) PROVE Inv'
<1> DEFINE r == [request[s] EXCEPT !.at = "refer"]
<1>1. TypeOK /\ MemoryInv /\ StillSo(s)
    BY DEF Inv, RequestsInv
<1>2. /\ request[s].at = "insert"
      /\ registry' = [registry EXCEPT ![Kind(s)][Name(s)] = User(s)]
      /\ request' = [request EXCEPT ![s].at = "refer"]
      /\ UNCHANGED <<listed, roles, refs, shared, copied, file, restarts, overwritten>>
    BY DEF Insert, At, Goto, others
<1>3. request[s] # Idle
    BY <1>2, UnderWay DEF Phases
<1>4. /\ request[s] \in Requests
      /\ Kind(s) \in Kinds /\ Name(s) \in Names /\ User(s) \in Users /\ User(s) # None
    BY <1>1, <1>2, <1>3, ResourcesAssumption DEF TypeOK, Requests, StillSo, User, Kind, Name
<1>5. r \in Requests /\ request' = [request EXCEPT ![s] = r]
    BY <1>2, <1>4 DEF Requests, Phases
<1>6. /\ request'[s] = r
      /\ \A q \in Slots \ {s} : request'[q] = request[q]
    BY <1>1, <1>5, SlotsOf
<1>7. TypeOK'
    BY <1>1, <1>2, <1>4, <1>5 DEF TypeOK, Registries
<1>8. registry'[Kind(s)][Name(s)] # None /\ Grows
  <2>1. \A o \in Orgs, u \in Users : roles[o][u] \in Nat
      BY <1>1 DEF TypeOK, RoleTables
  <2>2. \A k \in Kinds, n \in Names :
           registry'[k][n] = IF k = Kind(s) /\ n = Name(s) THEN User(s) ELSE registry[k][n]
      BY <1>1, <1>2, <1>4 DEF TypeOK, Registries
  <2>. QED BY <1>2, <1>4, <2>1, <2>2 DEF Grows
<1>9. MemoryInv'
  <2>1. \A k \in Kinds, u \in Users : refs[k][u] \subseteq Names
      BY <1>1 DEF TypeOK, References
  <2>. QED BY <1>1, <1>2, <1>8, <2>1 DEF MemoryInv, MemberLists, RefsIn, Grows
<1>10. StillSo(s)'
  <2>1. /\ r.at = "refer" /\ r.kind = Kind(s) /\ r.name = Name(s)
        /\ r.kind \in Kinds /\ r.name \in Names
      BY <1>4 DEF Requests, Kind, Name
  <2>. QED BY <1>6, <1>8, <2>1 DEF StillSo
<1>. QED BY <1>2, <1>6, <1>7, <1>8, <1>9, <1>10, OthersKept DEF Inv

LEMMA ReferInv ==
    ASSUME Inv, NEW s \in Slots, Refer(s) PROVE Inv'
<1>1. TypeOK /\ MemoryInv /\ StillSo(s)
    BY DEF Inv, RequestsInv
<1>2. /\ request[s].at = "refer"
      /\ refs' = [refs EXCEPT ![Kind(s)][User(s)] = @ \cup {Name(s)}]
      /\ request' = [request EXCEPT ![s] = Idle]
      /\ UNCHANGED <<listed, roles, registry, shared, copied, file, restarts, overwritten>>
    BY DEF Refer, At, Respond, others
<1>3. request[s] # Idle
    BY <1>2, UnderWay DEF Phases
<1>4. /\ Kind(s) \in Kinds /\ Name(s) \in Names /\ User(s) \in Users
      /\ registry[Kind(s)][Name(s)] # None
    BY <1>1, <1>2, <1>3 DEF TypeOK, Requests, StillSo, User, Kind, Name
<1>5. /\ request'[s] = Idle
      /\ \A q \in Slots \ {s} : request'[q] = request[q]
    BY <1>1, <1>2, SlotsOf
<1>6. TypeOK'
    BY <1>1, <1>2, <1>4 DEF TypeOK, References
<1>7. Grows
  <2>1. \A o \in Orgs, u \in Users : roles[o][u] \in Nat
      BY <1>1 DEF TypeOK, RoleTables
  <2>2. \A k \in Kinds, u \in Users : refs[k][u] \subseteq refs'[k][u]
      BY <1>1, <1>2, <1>4 DEF TypeOK, References
  <2>. QED BY <1>2, <2>1, <2>2 DEF Grows
<1>8. MemoryInv'
    BY <1>1, <1>2, <1>4 DEF MemoryInv, MemberLists, RefsIn, TypeOK, References
<1>. QED BY <1>2, <1>5, <1>6, <1>7, <1>8, IdleHolds, OthersKept DEF Inv

LEMMA AddInv ==
    ASSUME Inv, NEW s \in Slots, Add(s) PROVE Inv'
<1>1. TypeOK /\ MemoryInv /\ EarnedInv /\ StillSo(s)
    BY DEF Inv, RequestsInv
<1>2. /\ request[s].at = "add"
      /\ shared' = [shared EXCEPT ![Kind(s)][Org(s)] = @ \cup {Name(s)}]
      /\ request' = [request EXCEPT ![s] = Idle]
      /\ UNCHANGED <<listed, roles, registry, refs, copied, file, restarts, overwritten>>
    BY DEF Add, At, Respond, others
<1>3. request[s] # Idle
    BY <1>2, UnderWay DEF Phases
<1>4. /\ Kind(s) \in Kinds /\ Name(s) \in Names /\ User(s) \in Users /\ Org(s) \in Orgs
      /\ Org(s) \in overwritten \/ roles[Org(s)][User(s)] >= Contributor
      /\ Name(s) \in refs[Kind(s)][User(s)]
    BY <1>1, <1>2, <1>3 DEF TypeOK, Requests, StillSo, User, Kind, Name, Org
<1>5. /\ request'[s] = Idle
      /\ \A q \in Slots \ {s} : request'[q] = request[q]
    BY <1>1, <1>2, SlotsOf
<1>6. TypeOK'
    BY <1>1, <1>2, <1>4 DEF TypeOK, Shares
<1>7. Grows
  <2>1. \A o \in Orgs, u \in Users : roles[o][u] \in Nat
      BY <1>1 DEF TypeOK, RoleTables
  <2>. QED BY <1>2, <2>1 DEF Grows
<1>8. MemoryInv'
    BY <1>1, <1>2 DEF MemoryInv
<1>9. EarnedInv'
  <2> SUFFICES ASSUME restarts = 0, NEW k \in Kinds, NEW o \in Orgs \ overwritten,
                      NEW n \in shared'[k][o]
               PROVE  \E u \in Users : roles[o][u] >= Contributor /\ n \in refs[k][u]
      BY <1>2 DEF EarnedInv
  <2>1. CASE n \in shared[k][o]
      BY <1>1, <2>1 DEF EarnedInv
  <2>2. CASE n \notin shared[k][o]
    <3>1. k = Kind(s) /\ o = Org(s) /\ n = Name(s)
        BY <1>1, <1>2, <1>4, <2>2 DEF TypeOK, Shares
    <3>. QED BY <1>4, <3>1
  <2>. QED BY <2>1, <2>2
<1>. QED BY <1>2, <1>5, <1>6, <1>7, <1>8, <1>9, IdleHolds, OthersKept DEF Inv
-----------------------------------------------------------------------------
(* The actions that only change the request. *)
LEMMA RequestActionsInv ==
    ASSUME Inv, NEW s \in Slots,
           \/ LookUp(s) \/ CheckReferred(s) \/ Drop(s)
           \/ \E o \in Orgs, u \in Users : OrgRegister(s, o, u)
           \/ \E k \in Kinds, u \in Users, n \in Names :
                \/ Register(s, k, u, n)
                \/ Use(s, k, u, n)
                \/ \E o \in Orgs : Share(s, k, u, n, o)
    PROVE  Inv'
<1>1. TypeOK /\ MemoryInv /\ StillSo(s)
    BY DEF Inv, RequestsInv
<1>2. ASSUME Respond(s), UNCHANGED <<memory, others>> PROVE Inv'
  <2>1. request' = [request EXCEPT ![s] = Idle]
      BY <1>2 DEF Respond
  <2>2. StillSo(s)'
      BY <1>1, <2>1, SlotsOf, IdleHolds
  <2>. QED BY <1>2, <2>1, <2>2, RequestOnly
<1>3. CASE LookUp(s) \/ Drop(s)
    BY <1>2, <1>3 DEF LookUp, Drop
<1>4. CASE CheckReferred(s)
  <2>1. CASE ~Lists(Kind(s), User(s), Name(s))
      BY <1>2, <1>4, <2>1 DEF CheckReferred
  <2>2. CASE Lists(Kind(s), User(s), Name(s))
    <3> DEFINE r == [request[s] EXCEPT !.at = "add"]
    <3>1. /\ request[s].at = "referred?"
          /\ request' = [request EXCEPT ![s].at = "add"]
          /\ UNCHANGED <<memory, others>>
        BY <1>4, <2>2 DEF CheckReferred, At, Goto
    <3>2. /\ request[s] \in Requests
          /\ Kind(s) \in Kinds /\ Name(s) \in Names /\ User(s) \in Users /\ Org(s) \in Orgs
          /\ Org(s) \in overwritten \/ roles[Org(s)][User(s)] >= Contributor
          /\ Name(s) \in refs[Kind(s)][User(s)]
        BY <1>1, <2>2, <3>1, UnderWay DEF Phases, TypeOK, StillSo, Requests, Kind, User, Name, Org, Lists
    <3>3. registry[Kind(s)][Name(s)] # None
        BY <1>1, <3>2 DEF MemoryInv, RefsIn
    <3>4. r \in Requests /\ request' = [request EXCEPT ![s] = r]
        BY <3>1, <3>2 DEF Requests, Phases
    <3>5. request'[s] = r
        BY <1>1, <3>4, SlotsOf
    <3>6. /\ r.at = "add" /\ r.kind = Kind(s) /\ r.name = Name(s)
          /\ r.user = User(s) /\ r.org = Org(s)
        BY <3>2 DEF Requests, Kind, Name, User, Org
    <3>7. StillSo(s)'
      <4>1. /\ request'[s].at = "add" /\ request'[s].kind = Kind(s) /\ request'[s].name = Name(s)
            /\ request'[s].user = User(s) /\ request'[s].org = Org(s)
          BY <3>5, <3>6
      <4>2. UNCHANGED <<roles, refs, registry, overwritten>>
          BY <3>1 DEF memory, others
      <4>. QED BY <3>2, <3>3, <4>1, <4>2 DEF StillSo
    <3>. QED BY <3>1, <3>4, <3>7, RequestOnly
  <2>. QED BY <2>1, <2>2
<1>5. ASSUME NEW k \in Kinds, NEW u \in Users, NEW n \in Names,
             \/ Register(s, k, u, n)
             \/ Use(s, k, u, n)
             \/ \E o \in Orgs : Share(s, k, u, n, o)
      PROVE  Inv'
  <2>1. CASE Register(s, k, u, n)
    <3> DEFINE r == [at |-> "insert", kind |-> k, user |-> u, name |-> n, org |-> None]
    <3>1. r \in Requests /\ request' = [request EXCEPT ![s] = r] /\ UNCHANGED <<memory, others>>
        BY <2>1 DEF Register, Comes, Requests, Phases
    <3>2. request'[s] = r
        BY <1>1, <3>1, SlotsOf
    <3>3. request'[s].at = "insert" /\ request'[s].kind = k /\ request'[s].name = n
        BY <3>2
    <3>4. StillSo(s)'
        BY <3>3 DEF StillSo
    <3>. QED BY <3>1, <3>4, RequestOnly
  <2>2. CASE Use(s, k, u, n)
    <3> DEFINE r == [at |-> "look up", kind |-> k, user |-> u, name |-> n, org |-> None]
    <3>1. r \in Requests /\ request' = [request EXCEPT ![s] = r] /\ UNCHANGED <<memory, others>>
        BY <2>2 DEF Use, Comes, Requests, Phases
    <3>2. registry'[k][n] # None
        BY <1>1, <2>2, <3>1 DEF Use, Lists, MemoryInv, RefsIn, memory
    <3>3. request'[s] = r
        BY <1>1, <3>1, SlotsOf
    <3>4. request'[s].at = "look up" /\ request'[s].kind = k /\ request'[s].name = n
      <4>1. r.at = "look up" /\ r.kind = k /\ r.name = n
          OBVIOUS
      <4>. QED BY <3>3, <4>1
    <3>5. StillSo(s)'
        BY <3>2, <3>4 DEF StillSo
    <3>. QED BY <3>1, <3>5, RequestOnly
  <2>3. ASSUME NEW o \in Orgs, Share(s, k, u, n, o) PROVE Inv'
    <3> DEFINE r == [at |-> "referred?", kind |-> k, user |-> u, name |-> n, org |-> o]
    <3>1. r \in Requests /\ request' = [request EXCEPT ![s] = r] /\ UNCHANGED <<memory, others>>
        BY <2>3 DEF Share, Comes, Requests, Phases
    <3>2. request'[s] = r
        BY <1>1, <3>1, SlotsOf
    <3>3. roles'[o][u] >= Contributor
        BY <2>3, <3>1 DEF Share, MayShare, memory
    <3>4. /\ request'[s].at = "referred?" /\ request'[s].kind = k /\ request'[s].name = n
          /\ request'[s].user = u /\ request'[s].org = o
        BY <3>2
    <3>5. StillSo(s)'
        BY <3>3, <3>4 DEF StillSo
    <3>. QED BY <3>1, <3>5, RequestOnly
  <2>. QED BY <1>5, <2>1, <2>2, <2>3
<1>6. ASSUME NEW o \in Orgs, NEW u \in Users, OrgRegister(s, o, u)
      PROVE  Inv'
  <2> DEFINE r == [at |-> "found", kind |-> None, user |-> u, name |-> None, org |-> o]
  <2>1. r \in Requests /\ request' = [request EXCEPT ![s] = r] /\ UNCHANGED <<memory, others>>
      BY <1>6 DEF OrgRegister, Comes, Requests, Phases
  <2>2. request'[s] = r
      BY <1>1, <2>1, SlotsOf
  <2>3. request'[s].at = "found" /\ request'[s].org = o
      BY <2>2
  <2>4. StillSo(s)'
      BY <2>3 DEF StillSo
  <2>. QED BY <2>1, <2>4, RequestOnly
<1>. QED BY <1>3, <1>4, <1>5, <1>6
-----------------------------------------------------------------------------
(* Saves and restarts. *)
LEMMA BeginSaveInv == ASSUME Inv, BeginSave PROVE Inv'
<1> USE DEF Empty, BeginSave, memory
<1>1. TypeOK' /\ MemoryInv' /\ EarnedInv' /\ FileInv'
    BY DEF Inv, TypeOK, MemoryInv, EarnedInv, FileInv
<1>2. RequestsInv'
    BY DEF Inv, RequestsInv, StillSo
<1>3. /\ copied'.next = 1 /\ copied'.next \in 1..9
      /\ copied'.state \in States
      /\ \A u \in Users : copied'.state.listed[u] = {}
      /\ \A k \in Kinds, u \in Users : copied'.state.refs[k][u] = {}
    BY DEF States, Listings, RoleTables, References, Registries, Shares
<1>4. CopyInv'
    BY <1>3 DEF CopyInv, MemberLists, RefsIn
<1>. QED BY <1>1, <1>2, <1>4 DEF Inv

LEMMA CopyNextInv == ASSUME Inv, CopyNext PROVE Inv'
<1>1. TypeOK' /\ MemoryInv' /\ EarnedInv' /\ FileInv'
    BY DEF CopyNext, memory, Inv, TypeOK, MemoryInv, EarnedInv, FileInv
<1>2. RequestsInv'
    BY DEF CopyNext, memory, Inv, RequestsInv, StillSo
<1>3. CopyInv'
  <2> DEFINE i == copied.next
             st == copied.state
  <2>1. /\ TypeOK /\ MemoryInv
        /\ i \in 1..8 /\ st \in States
        /\ MemberLists(st.listed, IF i > 2 THEN st.roles ELSE roles, overwritten)
        /\ RefsIn(st.refs, [k \in Kinds |-> IF i > RegistryAt[k] THEN st.registry[k] ELSE registry[k]])
      BY DEF CopyNext, Inv, CopyInv, CopyOrder
  <2>2. /\ copied'.next = i + 1
        /\ copied'.state = Copy(st, CopyOrder[i][1], CopyOrder[i][2])
        /\ UNCHANGED <<listed, roles, refs, registry, shared, overwritten>>
      BY DEF CopyNext, memory
  <2> DEFINE new == copied'.state
  <2>3. /\ st.listed \in Listings /\ st.roles \in RoleTables /\ st.refs \in References
        /\ st.registry \in Registries /\ st.shared \in Shares
      BY <2>1 DEF States
  <2> SUFFICES /\ new \in States
               /\ MemberLists(new.listed, IF i + 1 > 2 THEN new.roles ELSE roles, overwritten)
               /\ RefsIn(new.refs, [k \in Kinds |-> IF i + 1 > RegistryAt[k] THEN new.registry[k]
                                                     ELSE registry[k]])
      BY <2>1, <2>2 DEF CopyInv
  <2>4. CASE i = 1
    <3>1. new = [st EXCEPT !.listed = listed]
        BY <2>2, <2>4 DEF Copy, CopyOrder
    <3>. QED BY <2>1, <2>3, <2>4, <3>1 DEF States, TypeOK, MemoryInv, RegistryAt, RefsIn
  <2>5. CASE i = 2
    <3>1. new = [st EXCEPT !.roles = roles]
        BY <2>2, <2>5 DEF Copy, CopyOrder
    <3>. QED BY <2>1, <2>3, <2>5, <3>1 DEF States, TypeOK, RegistryAt, RefsIn
  <2>6. CASE i = 3
    <3>1. new = [st EXCEPT !.refs["pipeline"] = refs["pipeline"]]
        BY <2>2, <2>6 DEF Copy, CopyOrder
    <3>2. /\ new.refs["pipeline"] = refs["pipeline"] /\ new.refs["daemon"] = st.refs["daemon"]
          /\ new.refs \in References
        BY <2>1, <2>3, <3>1 DEF TypeOK, States, References, Kinds
    <3>3. /\ new \in States /\ new.listed = st.listed /\ new.roles = st.roles
          /\ new.registry = st.registry
        BY <2>1, <2>3, <3>1, <3>2 DEF States
    <3>. QED BY <2>1, <2>6, <3>2, <3>3 DEF MemoryInv, RegistryAt, RefsIn, Kinds
  <2>7. CASE i = 4
    <3>1. new = [st EXCEPT !.registry["pipeline"] = registry["pipeline"]]
        BY <2>2, <2>7 DEF Copy, CopyOrder
    <3>2. /\ new.registry["pipeline"] = registry["pipeline"] /\ new.registry["daemon"] = st.registry["daemon"]
          /\ new.registry \in Registries
        BY <2>1, <2>3, <3>1 DEF TypeOK, States, Registries, Kinds
    <3>3. /\ new \in States /\ new.listed = st.listed /\ new.roles = st.roles
          /\ new.refs = st.refs
        BY <2>1, <2>3, <3>1, <3>2 DEF States
    <3>. QED BY <2>1, <2>7, <3>2, <3>3 DEF MemoryInv, RegistryAt, RefsIn, Kinds
  <2>8. CASE i = 5
    <3>1. new = [st EXCEPT !.shared["pipeline"] = shared["pipeline"]]
        BY <2>2, <2>8 DEF Copy, CopyOrder
    <3>2. /\ new.shared["pipeline"] = shared["pipeline"] /\ new.shared["daemon"] = st.shared["daemon"]
          /\ new.shared \in Shares
        BY <2>1, <2>3, <3>1 DEF TypeOK, States, Shares, Kinds
    <3>3. /\ new \in States /\ new.listed = st.listed /\ new.roles = st.roles
          /\ new.refs = st.refs
          /\ new.registry = st.registry
        BY <2>1, <2>3, <3>1, <3>2 DEF States
    <3>. QED BY <2>1, <2>8, <3>2, <3>3 DEF MemoryInv, RegistryAt, RefsIn, Kinds
  <2>9. CASE i = 6
    <3>1. new = [st EXCEPT !.refs["daemon"] = refs["daemon"]]
        BY <2>2, <2>9 DEF Copy, CopyOrder
    <3>2. /\ new.refs["daemon"] = refs["daemon"] /\ new.refs["pipeline"] = st.refs["pipeline"]
          /\ new.refs \in References
        BY <2>1, <2>3, <3>1 DEF TypeOK, States, References, Kinds
    <3>3. /\ new \in States /\ new.listed = st.listed /\ new.roles = st.roles
          /\ new.registry = st.registry
        BY <2>1, <2>3, <3>1, <3>2 DEF States
    <3>. QED BY <2>1, <2>9, <3>2, <3>3 DEF MemoryInv, RegistryAt, RefsIn, Kinds
  <2>10. CASE i = 7
    <3>1. new = [st EXCEPT !.registry["daemon"] = registry["daemon"]]
        BY <2>2, <2>10 DEF Copy, CopyOrder
    <3>2. /\ new.registry["daemon"] = registry["daemon"] /\ new.registry["pipeline"] = st.registry["pipeline"]
          /\ new.registry \in Registries
        BY <2>1, <2>3, <3>1 DEF TypeOK, States, Registries, Kinds
    <3>3. /\ new \in States /\ new.listed = st.listed /\ new.roles = st.roles
          /\ new.refs = st.refs
        BY <2>1, <2>3, <3>1, <3>2 DEF States
    <3>. QED BY <2>1, <2>10, <3>2, <3>3 DEF MemoryInv, RegistryAt, RefsIn, Kinds
  <2>11. CASE i = 8
    <3>1. new = [st EXCEPT !.shared["daemon"] = shared["daemon"]]
        BY <2>2, <2>11 DEF Copy, CopyOrder
    <3>2. /\ new.shared["daemon"] = shared["daemon"] /\ new.shared["pipeline"] = st.shared["pipeline"]
          /\ new.shared \in Shares
        BY <2>1, <2>3, <3>1 DEF TypeOK, States, Shares, Kinds
    <3>3. /\ new \in States /\ new.listed = st.listed /\ new.roles = st.roles
          /\ new.refs = st.refs
          /\ new.registry = st.registry
        BY <2>1, <2>3, <3>1, <3>2 DEF States
    <3>. QED BY <2>1, <2>11, <3>2, <3>3 DEF MemoryInv, RegistryAt, RefsIn, Kinds
  <2>. QED BY <2>1, <2>4, <2>5, <2>6, <2>7, <2>8, <2>9, <2>10, <2>11
<1>. QED BY <1>1, <1>2, <1>3 DEF Inv

LEMMA EndSaveInv == ASSUME Inv, EndSave PROVE Inv'
<1>1. TypeOK' /\ MemoryInv' /\ EarnedInv' /\ CopyInv'
    BY DEF EndSave, memory, Inv, TypeOK, MemoryInv, EarnedInv, CopyInv
<1>2. RequestsInv'
    BY DEF EndSave, memory, Inv, RequestsInv, StillSo
<1>3. FileInv'
  <2>1. /\ copied.next = 9 /\ copied.state \in States /\ file' = copied.state
        /\ MemberLists(copied.state.listed, copied.state.roles, overwritten)
        /\ overwritten' = overwritten
        /\ RefsIn(copied.state.refs,
                  [k \in Kinds |-> IF 9 > RegistryAt[k] THEN copied.state.registry[k]
                                   ELSE registry[k]])
      BY DEF EndSave, Inv, CopyInv, CopyOrder
  <2>2. RefsIn(copied.state.refs, copied.state.registry)
      BY <2>1 DEF RefsIn, RegistryAt
  <2>. QED BY <2>1, <2>2 DEF FileInv
<1>. QED BY <1>1, <1>2, <1>3 DEF Inv

LEMMA RestartInv == ASSUME Inv, Restart PROVE Inv'
<1> DEFINE state == IF file = None THEN Empty ELSE file
<1>1. /\ restarts' = restarts + 1 /\ restarts \in Nat
      /\ copied' = None /\ file' = file /\ overwritten' = overwritten
      /\ request' = [s \in Slots |-> Idle]
      /\ Becomes(state)
    BY DEF Restart, Inv, TypeOK
<1>2. /\ state \in States
      /\ MemberLists(state.listed, state.roles, overwritten)
      /\ RefsIn(state.refs, state.registry)
  <2>1. CASE file = None
    <3>1. state = Empty
        BY <2>1
    <3>2. Empty \in States
        BY DEF Empty, States, Listings, RoleTables, References, Registries, Shares
    <3>3. (\A u \in Users : Empty.listed[u] = {}) /\ (\A k \in Kinds, u \in Users : Empty.refs[k][u] = {})
        BY DEF Empty
    <3>. QED BY <3>1, <3>2, <3>3 DEF MemberLists, RefsIn
  <2>2. CASE file # None
      BY <2>2 DEF Inv, FileInv
  <2>. QED BY <2>1, <2>2
<1>3. TypeOK'
    BY <1>1, <1>2 DEF Inv, TypeOK, States, Becomes
<1>4. MemoryInv'
    BY <1>1, <1>2 DEF MemoryInv, Becomes
<1>5. RequestsInv'
    BY <1>1 DEF RequestsInv, StillSo
<1>6. EarnedInv'
    BY <1>1 DEF EarnedInv
<1>7. CopyInv' /\ FileInv'
    BY <1>1 DEF CopyInv, FileInv, Inv
<1>. QED BY <1>3, <1>4, <1>5, <1>6, <1>7 DEF Inv
-----------------------------------------------------------------------------
LEMMA NextInv == Inv /\ [Next]_vars => Inv'
<1> SUFFICES ASSUME Inv, [Next]_vars PROVE Inv'
    OBVIOUS
<1>1. CASE UNCHANGED vars
  <2>1. TypeOK' /\ MemoryInv' /\ EarnedInv' /\ CopyInv' /\ FileInv'
      BY <1>1 DEF vars, Inv, TypeOK, MemoryInv, EarnedInv, CopyInv, FileInv
  <2>2. RequestsInv'
      BY <1>1 DEF vars, Inv, RequestsInv, StillSo
  <2>. QED BY <2>1, <2>2 DEF Inv
<1>2. ASSUME NEW s \in Slots, OrgInsert(s) PROVE Inv'
    BY <1>2, OrgInsertInv
<1>3. ASSUME NEW s \in Slots, NEW o \in Orgs, NEW u \in Users, NEW role \in Roles,
             OrgAddUser(s, o, u, role)
      PROVE  Inv'
    BY <1>3, OrgAddUserInv
<1>4. ASSUME NEW s \in Slots, OrgListed(s) \/ Insert(s) \/ Refer(s) \/ Add(s) PROVE Inv'
    BY <1>4, OrgListedInv, InsertInv, ReferInv, AddInv
<1>5. ASSUME NEW s \in Slots,
             \/ LookUp(s) \/ CheckReferred(s) \/ Drop(s)
             \/ \E o \in Orgs, u \in Users : OrgRegister(s, o, u)
             \/ \E k \in Kinds, u \in Users, n \in Names :
                  \/ Register(s, k, u, n)
                  \/ Use(s, k, u, n)
                  \/ \E o \in Orgs : Share(s, k, u, n, o)
      PROVE  Inv'
    BY <1>5, RequestActionsInv
<1>6. CASE BeginSave \/ CopyNext \/ EndSave \/ Restart
    BY <1>6, BeginSaveInv, CopyNextInv, EndSaveInv, RestartInv
<1>. QED BY <1>1, <1>2, <1>3, <1>4, <1>5, <1>6 DEF Next

(* All of the invariant, and with it the types. *)
THEOREM Invariance == Spec => []Inv
BY InitInv, NextInv, PTL DEF Spec

(* What a user lists is registered, and what a request found in her list it  *)
(* finds in the registry, with any number of requests dropped half way and   *)
(* after any number of restarts from copies made meanwhile.                  *)
THEOREM ReferencesResolve == Spec => []RefsResolve
<1>1. Inv => RefsResolve
  <2> SUFFICES ASSUME Inv PROVE RefsResolve
      OBVIOUS
  <2>1. \A k \in Kinds, u \in Users : refs[k][u] \subseteq Registered(k)
      BY DEF Inv, MemoryInv, RefsIn, TypeOK, References, Registered
  <2>2. ASSUME NEW s \in Slots, request[s].at \in {"look up", "add"}
        PROVE  Name(s) \in Registered(Kind(s))
    <3>1. request[s] # Idle /\ StillSo(s)
        BY <2>2, UnderWay DEF Phases, Inv, RequestsInv
    <3>. QED BY <2>2, <3>1 DEF StillSo, Registered, Name, Kind
  <2>. QED BY <2>1, <2>2 DEF RefsResolve
<1>. QED BY <1>1, Invariance, PTL

(* Whoever lists an organization has a role in it, also after a restart from *)
(* a copy that was made while people joined, unless two registrations at     *)
(* once made one organization over the other.                                *)
THEOREM ListingIsMembership == Spec => []ListedAreMembers
<1>1. Inv => ListedAreMembers
    BY DEF Inv, MemoryInv, MemberLists, ListedAreMembers
<1>. QED BY <1>1, Invariance, PTL

(* What an organization shows was shared by a member who may share and still *)
(* lists it, with any number of requests at once, and the same exception.    *)
THEOREM SharesAreEarned == Spec => []SharedIsEarned
<1>1. Inv => SharedIsEarned
    BY DEF Inv, EarnedInv, SharedIsEarned, Lists
<1>. QED BY <1>1, Invariance, PTL

------------------------------------------------------------------------------
(* When a daemon runs *)
ScheduleType ==
    /\ task_at \in {"ticking", "locking", "running"}
    /\ tick_in \in Int
    /\ {next_run, busy, since_end} \subseteq Nat
    /\ since_called \in 0..Frequency

\* The daemon is due a period after the end of the last run that called its
\* plugin or pipeline.  The interval is never more than a period ahead: it is
\* overdue already, or the tick that was lost before it came less than a period
\* after that end, with no run since.
ScheduleInv ==
    /\ ScheduleType
    /\ tick_in <= Frequency
    /\ next_run = Frequency - since_called
    /\ since_called < Frequency => since_end <= since_called
    /\ task_at = "ticking" => since_end + Pos(tick_in) <= 2 * Frequency
    /\ task_at = "locking" => busy <= MaxWait /\ since_end <= 2 * Frequency + busy

LEMMA ScheduleBegins == ScheduleInit => ScheduleInv
BY ScheduleAssumption DEF ScheduleInit, ScheduleInv, ScheduleType, Pos

LEMMA ScheduleStep == ScheduleInv /\ [ScheduleNext]_scheduleVars => ScheduleInv'
<1> SUFFICES ASSUME ScheduleInv, [ScheduleNext]_scheduleVars PROVE ScheduleInv'
  OBVIOUS
<1> USE ScheduleAssumption DEF ScheduleInv, ScheduleType, Pos
<1>1. CASE TickReceived
  BY <1>1 DEF TickReceived
<1>2. CASE RunBegins
  BY <1>2 DEF RunBegins
\* The tick was lost since the daemon was not due: less than a period has gone.
<1>3. CASE TickLost
  BY <1>3 DEF TickLost, ShouldRun
<1>4. CASE RunEnds
  BY <1>4 DEF RunEnds, NextRun
<1>missed. CASE RunMissed
  BY <1>missed DEF RunMissed
<1>5. CASE Elapse
  <2>1. CASE task_at = "ticking"
    BY <1>5, <2>1 DEF Elapse
  <2>2. CASE task_at = "locking"
    BY <1>5, <2>2 DEF Elapse
  <2>3. CASE task_at = "running"
    BY <1>5, <2>3 DEF Elapse
  <2> QED
    BY <2>1, <2>2, <2>3
<1>6. CASE UNCHANGED scheduleVars
  BY <1>6 DEF scheduleVars
<1> QED
  BY <1>missed, <1>1, <1>2, <1>3, <1>4, <1>5, <1>6 DEF ScheduleNext

LEMMA ScheduleHolds == ScheduleSpec => []ScheduleInv
BY ScheduleBegins, ScheduleStep, PTL DEF ScheduleSpec

\* A run of an active daemon begins no sooner than a period after the end of
\* the last one that called its plugin or pipeline (Daemon::run, should_run).
THEOREM RunsKeepDistance == ScheduleSpec => RunsSpaced
<1>1. ScheduleInv /\ [ScheduleNext]_scheduleVars =>
          [task_at # "running" /\ task_at' = "running" => since_called >= Frequency]_scheduleVars
  <2> SUFFICES ASSUME ScheduleInv, ScheduleNext, task_at # "running", task_at' = "running"
               PROVE  since_called >= Frequency
    BY DEF scheduleVars
  <2>1. RunBegins
    BY DEF ScheduleNext, TickReceived, TickLost, RunEnds, RunMissed, Elapse
  <2> QED
    BY <2>1, ScheduleAssumption DEF ScheduleInv, ScheduleType, RunBegins, ShouldRun, Pos
<1> QED
  BY <1>1, ScheduleHolds, PTL DEF RunsSpaced, ScheduleSpec

\* An active daemon waits at most two periods and one wait for the lock of its
\* registry between two runs (run_daemon_task).
THEOREM DaemonsDoNotIdle == ScheduleSpec => []IdleBounded
<1>1. ScheduleInv => IdleBounded
  BY ScheduleAssumption DEF ScheduleInv, ScheduleType, IdleBounded, MaxGap, Pos
<1> QED
  BY <1>1, ScheduleHolds, PTL
------------------------------------------------------------------------------
(* One run of a pipeline *)

Path == Seq(Nat) \ {<<>>}

\* q is p or above it; q and p part ways at a stage where q goes first.
Above(q, p) == Len(q) <= Len(p) /\ \A k \in 1..Len(q) : q[k] = p[k]
Branches(q, p) ==
    \E i \in 1..Len(q) : /\ i <= Len(p)
                         /\ \A k \in 1..i - 1 : q[k] = p[k]
                         /\ q[i] < p[i]

LEMMA SamePath ==
    ASSUME NEW q \in Seq(Nat), NEW p \in Seq(Nat), Len(q) = Len(p),
           \A k \in 1..Len(q) : q[k] = p[k]
    PROVE  q = p
OBVIOUS

\* What the two ways to start alike say of the elements.
LEMMA SameStart ==
    ASSUME NEW q \in Seq(Nat), NEW p \in Seq(Nat), NEW n \in Nat, n <= Len(q), n <= Len(p)
    PROVE  SubSeq(q, 1, n) = SubSeq(p, 1, n) <=> \A k \in 1..n : q[k] = p[k]
<1>1. /\ SubSeq(q, 1, n) \in Seq(Nat) /\ Len(SubSeq(q, 1, n)) = n
      /\ \A k \in 1..n : SubSeq(q, 1, n)[k] = q[k]
  OBVIOUS
<1>2. /\ SubSeq(p, 1, n) \in Seq(Nat) /\ Len(SubSeq(p, 1, n)) = n
      /\ \A k \in 1..n : SubSeq(p, 1, n)[k] = p[k]
  OBVIOUS
<1>3. ASSUME \A k \in 1..n : q[k] = p[k] PROVE SubSeq(q, 1, n) = SubSeq(p, 1, n)
  BY <1>1, <1>2, <1>3, SamePath
<1> QED
  BY <1>1, <1>2, <1>3

\* Before, element by element.
LEMMA BeforeByPlace ==
    ASSUME NEW q \in Seq(Nat), NEW p \in Seq(Nat)
    PROVE  Before(q, p) <=> (Above(q, p) /\ q # p) \/ Branches(q, p)
<1>1. IsStrictPrefix(q, p) <=> Above(q, p) /\ q # p
  <2>1. Len(q) <= Len(p) => (SubSeq(q, 1, Len(q)) = SubSeq(p, 1, Len(q))
                                <=> \A k \in 1..Len(q) : q[k] = p[k])
    BY SameStart
  <2> QED
    BY <2>1 DEF IsStrictPrefix, IsPrefix, Above
<1>2. ASSUME NEW i \in 1..Len(q), i <= Len(p)
      PROVE  SubSeq(q, 1, i - 1) = SubSeq(p, 1, i - 1) <=> \A k \in 1..i - 1 : q[k] = p[k]
  BY <1>2, SameStart
<1> QED
  BY <1>1, <1>2 DEF Before, Branches

LEMMA PathEnds ==
    ASSUME NEW p \in Path
    PROVE  /\ Front(p) \in Seq(Nat) /\ Len(Front(p)) = Len(p) - 1
           /\ \A k \in 1..Len(p) - 1 : Front(p)[k] = p[k]
           /\ Last(p) \in Nat /\ Last(p) = p[Len(p)] /\ Len(p) \in Nat \ {0}
<1>1. p \in Seq(Nat) /\ Len(p) \in Nat \ {0}
  BY EmptySeq DEF Path
<1> DEFINE n == Len(p) - 1
<1>2. n \in Nat /\ n <= Len(p)
  BY <1>1
<1>3. /\ Front(p) \in Seq(Nat) /\ Len(Front(p)) = n
      /\ \A k \in 1..n : Front(p)[k] = p[k]
  <2>1. Front(p) = SubSeq(p, 1, n)
    BY DEF Front
  <2> HIDE DEF n
  <2> QED
    BY <1>1, <1>2, <2>1
<1> QED
  BY <1>1, <1>3 DEF Last

LEMMA ChildPath ==
    ASSUME NEW p \in Seq(Nat), NEW n \in Nat
    PROVE  /\ Append(p, n) \in Path /\ Len(Append(p, n)) = Len(p) + 1
           /\ \A k \in 1..Len(p) : Append(p, n)[k] = p[k]
           /\ Append(p, n)[Len(p) + 1] = n
           /\ Front(Append(p, n)) = p /\ Last(Append(p, n)) = n
<1>1. /\ Append(p, n) \in Seq(Nat) /\ Len(Append(p, n)) = Len(p) + 1
      /\ \A k \in 1..Len(p) : Append(p, n)[k] = p[k]
      /\ Append(p, n)[Len(p) + 1] = n
  OBVIOUS
<1>2. Append(p, n) \in Path
  BY <1>1, EmptySeq DEF Path
<1>3. Front(Append(p, n)) = p
  <2> DEFINE c == Append(p, n)
             f == Front(c)
  <2>1. f \in Seq(Nat) /\ Len(f) = Len(p) /\ \A k \in 1..Len(p) : f[k] = p[k]
    <3>1. c \in Path /\ Len(c) = Len(p) + 1 /\ \A k \in 1..Len(p) : c[k] = p[k]
      BY <1>1, <1>2
    <3> HIDE DEF c
    <3> QED
      BY SMTT(30), <3>1, PathEnds
  <2> HIDE DEF f
  <2>2. f = p
    BY <2>1, SamePath
  <2> QED
    BY <2>2 DEF f
<1> QED
  BY <1>1, <1>2, <1>3, PathEnds

LEMMA ChildIs ==
    ASSUME NEW p \in Seq(Nat), NEW n \in Nat, NEW c, c = Append(p, n)
    PROVE  /\ c \in Path /\ Len(c) = Len(p) + 1
           /\ \A k \in 1..Len(p) : c[k] = p[k]
           /\ c[Len(p) + 1] = n
           /\ Front(c) = p /\ Last(c) = n
BY ChildPath

\* A stage is a child of the one right above it.
LEMMA ChildOfFront ==
    ASSUME NEW p \in Path
    PROVE  p = Append(Front(p), Last(p))
<1> DEFINE c == Append(Front(p), Last(p))
<1>1. /\ p \in Seq(Nat) /\ Len(p) \in Nat \ {0}
      /\ Front(p) \in Seq(Nat) /\ Len(Front(p)) = Len(p) - 1 /\ Last(p) \in Nat
      /\ \A k \in 1..Len(p) - 1 : Front(p)[k] = p[k]
      /\ Last(p) = p[Len(p)]
  BY PathEnds DEF Path
<1>2. /\ c \in Seq(Nat) /\ Len(c) = Len(p)
      /\ \A k \in 1..Len(p) - 1 : c[k] = p[k]
      /\ c[Len(p)] = p[Len(p)]
  BY <1>1
<1> HIDE DEF c
<1>3. \A k \in 1..Len(p) : c[k] = p[k]
  BY <1>1, <1>2
<1>4. p = c
  BY <1>1, <1>2, <1>3, SamePath
<1> QED
  BY <1>4 DEF c

\* The order of the text is one.
LEMMA NotBothBefore ==
    ASSUME NEW q \in Seq(Nat), NEW p \in Seq(Nat), Before(q, p), Before(p, q)
    PROVE  FALSE
<1>1. /\ (Above(q, p) /\ q # p) \/ Branches(q, p)
      /\ (Above(p, q) /\ q # p) \/ Branches(p, q)
  BY BeforeByPlace
<1>2. ~(Above(q, p) /\ Above(p, q) /\ q # p)
  BY SMTT(30), SamePath DEF Above
<1>3. \A a, b \in Seq(Nat) : ~(Above(a, b) /\ Branches(b, a)) /\ ~(Above(a, b) /\ Branches(a, b))
  BY DEF Above, Branches
<1>4. ~(Branches(q, p) /\ Branches(p, q))
  BY DEF Branches
<1> QED
  BY <1>1, <1>2, <1>3, <1>4

LEMMA BeforeBelow ==
    ASSUME NEW q \in Seq(Nat), NEW p \in Seq(Nat), NEW r \in Seq(Nat),
           Before(q, p), Above(p, r)
    PROVE  Before(q, r)
<1>1. CASE Branches(q, p)
  <2>1. Branches(q, r)
    BY <1>1 DEF Branches, Above
  <2> QED
    BY <2>1, BeforeByPlace
<1>2. CASE Above(q, p) /\ q # p
  <2>1. Above(q, r)
    BY <1>2 DEF Above
  <2>2. Len(q) < Len(p)
    BY <1>2, SamePath DEF Above
  <2>3. q # r
    BY <2>2 DEF Above
  <2> QED
    BY <2>1, <2>3, BeforeByPlace
<1> QED
  BY <1>1, <1>2, BeforeByPlace

LEMMA BranchBelow ==
    ASSUME NEW q \in Seq(Nat), NEW p \in Seq(Nat), NEW s \in Seq(Nat), NEW r \in Seq(Nat),
           Branches(q, p), Above(q, s), Above(p, r)
    PROVE  Branches(s, r)
<1>1. PICK i \in 1..Len(q) : i <= Len(p) /\ (\A k \in 1..i - 1 : q[k] = p[k]) /\ q[i] < p[i]
  BY DEF Branches
<1>2. i \in 1..Len(s) /\ i <= Len(r)
  BY SMTT(30), <1>1 DEF Above
<1>3. s[i] = q[i] /\ r[i] = p[i] /\ \A k \in 1..i - 1 : s[k] = q[k] /\ r[k] = p[k]
  BY SMTT(30), <1>1 DEF Above
<1> QED
  BY <1>1, <1>2, <1>3 DEF Branches
(* How many children there are. *)

LEMMA NumbersBelow ==
    ASSUME NEW n \in Nat
    PROVE  IsFiniteSet(0..n - 1) /\ Cardinality(0..n - 1) = n
BY FS_Interval

LEMMA NumberedWidth ==
    ASSUME NEW A, NEW f \in Seq(Nat), NEW n \in Nat,
           { q \in A : q # <<>> /\ Front(q) = f } = { Append(f, i) : i \in 0..n - 1 }
    PROVE  Width(A, f) = n
<1> DEFINE S == { Append(f, i) : i \in 0..n - 1 }
           g == [i \in 0..n - 1 |-> Append(f, i)]
<1>1. IsFiniteSet(0..n - 1) /\ Cardinality(0..n - 1) = n
  BY NumbersBelow
<1>2. \A i, j \in 0..n - 1 : g[i] = g[j] => i = j
  BY ChildPath
<1>3. g \in Bijection(0..n - 1, S)
  BY <1>2 DEF Bijection, Injection, Surjection, IsInjective
<1>4. Cardinality(S) = n
  BY <1>1, <1>3, FS_Bijection DEF ExistsBijection
<1> QED
  BY <1>4 DEF Width

\* The children of a stage are those with the numbers below their number.
LEMMA NumberedChildren ==
    ASSUME NEW A, IsFiniteSet(A), A \subseteq Path,
           \A p \in A : Last(p) < Width(A, Front(p)),
           NEW f \in Seq(Nat)
    PROVE  /\ Width(A, f) \in Nat
           /\ { q \in A : q # <<>> /\ Front(q) = f }
                  = { Append(f, i) : i \in 0..Width(A, f) - 1 }
<1> DEFINE C == { q \in A : q # <<>> /\ Front(q) = f }
           n == Width(A, f)
           g == [q \in C |-> Last(q)]
<1>1. IsFiniteSet(C) /\ n = Cardinality(C) /\ n \in Nat
  BY FS_Subset, FS_CardinalityType DEF Width
<1>2. IsFiniteSet(0..n - 1) /\ Cardinality(0..n - 1) = n
  BY <1>1, NumbersBelow
<1>3. \A q \in C : /\ q \in Path /\ Front(q) = f
                   /\ g[q] = Last(q) /\ Last(q) \in 0..n - 1 /\ q = Append(f, Last(q))
  BY <1>1, PathEnds, ChildOfFront
<1> HIDE DEF n
<1>4. g \in Injection(C, 0..n - 1)
  <2>1. g \in [C -> 0..n - 1]
    BY <1>3
  <2>2. \A q, p \in C : g[q] = g[p] => q = p
    BY <1>3
  <2> HIDE DEF g, C
  <2> QED
    BY <2>1, <2>2 DEF Injection, IsInjective
<1>5. g \in Surjection(C, 0..n - 1)
  <2> HIDE DEF g, C
  <2> QED
    BY <1>1, <1>2, <1>4, FS_Injection
<1>6. \A i \in 0..n - 1 : \E q \in C : g[q] = i
  BY <1>5 DEF Surjection
<1>7. C = { Append(f, i) : i \in 0..n - 1 }
  BY <1>3, <1>6
<1> QED
  BY <1>1, <1>7 DEF n

(* Stages above and below each other. *)

Forest(S) ==
    /\ IsFiniteSet(S) /\ S \subseteq Path
    /\ \A p \in S : /\ \A k \in 1..Len(p) - 1 : SubSeq(p, 1, k) \in S
                   /\ Last(p) < Width(S, Front(p))

LEMMA PipelinesAreForests == \A pl \in Pipelines : Forest(pl.stages)
BY PipelinesAssumption DEF PipelineOK, Forest, Path

LEMMA KidsAre ==
    ASSUME NEW S, Forest(S), NEW p \in Seq(Nat)
    PROVE  /\ Kids(S, p) \in Seq(S) /\ Len(Kids(S, p)) = Width(S, p) /\ Width(S, p) \in Nat
           /\ \A i \in 1..Len(Kids(S, p)) :
                 /\ Kids(S, p)[i] = Append(p, i - 1)
                 /\ Kids(S, p)[i] \in S /\ i - 1 \in Nat
           /\ { q \in S : q # <<>> /\ Front(q) = p } = { Append(p, i) : i \in 0..Width(S, p) - 1 }
<1>1. /\ Width(S, p) \in Nat
      /\ { q \in S : q # <<>> /\ Front(q) = p } = { Append(p, i) : i \in 0..Width(S, p) - 1 }
  BY NumberedChildren DEF Forest
<1> DEFINE n == Width(S, p)
<1> HIDE DEF n
<1>2. n \in Nat /\ \A i \in 1..n : i - 1 \in Nat /\ Append(p, i - 1) \in S
  <2>1. n \in Nat
    BY <1>1 DEF n
  <2>2. \A k \in 0..n - 1 : Append(p, k) \in S
    BY <1>1 DEF n
  <2>3. \A i \in 1..n : i - 1 \in 0..n - 1 /\ i - 1 \in Nat
    BY <2>1
  <2> QED
    BY <2>1, <2>2, <2>3
<1>3. Kids(S, p) = [i \in 1..n |-> Append(p, i - 1)]
  BY DEF Kids, n
<1>4. Kids(S, p) \in Seq(S) /\ Len(Kids(S, p)) = n
  BY <1>2, <1>3
<1> QED
  BY <1>1, <1>2, <1>3, <1>4 DEF n

\* Kids part ways with each other, and come below their parent.
LEMMA KidsInOrder ==
    ASSUME NEW S, Forest(S), NEW p \in Seq(Nat), NEW i \in 1..Len(Kids(S, p))
    PROVE  /\ Kids(S, p)[i] \in Path /\ Front(Kids(S, p)[i]) = p
           /\ Above(p, Kids(S, p)[i]) /\ p # Kids(S, p)[i]
           /\ \A j \in 1..Len(Kids(S, p)) : i < j => Branches(Kids(S, p)[i], Kids(S, p)[j])
<1>1. \A j \in 1..Len(Kids(S, p)) : Kids(S, p)[j] = Append(p, j - 1) /\ j - 1 \in Nat
  BY KidsAre
<1>2. /\ Kids(S, p)[i] \in Path /\ Front(Kids(S, p)[i]) = p
      /\ Len(Kids(S, p)[i]) = Len(p) + 1
      /\ \A k \in 1..Len(p) : Kids(S, p)[i][k] = p[k]
      /\ Kids(S, p)[i][Len(p) + 1] = i - 1
  BY <1>1, ChildIs
<1>3. ASSUME NEW j \in 1..Len(Kids(S, p)), i < j
      PROVE  Branches(Kids(S, p)[i], Kids(S, p)[j])
  <2> DEFINE a == Kids(S, p)[i]
             b == Kids(S, p)[j]
  <2>1. /\ Len(b) = Len(p) + 1
        /\ \A k \in 1..Len(p) : b[k] = p[k]
        /\ b[Len(p) + 1] = j - 1
    <3>1. b = Append(p, j - 1) /\ j - 1 \in Nat
      BY <1>1
    <3> HIDE DEF b
    <3> QED
      BY <3>1, ChildIs
  <2>2. Len(p) \in Nat
    OBVIOUS
  <2> HIDE DEF a, b
  <2>3. Branches(a, b)
    <3> DEFINE k == Len(p) + 1
    <3>1. k \in 1..Len(a) /\ k <= Len(b) /\ a[k] < b[k]
      BY <1>2, <1>3, <2>1, <2>2 DEF a, b
    <3>2. \A l \in 1..k - 1 : a[l] = b[l]
      BY SMTT(30), <1>2, <2>1, <2>2 DEF a, b
    <3> QED
      BY <3>1, <3>2 DEF Branches
  <2> QED
    BY <2>3 DEF a, b
<1>4. Above(p, Kids(S, p)[i]) /\ p # Kids(S, p)[i]
  BY <1>2 DEF Above
<1> QED
  BY <1>2, <1>3, <1>4

\* Between a stage and one far below it is a child of the former.
LEMMA KidBetween ==
    ASSUME NEW S, Forest(S), NEW p \in Seq(Nat), NEW q \in S, Above(p, q), p # q
    PROVE  \E i \in 1..Len(Kids(S, p)) : Above(Kids(S, p)[i], q)
<1> DEFINE n == Len(p) + 1
           c == SubSeq(q, 1, n)
<1>1. q \in Path /\ q \in Seq(Nat) /\ Len(p) \in Nat /\ Len(p) < Len(q)
  BY SamePath DEF Forest, Path, Above
<1>2. n \in Nat \ {0} /\ n <= Len(q)
  BY <1>1
<1>3. c \in S
  <2>1. CASE n = Len(q)
    <3>1. c = q
      BY <1>1, <2>1, SubSeqFull
    <3> QED
      BY <3>1
  <2>2. CASE n < Len(q)
    BY <1>1, <1>2, <2>2 DEF Forest
  <2> QED
    BY <1>1, <1>2, <2>1, <2>2
<1>4. c \in Seq(Nat) /\ Len(c) = n /\ \A k \in 1..n : c[k] = q[k]
  <2> HIDE DEF n
  <2> QED
    BY <1>1, <1>2
<1>5. Above(c, q)
  BY <1>2, <1>4 DEF Above
<1>6. c \in Path
  BY <1>3 DEF Forest
<1> HIDE DEF c
<1>7. Front(c) = p
  <2>1. Front(c) \in Seq(Nat) /\ Len(Front(c)) = Len(p) /\ \A k \in 1..Len(p) : Front(c)[k] = c[k]
    <3>1. /\ Front(c) \in Seq(Nat) /\ Len(Front(c)) = Len(c) - 1
          /\ \A k \in 1..Len(c) - 1 : Front(c)[k] = c[k]
      BY <1>6, PathEnds
    <3>2. Len(c) - 1 = Len(p)
      BY <1>1, <1>4
    <3> QED
      BY <3>1, <3>2
  <2>2. \A k \in 1..Len(p) : c[k] = q[k] /\ q[k] = p[k]
    BY SMTT(30), <1>1, <1>4 DEF Above
  <2>3. \A k \in 1..Len(p) : Front(c)[k] = p[k]
    BY <2>1, <2>2
  <2> QED
    BY <2>1, <2>3, SamePath
<1>8. c # <<>>
  BY <1>6 DEF Path
<1>9. PICK i \in 0..Width(S, p) - 1 : c = Append(p, i)
  BY <1>3, <1>7, <1>8, KidsAre
<1>10. i + 1 \in 1..Len(Kids(S, p)) /\ Kids(S, p)[i + 1] = c
  BY <1>9, KidsAre
<1> QED
  BY <1>5, <1>10

\* The siblings before a stage.
LEMMA SiblingsBefore ==
    ASSUME NEW S, Forest(S), NEW p \in S
    PROVE  Width({ q \in S : Before(q, p) }, Front(p)) = Last(p)
<1> DEFINE f == Front(p)
           n == Last(p)
<1>1. /\ p \in Path /\ f \in Seq(Nat) /\ n \in Nat /\ p = Append(f, n) /\ n < Width(S, f)
      /\ Len(p) = Len(f) + 1
  BY PathEnds, ChildOfFront DEF Forest
<1>2. /\ Width(S, f) \in Nat
      /\ { q \in S : q # <<>> /\ Front(q) = f } = { Append(f, i) : i \in 0..Width(S, f) - 1 }
  BY <1>1, KidsAre
<1> HIDE DEF f, n
<1>3. ASSUME NEW i \in Nat PROVE Before(Append(f, i), p) <=> i < n
  <2> DEFINE a == Append(f, i)
             k == Len(f) + 1
  <2>1. /\ a \in Seq(Nat) /\ p \in Seq(Nat) /\ Len(a) = k /\ Len(p) = k /\ k \in Nat
        /\ \A l \in 1..k - 1 : a[l] = p[l]
        /\ a[k] = i /\ p[k] = n
    BY <1>1, ChildPath DEF Path
  <2> HIDE DEF a, k
  <2>2. i < n => Branches(a, p)
    BY <2>1 DEF Branches
  <2>3. ~(Above(a, p) /\ a # p)
    BY <2>1, SamePath DEF Above
  <2>4. Branches(a, p) => i < n
    BY <2>1 DEF Branches
  <2>5. Before(a, p) <=> i < n
    BY <2>1, <2>2, <2>3, <2>4, BeforeByPlace
  <2> QED
    BY <2>5 DEF a
<1>4. { q \in { r \in S : Before(r, p) } : q # <<>> /\ Front(q) = f }
          = { q \in { Append(f, i) : i \in 0..Width(S, f) - 1 } : Before(q, p) }
  BY <1>2
<1>5. { q \in { Append(f, i) : i \in 0..Width(S, f) - 1 } : Before(q, p) }
          = { Append(f, i) : i \in 0..n - 1 }
  <2> DEFINE w == Width(S, f)
  <2>1. n \in Nat /\ w \in Nat /\ n < w
    BY <1>1, <1>2
  <2> HIDE DEF w
  <2>2. \A i \in 0..w - 1 : i \in Nat /\ (i \in 0..n - 1 <=> i < n)
    BY <2>1
  <2>3. \A i \in 0..n - 1 : i \in 0..w - 1
    BY <2>1
  <2>4. { q \in { Append(f, i) : i \in 0..w - 1 } : Before(q, p) }
            = { Append(f, i) : i \in 0..n - 1 }
    BY <1>3, <2>2, <2>3
  <2> QED
    BY <2>4 DEF w
<1>6. Width({ q \in S : Before(q, p) }, f) = n
  BY <1>1, <1>4, <1>5, NumberedWidth
<1> QED
  BY <1>6 DEF f, n

(* The run. *)

\* What is to run covers what has not run, in the order of the text, and what
\* has run put its output at its own path.
RunInv ==
    /\ pipeline \in Pipelines
    /\ todo \in Seq(pipeline.stages)
    /\ DOMAIN acc \subseteq pipeline.stages
    /\ \A q \in DOMAIN acc : acc[q] = q
    /\ \A q \in pipeline.stages \ DOMAIN acc : \E i \in 1..Len(todo) : Above(todo[i], q)
    /\ \A i, j \in 1..Len(todo) : i < j => Branches(todo[i], todo[j])
    /\ \A q \in DOMAIN acc, i \in 1..Len(todo) : Before(q, todo[i])
    /\ \A i \in 1..Len(todo) : Front(todo[i]) \in DOMAIN acc \cup {Input}
    /\ phase = "called" => todo # <<>>

LEMMA RunBeginsWell == RunInit => RunInv
<1> SUFFICES ASSUME RunInit PROVE RunInv
  OBVIOUS
<1> DEFINE S == pipeline.stages
<1>1. Forest(S) /\ pipeline \in Pipelines /\ Input \in Seq(Nat) /\ Len(Input) = 0
  <2>1. Forest(S) /\ pipeline \in Pipelines
    BY PipelinesAreForests DEF RunInit
  <2>2. Input \in Seq(Nat) /\ Len(Input) = 0
    BY EmptySeq DEF Input
  <2> QED
    BY <2>1, <2>2
<1>2. todo = Kids(S, Input) /\ DOMAIN acc = {} /\ (phase = "called" => todo # <<>>)
  BY DEF RunInit, Input
<1> HIDE DEF S
<1>3. todo \in Seq(S) /\ \A i \in 1..Len(todo) : Front(todo[i]) = Input
  <2>1. Kids(S, Input) \in Seq(S)
    BY <1>1, KidsAre
  <2>2. \A i \in 1..Len(Kids(S, Input)) : Front(Kids(S, Input)[i]) = Input
    BY <1>1, KidsInOrder
  <2> QED
    BY <1>2, <2>1, <2>2
<1>4. \A i, j \in 1..Len(todo) : i < j => Branches(todo[i], todo[j])
  BY <1>1, <1>2, KidsInOrder
<1>5. ASSUME NEW q \in S PROVE \E i \in 1..Len(todo) : Above(todo[i], q)
  <2>1. q \in Seq(Nat) /\ q # Input /\ Above(Input, q)
    BY <1>1 DEF Forest, Path, Input, Above
  <2> QED
    BY <1>1, <1>2, <2>1, KidBetween
<1> QED
  BY <1>1, <1>2, <1>3, <1>4, <1>5 DEF RunInv, S

\* What has run when a stage is next is what is written before it.
LEMMA RanBefore ==
    ASSUME RunInv, todo # <<>>
    PROVE  /\ Forest(pipeline.stages) /\ Head(todo) \in pipeline.stages
           /\ Len(todo) \in Nat \ {0} /\ Head(todo) = todo[1]
           /\ DOMAIN acc = EarlierStages(Head(todo))
<1> DEFINE S == pipeline.stages
           p == Head(todo)
<1>1. Forest(S) /\ todo \in Seq(S) /\ Len(todo) \in Nat \ {0} /\ p = todo[1] /\ p \in S
  BY PipelinesAreForests, EmptySeq DEF RunInv
<1>2. S \subseteq Seq(Nat)
  BY <1>1 DEF Forest, Path
<1>3. \A q \in DOMAIN acc : q \in S /\ Before(q, p)
  BY <1>1 DEF RunInv
<1>4. ASSUME NEW q \in S, Before(q, p), q \notin DOMAIN acc PROVE FALSE
  <2>1. PICK i \in 1..Len(todo) : Above(todo[i], q)
    BY <1>4 DEF RunInv
  <2>2. q \in Seq(Nat) /\ p \in Seq(Nat) /\ todo[i] \in Seq(Nat)
    BY <1>1, <1>2, <2>1
  <2>3. CASE i = 1
    <3>1. Above(p, q)
      BY <1>1, <2>1, <2>3
    <3>2. Before(p, q) \/ p = q
      BY <2>2, <3>1, BeforeByPlace
    <3> QED
      BY <1>4, <2>2, <3>2, NotBothBefore
  <2>4. CASE i # 1
    <3>1. Branches(p, todo[i])
      BY <1>1, <2>1, <2>4 DEF RunInv
    <3>2. Above(p, p)
      BY <2>2 DEF Above
    <3>3. Branches(p, q)
      BY <2>1, <2>2, <3>1, <3>2, BranchBelow
    <3> QED
      BY <1>4, <2>2, <3>3, BeforeByPlace, NotBothBefore
  <2> QED
    BY <2>3, <2>4
<1> QED
  BY <1>1, <1>3, <1>4 DEF EarlierStages

\* run_pipeline_stage pushes outputs by position: they come to stand at the
\* path of their stage.
LEMMA PushedAtItsPath ==
    ASSUME RunInv, todo # <<>>
    PROVE  PushedAt(Head(todo)) = Head(todo)
<1> DEFINE S == pipeline.stages
           p == Head(todo)
<1>1. /\ Forest(S) /\ p \in S /\ p = todo[1] /\ 1 \in 1..Len(todo)
      /\ DOMAIN acc = { q \in S : Before(q, p) }
  BY RanBefore DEF EarlierStages
<1>2. Front(p) \in DOMAIN acc \/ Front(p) = <<>>
  BY <1>1 DEF RunInv, Input
<1>3. Width(DOMAIN acc, Front(p)) = Last(p)
  BY <1>1, SiblingsBefore
<1>4. p = Append(Front(p), Last(p))
  BY <1>1, ChildOfFront DEF Forest
<1> QED
  BY <1>2, <1>3, <1>4 DEF PushedAt

\* The stages to run after a stage: its children, then those it came before.
LEMMA ToRunAfter ==
    ASSUME NEW S, Forest(S), S = pipeline.stages, todo \in Seq(S), todo # <<>>
    PROVE  LET n == Len(Kids(S, Head(todo)))
               next == AfterStage(Head(todo))
           IN
           /\ n \in Nat /\ next \in Seq(S) /\ Len(next) = n + Len(todo) - 1
           /\ \A i \in 1..n : next[i] = Kids(S, Head(todo))[i]
           /\ \A i \in n + 1..Len(next) : next[i] = todo[i - n + 1] /\ i - n + 1 \in 2..Len(todo)
           /\ \A i \in 2..Len(todo) : next[n + i - 1] = todo[i] /\ n + i - 1 \in n + 1..Len(next)
<1> DEFINE K == Kids(S, Head(todo))
           T == Tail(todo)
           n == Len(K)
           next == AfterStage(Head(todo))
<1>1. /\ Head(todo) \in S /\ T \in Seq(S) /\ Len(T) = Len(todo) - 1 /\ Len(todo) \in Nat \ {0}
      /\ \A i \in 1..Len(T) : T[i] = todo[i + 1]
  <2>1. Len(todo) \in Nat \ {0}
    BY EmptySeq
  <2> QED
    BY <2>1, HeadTailProperties
<1>2. K \in Seq(S) /\ Len(K) = n /\ n \in Nat
  BY SMTT(30), <1>1, KidsAre DEF Forest, Path
<1>3. next = K \o T
  BY DEF AfterStage
<1> HIDE DEF K, T, n, next
<1>4. /\ next \in Seq(S) /\ Len(next) = n + Len(T)
      /\ \A i \in 1..n + Len(T) : next[i] = IF i <= n THEN K[i] ELSE T[i - n]
  <2>1. /\ K \o T \in Seq(S) /\ Len(K \o T) = Len(K) + Len(T)
        /\ \A i \in 1..Len(K) + Len(T) :
              (K \o T)[i] = IF i <= Len(K) THEN K[i] ELSE T[i - Len(K)]
    BY <1>1, <1>2, ConcatProperties
  <2> QED
    BY <1>2, <1>3, <2>1
<1>5. Len(next) = n + Len(todo) - 1
  BY <1>1, <1>2, <1>4
<1>6. \A i \in 1..n : next[i] = K[i]
  BY <1>1, <1>2, <1>4
<1>7. ASSUME NEW i \in n + 1..Len(next)
      PROVE  next[i] = todo[i - n + 1] /\ i - n + 1 \in 2..Len(todo)
  <2>1. next[i] = T[i - n] /\ i - n \in 1..Len(T)
    BY <1>1, <1>2, <1>4
  <2>2. T[i - n] = todo[(i - n) + 1] /\ (i - n) + 1 \in 2..Len(todo)
    BY <1>1, <2>1
  <2>3. (i - n) + 1 = i - n + 1
    BY <1>2
  <2> QED
    BY <2>1, <2>2, <2>3
<1>8. ASSUME NEW i \in 2..Len(todo)
      PROVE  next[n + i - 1] = todo[i] /\ n + i - 1 \in n + 1..Len(next)
  <2>1. n + i - 1 \in n + 1..Len(next)
    BY <1>1, <1>2, <1>5
  <2>2. (n + i - 1) - n + 1 = i
    BY <1>2
  <2> QED
    BY <1>7, <2>1, <2>2
<1> QED
  BY <1>2, <1>4, <1>5, <1>6, <1>7, <1>8 DEF K, n, next

LEMMA StageOkKeeps == RunInv /\ StageOk => RunInv'
<1> SUFFICES ASSUME RunInv, StageOk PROVE RunInv'
  OBVIOUS
<1> DEFINE S == pipeline.stages
           p == Head(todo)
           K == Kids(S, p)
           n == Len(K)
<1>1. todo # <<>> /\ todo \in Seq(S) /\ pipeline \in Pipelines
  BY DEF RunInv, StageOk
<1>2. /\ Forest(S) /\ p \in S /\ p = todo[1] /\ Len(todo) \in Nat \ {0}
      /\ DOMAIN acc = { q \in S : Before(q, p) }
  BY <1>1, RanBefore DEF EarlierStages
<1>3. S \subseteq Seq(Nat) /\ S \subseteq Path
  BY <1>2 DEF Forest, Path
<1>4. /\ pipeline' = pipeline /\ phase' = "calling" /\ todo' = AfterStage(p)
      /\ acc' = [q \in DOMAIN acc \cup {p} |-> IF q = p THEN p ELSE acc[q]]
  BY <1>1, PushedAtItsPath DEF StageOk
<1>5. DOMAIN acc' = DOMAIN acc \cup {p} /\ \A q \in DOMAIN acc' : acc'[q] = q
  BY <1>4 DEF RunInv
<1>6. /\ n \in Nat /\ todo' \in Seq(S) /\ Len(todo') = n + Len(todo) - 1
      /\ \A i \in 1..n : todo'[i] = K[i]
      /\ \A i \in n + 1..Len(todo') : todo'[i] = todo[i - n + 1] /\ i - n + 1 \in 2..Len(todo)
      /\ \A i \in 2..Len(todo) : todo'[n + i - 1] = todo[i] /\ n + i - 1 \in n + 1..Len(todo')
  <2> DEFINE next == todo'
  <2>1. n = Len(Kids(S, Head(todo))) /\ next = AfterStage(Head(todo)) /\ S = pipeline.stages
    BY <1>4
  <2>0. Forest(S) /\ todo \in Seq(S) /\ todo # <<>>
    BY <1>1, <1>2
  <2> HIDE DEF next, n, S, K, p
  <2>2. /\ n \in Nat /\ next \in Seq(S) /\ Len(next) = n + Len(todo) - 1
        /\ \A i \in 1..n : next[i] = Kids(S, Head(todo))[i]
        /\ \A i \in n + 1..Len(next) : next[i] = todo[i - n + 1] /\ i - n + 1 \in 2..Len(todo)
        /\ \A i \in 2..Len(todo) : next[n + i - 1] = todo[i] /\ n + i - 1 \in n + 1..Len(next)
    BY <2>0, <2>1, ToRunAfter
  <2> QED
    BY <2>2 DEF next, K, p
<1>7. /\ \A i \in 1..n : /\ K[i] \in S /\ Front(K[i]) = p
                         /\ Above(p, K[i]) /\ p # K[i]
      /\ \A i, j \in 1..n : i < j => Branches(K[i], K[j])
  <2>1. \A i \in 1..n : K[i] \in S
    BY <1>2, <1>3, KidsAre
  <2>2. \A i \in 1..n : Front(K[i]) = p /\ Above(p, K[i]) /\ p # K[i]
    BY <1>2, <1>3, KidsInOrder
  <2>3. \A i, j \in 1..n : i < j => Branches(K[i], K[j])
    BY <1>2, <1>3, KidsInOrder
  <2> QED
    BY <2>1, <2>2, <2>3
<1>8. \A i \in 2..Len(todo) : /\ todo[i] \in S /\ Branches(p, todo[i])
                             /\ \A q \in DOMAIN acc : Before(q, todo[i])
                             /\ Front(todo[i]) \in DOMAIN acc \cup {Input}
  BY <1>1, <1>2 DEF RunInv
<1> HIDE DEF K, n, p
\* A stage of the new list is a child of p or was behind it.
<1>9. \A i \in 1..Len(todo') :
          \/ i \in 1..n /\ todo'[i] = K[i]
          \/ i > n /\ \E j \in 2..Len(todo) : todo'[i] = todo[j] /\ j = i - n + 1
  <2> TAKE i \in 1..Len(todo')
  <2>1. CASE i <= n
    <3>1. i \in 1..n
      BY <1>6, <2>1
    <3> QED
      BY <1>6, <3>1
  <2>2. CASE i > n
    <3>1. i \in n + 1..Len(todo')
      BY <1>6, <2>2
    <3> QED
      BY <1>6, <2>2, <3>1
  <2> QED
    BY <1>6, <2>1, <2>2
<1>10. ASSUME NEW q \in S, q \notin DOMAIN acc' PROVE \E i \in 1..Len(todo') : Above(todo'[i], q)
  <2>1. q # p /\ q \notin DOMAIN acc
    BY <1>5, <1>10
  <2>2. PICK j \in 1..Len(todo) : Above(todo[j], q)
    BY <2>1 DEF RunInv
  <2>3. CASE j = 1
    <3>1. \E i \in 1..n : Above(K[i], q)
      BY <1>2, <1>3, <2>1, <2>2, <2>3, KidBetween DEF K, n
    <3> QED
      BY <1>2, <1>6, <3>1
  <2>4. CASE j # 1
    <3>1. j \in 2..Len(todo)
      BY <1>2, <2>2, <2>4
    <3>2. n + j - 1 \in 1..Len(todo')
      BY <1>2, <1>6, <3>1
    <3> QED
      BY <1>6, <2>2, <3>1, <3>2
  <2> QED
    BY <2>3, <2>4
<1>11. ASSUME NEW i \in 1..Len(todo'), NEW j \in 1..Len(todo'), i < j
       PROVE  Branches(todo'[i], todo'[j])
  <2>1. CASE j \in 1..n
    <3>1. i \in 1..n
      BY <1>6, <1>11, <2>1
    <3> QED
      BY <1>6, <1>7, <1>11, <2>1, <3>1
  <2>2. CASE j > n
    <3>1. PICK b \in 2..Len(todo) : todo'[j] = todo[b] /\ b = j - n + 1
      BY <1>6, <1>9, <2>2
    <3>2. CASE i \in 1..n
      <4>1. Above(p, K[i]) /\ Branches(p, todo[b]) /\ K[i] \in Seq(Nat) /\ todo[b] \in Seq(Nat)
        BY <1>3, <1>7, <1>8, <3>1, <3>2
      <4>2. Above(todo[b], todo[b]) /\ p \in Seq(Nat)
        BY <1>2, <1>3, <4>1 DEF Above
      <4>3. Branches(K[i], todo[b])
        BY <4>1, <4>2, BranchBelow
      <4> QED
        BY <1>6, <3>1, <3>2, <4>3
    <3>3. CASE i > n
      <4>1. PICK a \in 2..Len(todo) : todo'[i] = todo[a] /\ a = i - n + 1
        BY <1>6, <1>9, <3>3
      <4>2. a < b /\ a \in 1..Len(todo) /\ b \in 1..Len(todo)
        BY <1>2, <1>6, <1>11, <3>1, <4>1
      <4>3. Branches(todo[a], todo[b])
        BY <4>2 DEF RunInv
      <4> QED
        BY <3>1, <4>1, <4>3
    <3> QED
      BY <1>6, <3>2, <3>3
  <2> QED
    BY <1>6, <2>1, <2>2
<1>12. ASSUME NEW q \in DOMAIN acc', NEW i \in 1..Len(todo') PROVE Before(q, todo'[i])
  <2>1. q \in Seq(Nat) /\ p \in Seq(Nat) /\ (q = p \/ (q \in DOMAIN acc /\ Before(q, p)))
    BY <1>2, <1>3, <1>5
  <2>2. ASSUME NEW k \in 1..n PROVE Before(q, K[k])
    <3>1. K[k] \in Seq(Nat) /\ Above(p, K[k]) /\ p # K[k]
      BY <1>3, <1>7
    <3>2. Before(p, K[k])
      BY <2>1, <3>1, BeforeByPlace
    <3> QED
      BY <2>1, <3>1, <3>2, BeforeBelow
  <2>3. ASSUME NEW k \in 2..Len(todo) PROVE Before(q, todo[k])
    <3>1. todo[k] \in Seq(Nat) /\ Branches(p, todo[k])
      BY <1>3, <1>8
    <3>2. Before(p, todo[k])
      BY <2>1, <3>1, BeforeByPlace
    <3> QED
      BY <1>8, <2>1, <3>2
  <2>4. CASE i \in 1..n /\ todo'[i] = K[i]
    BY <2>2, <2>4
  <2>5. CASE \E j \in 2..Len(todo) : todo'[i] = todo[j]
    BY <2>3, <2>5
  <2> QED
    BY <1>9, <2>4, <2>5
<1>13. \A i \in 1..Len(todo') : Front(todo'[i]) \in DOMAIN acc' \cup {Input}
  <2> TAKE i \in 1..Len(todo')
  <2>1. CASE i \in 1..n /\ todo'[i] = K[i]
    BY <1>5, <1>7, <2>1
  <2>2. CASE \E j \in 2..Len(todo) : todo'[i] = todo[j]
    <3>1. PICK j \in 2..Len(todo) : todo'[i] = todo[j]
      BY <2>2
    <3>2. Front(todo[j]) \in DOMAIN acc \cup {Input}
      BY <1>2, <3>1 DEF RunInv
    <3>3. Front(todo'[i]) = Front(todo[j])
      BY <3>1
    <3> QED
      BY <1>5, <3>2, <3>3
  <2> QED
    BY <1>9, <2>1, <2>2
<1>14. DOMAIN acc' \subseteq S
  BY <1>2, <1>5 DEF RunInv
<1> QED
  BY <1>1, <1>4, <1>5, <1>6, <1>10, <1>11, <1>12, <1>13, <1>14 DEF RunInv

LEMMA RunStep == RunInv /\ [RunNext]_runVars => RunInv'
<1> SUFFICES ASSUME RunInv, [RunNext]_runVars PROVE RunInv'
  OBVIOUS
<1>1. CASE StageOk
  BY <1>1, StageOkKeeps
<1>2. CASE CallStage
  BY <1>2 DEF CallStage, RunInv
<1>3. CASE BadSelector \/ StageFails \/ StagePanics
  BY <1>3 DEF BadSelector, StageFails, StagePanics, RunInv
<1>4. CASE Finish
  BY <1>4 DEF Finish, RunInv
<1>5. CASE UNCHANGED runVars
  BY <1>5 DEF runVars, RunInv
<1> QED
  BY <1>1, <1>2, <1>3, <1>4, <1>5 DEF RunNext

LEMMA RunHolds == RunSpec => []RunInv
BY RunBeginsWell, RunStep, PTL DEF RunSpec

\* What selectors match when a stage is called are the outputs they name among
\* those of the stages written before it.
LEMMA MatchedAtCall ==
    ASSUME RunInv, todo # <<>>
    PROVE  Matched(Head(todo)) = { sel \cap (EarlierStages(Head(todo)) \cup {Input}) :
                                      sel \in pipeline.wants[Head(todo)] }
<1>1. DOMAIN acc = EarlierStages(Head(todo)) /\ \A q \in DOMAIN acc : acc[q] = q
  BY RanBefore DEF RunInv
<1>2. ASSUME NEW sel
      PROVE  Matches(sel) = sel \cap (EarlierStages(Head(todo)) \cup {Input})
  <2>1. { acc[at] : at \in sel \cap DOMAIN acc } = sel \cap DOMAIN acc
    BY <1>1
  <2> QED
    BY <1>1, <2>1 DEF Matches
<1> QED
  BY <1>2 DEF Matched

\* Every stage is called with the outputs its selectors mean in the text of the
\* pipeline, whatever the pipeline (run_pipeline_stage).
THEOREM StagesSeeWhatIsBefore == RunSpec => []SeesExactlyEarlierStages
<1>1. RunInit => SeesExactlyEarlierStages
  BY DEF RunInit, SeesExactlyEarlierStages
<1>2. RunInv /\ SeesExactlyEarlierStages /\ [RunNext]_runVars => SeesExactlyEarlierStages'
  <2> SUFFICES ASSUME RunInv, SeesExactlyEarlierStages, [RunNext]_runVars
               PROVE  SeesExactlyEarlierStages'
    OBVIOUS
  <2>1. CASE CallStage
    <3> DEFINE h == Head(todo)
    <3>1. /\ pipeline' = pipeline /\ DOMAIN inputs' = DOMAIN inputs \cup {h}
          /\ \A p \in DOMAIN inputs' : inputs'[p] = IF p = h THEN Matched(h) ELSE inputs[p]
      BY <2>1 DEF CallStage
    <3>2. Matched(h) = { sel \cap (EarlierStages(h) \cup {Input}) : sel \in pipeline.wants[h] }
      BY <2>1, MatchedAtCall DEF CallStage
    <3> HIDE DEF h
    <3>3. \A p : EarlierStages(p)' = EarlierStages(p)
      BY <3>1 DEF EarlierStages
    <3>4. ASSUME NEW p \in DOMAIN inputs'
          PROVE  inputs'[p] = { sel \cap (EarlierStages(p) \cup {Input}) : sel \in pipeline.wants[p] }
      BY <3>1, <3>2, <3>4 DEF SeesExactlyEarlierStages
    <3> QED
      BY <3>1, <3>3, <3>4 DEF SeesExactlyEarlierStages
  <2>2. CASE UNCHANGED <<pipeline, inputs>>
    BY <2>2 DEF SeesExactlyEarlierStages, EarlierStages
  <2> QED
    BY <2>1, <2>2 DEF RunNext, BadSelector, StageFails, StagePanics, StageOk, Finish, runVars
<1> QED
  BY <1>1, <1>2, RunHolds, PTL DEF RunSpec

\* The stages at the top, the last of which is the final one.
LEMMA TopStages ==
    ASSUME Forest(pipeline.stages)
    PROVE  LET tops == { p \in pipeline.stages : Len(p) = 1 }
           IN  /\ tops # {} => FinalStage \in tops
               /\ FinalStage \in pipeline.stages => FinalStage \in tops
               /\ \A q \in tops : q = FinalStage \/ Before(q, FinalStage)
               /\ Kids(pipeline.stages, <<>>) = <<>> => tops = {}
<1> DEFINE S == pipeline.stages
           tops == { p \in S : Len(p) = 1 }
           w == Width(S, <<>>)
<1>1. <<>> \in Seq(Nat) /\ Len(<<>>) = 0
  BY EmptySeq
<1>2. /\ w \in Nat /\ Len(Kids(S, <<>>)) = w
      /\ { q \in S : q # <<>> /\ Front(q) = <<>> } = { Append(<<>>, i) : i \in 0..w - 1 }
  BY <1>1, KidsAre
<1> HIDE DEF w
<1>3. ASSUME NEW q \in tops PROVE \E i \in 0..w - 1 : q = Append(<<>>, i)
  <2>1. q \in Path /\ Front(q) \in Seq(Nat) /\ Len(Front(q)) = 0
    BY PathEnds DEF Forest
  <2>2. Front(q) = <<>> /\ q # <<>>
    BY <2>1, EmptySeq DEF Path
  <2> QED
    BY <1>2, <2>2
<1>4. ASSUME NEW i \in Nat
      PROVE  Append(<<>>, i) \in Seq(Nat) /\ Len(Append(<<>>, i)) = 1 /\ Append(<<>>, i)[1] = i
             /\ Append(<<>>, i) = <<i>>
  OBVIOUS
<1>5. FinalStage = <<w - 1>>
  BY DEF FinalStage, w
<1>6. ASSUME NEW q \in tops PROVE FinalStage \in tops /\ (q = FinalStage \/ Before(q, FinalStage))
  <2>1. PICK i \in 0..w - 1 : q = Append(<<>>, i)
    BY <1>3
  <2>2. w - 1 \in Nat /\ i \in Nat /\ w - 1 \in 0..w - 1
    BY <1>2, <2>1
  <2>3. FinalStage = Append(<<>>, w - 1) /\ FinalStage \in Seq(Nat)
        /\ Len(FinalStage) = 1 /\ FinalStage[1] = w - 1
    BY <1>4, <1>5, <2>2
  <2>4. FinalStage \in S
    BY <1>2, <2>2, <2>3
  <2>5. i < w - 1 => Branches(q, FinalStage)
    BY <1>4, <2>1, <2>2, <2>3 DEF Branches
  <2>6. i < w - 1 => Before(q, FinalStage)
    BY <1>4, <2>1, <2>2, <2>3, <2>5, BeforeByPlace
  <2>7. i < w - 1 \/ i = w - 1
    BY <1>2, <2>1
  <2> QED
    BY <2>1, <2>3, <2>4, <2>6, <2>7
<1>7. FinalStage \in S => FinalStage \in tops
  BY <1>5
<1>8. Kids(S, <<>>) = <<>> => tops = {}
  <2> SUFFICES ASSUME Kids(S, <<>>) = <<>>, NEW q \in tops PROVE FALSE
    OBVIOUS
  <2>1. w = 0
    BY <1>1, <1>2
  <2> QED
    BY <1>3, <2>1
<1> QED
  BY <1>6, <1>7, <1>8

\* Without an output_constructor the output is that of the last stage at the
\* top, and there is one unless the pipeline is empty (run_pipeline).
THEOREM LastAtTheTopWins == RunSpec => []LastTopStageWins
<1> DEFINE Tops == { p \in pipeline.stages : Len(p) = 1 }
<1>1. RunInit => LastTopStageWins
  <2> SUFFICES ASSUME RunInit PROVE LastTopStageWins
    OBVIOUS
  <2>1. Forest(pipeline.stages)
    BY PipelinesAreForests DEF RunInit
  <2>2. todo = Kids(pipeline.stages, <<>>) /\ phase # "ok"
    BY DEF RunInit
  <2> QED
    BY <2>1, <2>2, TopStages DEF LastTopStageWins
<1>2. RunInv /\ LastTopStageWins /\ [RunNext]_runVars => LastTopStageWins'
  <2> SUFFICES ASSUME RunInv, LastTopStageWins, [RunNext]_runVars
               PROVE  LastTopStageWins'
    OBVIOUS
  <2>1. CASE Finish
    <3> SUFFICES ASSUME pipeline.constructor = NoConstructor
                 PROVE  /\ phase' = "ok" => \E p \in Tops : /\ result' = {p}
                                                            /\ \A q \in Tops : q = p \/ Before(q, p)
                        /\ phase' = "panicked" => Tops = {}
      BY <2>1 DEF Finish, LastTopStageWins
    <3>1. Forest(pipeline.stages) /\ DOMAIN acc \subseteq pipeline.stages
      BY PipelinesAreForests DEF RunInv
    <3>2. CASE FinalStage \in DOMAIN acc
      <4>1. phase' = "ok" /\ result' = {FinalStage}
        BY <2>1, <3>2 DEF Finish, RunInv
      <4>2. FinalStage \in Tops /\ \A q \in Tops : q = FinalStage \/ Before(q, FinalStage)
        BY <3>1, <3>2, TopStages
      <4> QED
        BY <4>1, <4>2
    <3>3. CASE FinalStage \notin DOMAIN acc
      <4>1. phase' = "panicked" /\ todo = <<>>
        BY <2>1, <3>3 DEF Finish
      <4>2. FinalStage \notin pipeline.stages
        <5>1. Len(todo) = 0
          BY <4>1
        <5> QED
          BY <3>3, <5>1 DEF RunInv
      <4>3. Tops = {}
        BY <3>1, <4>2, TopStages
      <4> QED
        BY <4>1, <4>3
    <3> QED
      BY <3>2, <3>3
  <2>2. CASE StageOk
    BY <2>2 DEF StageOk, LastTopStageWins
  <2>3. CASE CallStage \/ BadSelector \/ StageFails \/ StagePanics
    BY <2>3 DEF CallStage, BadSelector, StageFails, StagePanics, LastTopStageWins, RunInv
  <2>4. CASE UNCHANGED runVars
    BY <2>4 DEF runVars, LastTopStageWins
  <2> QED
    BY <2>1, <2>2, <2>3, <2>4 DEF RunNext
<1> QED
  BY <1>1, <1>2, RunHolds, PTL DEF RunSpec
=============================================================================
