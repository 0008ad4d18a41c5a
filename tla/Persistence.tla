----------------------------- MODULE Persistence -----------------------------
(****************************************************************************)
(* Saving and loading the tenants' state (plugin-host/src/persistence.rs).  *)
(*                                                                          *)
(* Every request, when it is answered, spawns a task that copies the twelve *)
(* maps one after another, each under its own lock, writes the copy to      *)
(* state.tmp and renames that to the state file.  The tasks run beside      *)
(* later requests and beside each other.  The process may stop at any       *)
(* point; what the kernel has taken from it stays.                          *)
(*                                                                          *)
(* A map holds facts: the same key, membership, plugin, pipeline or daemon  *)
(* has an entry in two of them.  A file is written block by block, one for  *)
(* every fact and one more, so that a copy with more facts is longer.       *)
(****************************************************************************)
EXTENDS Naturals, FiniteSets, Sequences

CONSTANTS
    Facts,       \* what requests add and remove
    Kind,        \* fact -> the kind of request that changes it
    Changes,     \* whether requests add facts, remove them, or both
    Slots,       \* requests, with the saves they spawn, under way at once
    Files,       \* files on disk, whatever their names: more than Slots
    MaxRestarts, \* bound on the restarts of a behaviour
    None         \* no file, no fact, a block that was never written

\* The order in which PersistentState::from copies the maps.
CopyOrder ==
    <<"users", "organizations", "api_key_to_user", "user_plugin_refs",
      "org_plugin_refs", "plugin_registry", "user_pipeline_refs",
      "pipeline_registry", "org_pipelines", "user_daemons",
      "daemon_registry", "org_daemons">>

Maps == { CopyOrder[i] : i \in 1..12 }
Kinds == {"member", "organization", "key", "plugin", "pipeline", "daemon"}
States == [Maps -> SUBSET Facts]
Nothing == [m \in Maps |-> {}]

ASSUME PersistenceAssumption ==
    /\ IsFiniteSet(Facts)
    /\ Kind \in [Facts -> Kinds]
    /\ Changes \subseteq {"add", "remove"}
    /\ MaxRestarts \in Nat
    /\ None \notin Files
    /\ None \notin Facts
    /\ None \notin States

VARIABLES
    memory,    \* the maps
    task,      \* a request in each slot, and then the task that saves
    contents,  \* file -> its blocks: each belongs to the copy that wrote it
    path,      \* the file named state.json
    temp,      \* the file named state.tmp
    failed,    \* the last save to end did not succeed
    restarts   \* restarts so far

vars == <<memory, task, contents, path, temp, failed, restarts>>
disk == <<contents, path, temp, failed>>

Phases == {"none", "handling", "copying", "opening", "writing", "renaming"}

\* done counts sections of a request, maps copied, or blocks written.
Idle == [at |-> "none", fact |-> None, change |-> None, done |-> 0,
         copy |-> Nothing, file |-> None]

At(s, phase) == task[s].at = phase
------------------------------------------------------------------------------
(* Requests *)

\* The maps a request changes together, under their locks: org_add_user,
\* create_api_key and remove_api_key, org_register, user_plugin_upload and
\* user_plugin_remove, user_pipelines_register, user_daemon_register.
Sections(kind, change) ==
    CASE kind = "member" -> <<{"organizations", "users"}>>
      [] kind = "key" -> <<{"users", "api_key_to_user"}>>
      [] kind = "organization" -> <<{"organizations"}, {"users"}>>
      [] kind = "plugin" /\ change = "add" -> <<{"plugin_registry"}, {"user_plugin_refs"}>>
      [] kind = "plugin" /\ change = "remove" -> <<{"user_plugin_refs"}, {"plugin_registry"}>>
      [] kind = "pipeline" -> <<{"pipeline_registry"}, {"user_pipeline_refs"}>>
      [] kind = "daemon" -> <<{"daemon_registry"}, {"user_daemons"}>>

Removable == {"key", "plugin"}

Arrive(s) ==
    /\ At(s, "none")
    /\ \E f \in Facts, c \in Changes :
          /\ c = "remove" => Kind[f] \in Removable
          /\ task' = [task EXCEPT ![s] = [Idle EXCEPT !.at = "handling", !.fact = f, !.change = c]]
    /\ UNCHANGED <<memory, contents, path, temp, failed, restarts>>

Changed(maps, f, change) ==
    [m \in Maps |-> IF m \notin maps THEN memory[m]
                    ELSE IF change = "add" THEN memory[m] \cup {f} ELSE memory[m] \ {f}]

Handle(s) ==
    /\ At(s, "handling")
    /\ LET sections == Sections(Kind[task[s].fact], task[s].change) IN
       /\ task[s].done < Len(sections)
       /\ memory' = Changed(sections[task[s].done + 1], task[s].fact, task[s].change)
       /\ task' = [task EXCEPT ![s].done = @ + 1]
    /\ UNCHANGED <<contents, path, temp, failed, restarts>>

\* Mutant: a removal is answered without a save.
SavesAfterAdding(change) == change = "add"

\* persistence_middleware saves after every request.
SavesAfter(change) == TRUE

\* The handler is done; one that refuses the request, or only reads, has
\* changed nothing.
Answer(s) ==
    /\ At(s, "handling")
    /\ task[s].done \in {0, Len(Sections(Kind[task[s].fact], task[s].change))}
    /\ task' = [task EXCEPT ![s] =
          IF SavesAfter(task[s].change) THEN [Idle EXCEPT !.at = "copying"] ELSE Idle]
    /\ UNCHANGED <<memory, contents, path, temp, failed, restarts>>
------------------------------------------------------------------------------
(* The task of a save *)

\* PersistentState::from, one map.
Copy(s) ==
    /\ At(s, "copying")
    /\ LET n == task[s].done + 1 IN
       task' = [task EXCEPT ![s] =
          [@ EXCEPT !.copy = [task[s].copy EXCEPT ![CopyOrder[n]] = memory[CopyOrder[n]]],
                    !.done = n % 12,
                    !.at = IF n = 12 THEN "opening" ELSE "copying"]]
    /\ UNCHANGED <<memory, contents, path, temp, failed, restarts>>

Opened == { task[s].file : s \in Slots }

\* Mutant: the state file itself is opened.
TargetIsPath == path

\* The file that a save opens, if there is one.
Target == temp

\* fs::write opens state.tmp: the file of that name is truncated, whoever is
\* writing it, and without one a new file is made.
Open(s) ==
    /\ At(s, "opening")
    /\ \E f \in IF Target # None THEN {Target} ELSE Files \ ({path} \cup Opened) :
          /\ temp' = f
          /\ contents' = [contents EXCEPT ![f] = <<>>]
          /\ task' = [task EXCEPT ![s] = [@ EXCEPT !.file = f, !.at = "writing"]]
    /\ UNCHANGED <<memory, path, failed, restarts>>

\* The length of a copy's text.
Blocks(copy) == 1 + Cardinality(UNION { copy[m] : m \in Maps })

\* Block n of a file becomes the copy's; what lies before it and was never
\* written is a hole.
WriteAt(blocks, n, copy) ==
    [i \in 1..(IF n > Len(blocks) THEN n ELSE Len(blocks)) |->
        IF i = n THEN copy ELSE IF i <= Len(blocks) THEN blocks[i] ELSE None]

\* ... and writes at its own position, also when the file is not state.tmp any
\* more.
Write(s) ==
    /\ At(s, "writing")
    /\ LET n == task[s].done + 1 IN
       /\ contents' = [contents EXCEPT ![task[s].file] = WriteAt(@, n, task[s].copy)]
       /\ task' = [task EXCEPT ![s] =
             [@ EXCEPT !.done = n,
                       !.at = IF n = Blocks(task[s].copy) THEN "renaming" ELSE "writing"]]
    /\ UNCHANGED <<memory, path, temp, failed, restarts>>

\* The file cannot be opened or written, which is logged.
WriteFails(s) ==
    /\ At(s, "opening") \/ At(s, "writing")
    /\ failed' = TRUE
    /\ task' = [task EXCEPT ![s] = Idle]
    /\ UNCHANGED <<memory, contents, path, temp, restarts>>

TempAfterRename == None

\* fs::rename; when nothing has the name state.tmp it fails, which is logged.
Rename(s) ==
    /\ At(s, "renaming")
    /\ failed' = (temp = None)
    /\ path' = IF temp = None THEN path ELSE temp
    /\ temp' = TempAfterRename
    /\ task' = [task EXCEPT ![s] = Idle]
    /\ UNCHANGED <<memory, contents, restarts>>
------------------------------------------------------------------------------
(* Stopping and starting *)

\* Text parses if it is all that one copy wrote.
Parses(blocks) ==
    /\ Len(blocks) > 0
    /\ blocks[1] # None
    /\ Len(blocks) = Blocks(blocks[1])
    /\ \A i \in 1..Len(blocks) : blocks[i] = blocks[1]

\* load: without a file that parses, the server starts with nothing.
Loaded ==
    IF path = None THEN Nothing
    ELSE IF Parses(contents[path]) THEN contents[path][1] ELSE Nothing

\* The process stops, and load_state fills the maps of the next one.
Restart ==
    /\ restarts < MaxRestarts
    /\ memory' = Loaded
    /\ task' = [s \in Slots |-> Idle]
    /\ failed' = FALSE
    /\ restarts' = restarts + 1
    /\ UNCHANGED <<contents, path, temp>>
------------------------------------------------------------------------------
Init ==
    /\ memory = Nothing
    /\ task = [s \in Slots |-> Idle]
    /\ contents = [f \in Files |-> <<>>]
    /\ path = None
    /\ temp = None
    /\ failed = FALSE
    /\ restarts = 0

Request(s) == Arrive(s) \/ Handle(s) \/ Answer(s)
SaveAsync(s) == Copy(s) \/ Open(s) \/ Write(s) \/ WriteFails(s) \/ Rename(s)

Next ==
    \/ \E s \in Slots : Request(s) \/ SaveAsync(s)
    \/ Restart

Spec == Init /\ [][Next]_vars
------------------------------------------------------------------------------
TypeOK ==
    /\ memory \in States
    /\ task \in [Slots -> [at : Phases, fact : Facts \cup {None},
                           change : {"add", "remove", None}, done : Nat,
                           copy : States, file : Files \cup {None}]]
    /\ contents \in [Files -> Seq(States \cup {None})]
    /\ path \in Files \cup {None}
    /\ temp \in Files \cup {None}
    /\ path = temp => path = None
    /\ failed \in BOOLEAN
    /\ restarts \in 0..MaxRestarts

\* "Save state after processing the request" (persistence.rs:223): when no
\* request and no save is under way, the file holds what is in memory, unless
\* the last save failed; the next one makes up for it.
SavedWhenQuiet ==
    (\A s \in Slots : At(s, "none")) /\ ~failed => Loaded = memory

\* "Then atomically rename it to the final path" (persistence.rs:184): the
\* state file is whole at any moment.
FileParses == path # None => Parses(contents[path])

\* As long as nothing is removed, whatever a start would load refers only to
\* plugins, pipelines and daemons that it loads too: references are copied
\* before the registries, and made after them.
LoadedRefsExist ==
    /\ Loaded["user_plugin_refs"] \subseteq Loaded["plugin_registry"]
    /\ Loaded["user_pipeline_refs"] \subseteq Loaded["pipeline_registry"]
    /\ Loaded["user_daemons"] \subseteq Loaded["daemon_registry"]

\* The state file, as StateFile describes it.
Promise == INSTANCE StateFile WITH file <- Loaded, life <- restarts

\* With requests one at a time the file changes as a whole, and only to what
\* is in memory, at whatever point the server stops.
ImplementsStateFile == Promise!Spec
==============================================================================
