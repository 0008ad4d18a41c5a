-------------------------- MODULE PersistenceProofs --------------------------
(****************************************************************************)
(* Proofs about Persistence: with one request at a time, the file system    *)
(* protocol of a save implements StateFile, for any number of facts and of  *)
(* files and wherever the process stops; and when nothing is under way the  *)
(* file holds what is in memory.                                            *)
(****************************************************************************)
EXTENDS Persistence, FiniteSetTheorems, TLAPS

Saving == {"opening", "writing", "renaming"}

\* What a request knows of the fact it changes.
Handling(s) == At(s, "handling") => task[s].fact \in Facts

\* The copy is of the memory as it is, as far as it goes.
Copied(s) ==
    /\ At(s, "copying") =>
          /\ task[s].done < 12
          /\ \A i \in 1..task[s].done : task[s].copy[CopyOrder[i]] = memory[CopyOrder[i]]
    /\ task[s].at \in Saving => task[s].copy = memory

\* state.tmp holds the blocks that were written, and nothing else.
Written(s) ==
    /\ At(s, "opening") => task[s].done = 0
    /\ At(s, "writing") =>
          /\ temp # None
          /\ task[s].file = temp
          /\ task[s].done < Blocks(task[s].copy)
          /\ contents[temp] = [i \in 1..task[s].done |-> task[s].copy]
    /\ At(s, "renaming") =>
          /\ temp # None
          /\ contents[temp] = [i \in 1..Blocks(task[s].copy) |-> task[s].copy]

SaveInv(s) ==
    /\ TypeOK
    /\ Handling(s)
    /\ Copied(s)
    /\ Written(s)
    /\ FileParses
------------------------------------------------------------------------------
\* A copy's text has a positive length.
LEMMA BlocksPositive ==
    ASSUME NEW c \in States
    PROVE  Blocks(c) \in Nat \ {0}
<1> DEFINE all == UNION { c[m] : m \in Maps }
<1>1. all \subseteq Facts
  BY DEF States
<1>2. IsFiniteSet(all)
  BY <1>1, PersistenceAssumption, FS_Subset
<1>3. Cardinality(all) \in Nat
  BY <1>2, FS_CardinalityType
<1> QED
  BY <1>3 DEF Blocks

\* What the state file holds is a state.
LEMMA LoadedIsState ==
    ASSUME TypeOK
    PROVE  Loaded \in States
<1>1. Nothing \in States
  BY DEF Nothing, States
<1>2. ASSUME path # None, Parses(contents[path])
      PROVE  contents[path][1] \in States
  BY <1>2 DEF TypeOK, Parses
<1> QED
  BY <1>1, <1>2 DEF Loaded

\* A file that one copy wrote as a whole parses, and is that copy.
LEMMA WholeParses ==
    ASSUME NEW c \in States, NEW blocks,
           blocks = [i \in 1..Blocks(c) |-> c]
    PROVE  Parses(blocks) /\ blocks[1] = c
<1>1. Blocks(c) \in Nat \ {0}
  BY BlocksPositive
<1>2. Len(blocks) = Blocks(c) /\ blocks[1] = c
  BY <1>1
<1>3. c # None
  BY PersistenceAssumption
<1> QED
  BY <1>1, <1>2, <1>3 DEF Parses

\* A block written after those of the same copy is the next of them.
LEMMA WriteNext ==
    ASSUME NEW c, NEW n \in Nat, NEW blocks,
           blocks = [i \in 1..n |-> c]
    PROVE  WriteAt(blocks, n + 1, c) = [i \in 1..(n + 1) |-> c]
<1>1. Len(blocks) = n
  BY DEF WriteAt
<1> QED
  BY <1>1 DEF WriteAt
------------------------------------------------------------------------------
(* The invariant *)

LEMMA InitInv ==
    ASSUME NEW s, Slots = {s}, Init
    PROVE  SaveInv(s)
<1>1. Nothing \in States
  BY DEF Nothing, States
<1>2. TypeOK
  <2>1. contents \in [Files -> Seq(States \cup {None})]
    BY DEF Init
  <2>2. Idle \in [at : Phases, fact : Facts \cup {None},
                  change : {"add", "remove", None}, done : Nat,
                  copy : States, file : Files \cup {None}]
    BY <1>1 DEF Idle, Phases
  <2>3. task \in [Slots -> [at : Phases, fact : Facts \cup {None},
                            change : {"add", "remove", None}, done : Nat,
                            copy : States, file : Files \cup {None}]]
    BY <2>2 DEF Init
  <2>4. restarts \in 0..MaxRestarts
    BY PersistenceAssumption DEF Init
  <2> QED
    BY <1>1, <2>1, <2>3, <2>4 DEF Init, TypeOK
<1>3. At(s, "none")
  BY DEF Init, At, Idle
<1> QED
  BY <1>2, <1>3 DEF SaveInv, Handling, Copied, Written, FileParses, At, Saving, Init

\* The maps after one section of a request.
LEMMA ChangedIsState ==
    ASSUME TypeOK, NEW maps, NEW f \in Facts, NEW c
    PROVE  /\ Changed(maps, f, c) \in States
           /\ \A m \in Maps : Changed(maps, f, c)[m] \ {f} = memory[m] \ {f}
<1>1. memory \in [Maps -> SUBSET Facts]
  BY DEF TypeOK, States
<1>2. ASSUME NEW m \in Maps
      PROVE  /\ Changed(maps, f, c)[m] \in SUBSET Facts
             /\ Changed(maps, f, c)[m] \ {f} = memory[m] \ {f}
  <2>1. memory[m] \subseteq Facts
    BY <1>1
  <2>2. Changed(maps, f, c)[m] \in {memory[m], memory[m] \cup {f}, memory[m] \ {f}}
    BY DEF Changed
  <2> QED
    BY <2>1, <2>2
<1>3. Changed(maps, f, c) = [m \in Maps |-> Changed(maps, f, c)[m]]
  BY DEF Changed
<1> QED
  BY <1>2, <1>3 DEF States

\* The request keeps to memory; the file stays what it is.
LEMMA RequestKeepsInv ==
    ASSUME NEW s, Slots = {s}, SaveInv(s), Request(s)
    PROVE  SaveInv(s)'
<1> USE DEF SaveInv, TypeOK, Handling, Copied, Written, FileParses, At, Saving, Phases
<1>0. task[s] \in [at : Phases, fact : Facts \cup {None},
                   change : {"add", "remove", None}, done : Nat,
                   copy : States, file : Files \cup {None}]
  OBVIOUS
<1>n. Nothing \in States
  BY DEF Nothing, States
<1>1. CASE Arrive(s)
  <2>1. PICK f \in Facts, c \in Changes :
            task' = [task EXCEPT ![s] = [Idle EXCEPT !.at = "handling", !.fact = f, !.change = c]]
    BY <1>1 DEF Arrive
  <2>2. c \in {"add", "remove"}
    BY PersistenceAssumption
  <2>3. task'[s] = [at |-> "handling", fact |-> f, change |-> c, done |-> 0,
                    copy |-> Nothing, file |-> None]
    BY <2>1 DEF Idle
  <2>4. task' = [t \in Slots |-> task'[s]]
    BY <2>1
  <2>5. UNCHANGED <<memory, contents, path, temp, failed, restarts>>
    BY <1>1 DEF Arrive
  <2> HIDE DEF FileParses
  <2>6. FileParses'
    BY <2>5 DEF FileParses
  <2> QED
    BY <1>n, <2>2, <2>3, <2>4, <2>5, <2>6
<1>2. CASE Handle(s)
  <2>1. task[s].at = "handling" /\ task[s].fact \in Facts
    BY <1>2 DEF Handle
  <2>2. memory' \in States
    BY <1>2, <2>1, ChangedIsState DEF Handle
  <2>3. task'[s] = [at |-> "handling", fact |-> task[s].fact, change |-> task[s].change,
                    done |-> task[s].done + 1, copy |-> task[s].copy, file |-> task[s].file]
    BY <1>0, <1>2 DEF Handle
  <2>4. task' = [t \in Slots |-> task'[s]]
    BY <1>2 DEF Handle
  <2>5. /\ UNCHANGED <<contents, path, temp, failed, restarts>>
        /\ task[s].done + 1 \in Nat
    BY <1>0, <1>2 DEF Handle
  <2> HIDE DEF FileParses
  <2>6. FileParses'
    BY <2>5 DEF FileParses
  <2> QED
    BY <1>0, <2>1, <2>2, <2>3, <2>4, <2>5, <2>6
<1>3. CASE Answer(s)
  <2>1. task'[s] \in {[Idle EXCEPT !.at = "copying"], Idle}
    BY <1>3 DEF Answer
  <2>2. task' = [t \in Slots |-> task'[s]]
    BY <1>3 DEF Answer
  <2> QED
    BY <1>3, <1>n, <2>1, <2>2 DEF Answer, Idle
<1> QED
  BY <1>1, <1>2, <1>3 DEF Request

\* The copy grows by one map, or is complete.
LEMMA CopyKeepsInv ==
    ASSUME NEW s, Slots = {s}, SaveInv(s), Copy(s)
    PROVE  SaveInv(s)' /\ UNCHANGED <<memory, contents, path, temp, restarts>>
<1> USE DEF SaveInv, At
<1> DEFINE n == task[s].done + 1
           c == [task[s].copy EXCEPT ![CopyOrder[n]] = memory[CopyOrder[n]]]
<1>1. /\ task[s] \in [at : Phases, fact : Facts \cup {None},
                       change : {"add", "remove", None}, done : Nat,
                       copy : States, file : Files \cup {None}]
      /\ memory \in States
  BY DEF TypeOK
<1>2. /\ task[s].at = "copying" /\ n \in 1..12
      /\ \A i \in 1..task[s].done : task[s].copy[CopyOrder[i]] = memory[CopyOrder[i]]
  BY <1>1 DEF Copy, Copied
<1>3. \A i \in 1..12 : CopyOrder[i] \in Maps
  BY DEF Maps
<1>4. c \in States
  BY <1>1, <1>2, <1>3 DEF States
<1>5. \A i \in 1..n : c[CopyOrder[i]] = memory[CopyOrder[i]]
  BY <1>1, <1>2, <1>3 DEF States
<1>6. ASSUME n = 12
      PROVE  c = memory
  <2>1. \A m \in Maps : c[m] = memory[m]
    BY <1>5, <1>6 DEF Maps
  <2> QED
    BY <1>1, <1>4, <2>1 DEF States
<1>7. task'[s] = [at |-> IF n = 12 THEN "opening" ELSE "copying", fact |-> task[s].fact,
                  change |-> task[s].change, done |-> n % 12, copy |-> c,
                  file |-> task[s].file]
  <2>1. task' = [task EXCEPT ![s] =
            [task[s] EXCEPT !.copy = c, !.done = n % 12,
                            !.at = IF n = 12 THEN "opening" ELSE "copying"]]
    BY DEF Copy
  <2> HIDE DEF c, n
  <2> QED
    BY <1>1, <2>1 DEF TypeOK
<1>8. task' = [t \in Slots |-> task'[s]]
  BY DEF Copy, TypeOK
<1>9. UNCHANGED <<memory, contents, path, temp, failed, restarts>>
  BY DEF Copy
<1> HIDE DEF c
<1>10. TypeOK'
  <2>1. n % 12 \in Nat
    BY <1>2
  <2> QED
    BY <1>1, <1>4, <1>7, <1>8, <1>9, <2>1 DEF TypeOK, Phases
<1>11. Handling(s)' /\ FileParses'
  BY <1>7, <1>9 DEF Handling, FileParses
<1>12. Copied(s)'
  <2>1. CASE n = 12
    BY <1>6, <1>7, <1>9, <2>1 DEF Copied, Saving
  <2>2. CASE n # 12
    BY <1>2, <1>5, <1>7, <1>9, <2>2 DEF Copied, Saving
  <2> QED
    BY <2>1, <2>2
<1>13. Written(s)'
  BY <1>2, <1>7 DEF Written
<1> QED
  BY <1>9, <1>10, <1>11, <1>12, <1>13

\* state.tmp is empty, and is not the state file.
LEMMA OpenKeepsInv ==
    ASSUME NEW s, Slots = {s}, SaveInv(s), Open(s)
    PROVE  SaveInv(s)' /\ UNCHANGED <<memory, Loaded, restarts>>
<1> USE DEF SaveInv, At
<1>1. /\ task[s] \in [at : Phases, fact : Facts \cup {None},
                       change : {"add", "remove", None}, done : Nat,
                       copy : States, file : Files \cup {None}]
      /\ contents \in [Files -> Seq(States \cup {None})]
  BY DEF TypeOK
<1>2. PICK f \in IF temp # None THEN {temp} ELSE Files \ ({path} \cup Opened) :
          /\ temp' = f
          /\ contents' = [contents EXCEPT ![f] = <<>>]
          /\ task' = [task EXCEPT ![s] = [task[s] EXCEPT !.file = f, !.at = "writing"]]
  BY DEF Open, Target
<1>3. f \in Files /\ f # path /\ f # None
  BY PersistenceAssumption DEF TypeOK
<1>4. task'[s] = [at |-> "writing", fact |-> task[s].fact, change |-> task[s].change,
                  done |-> task[s].done, copy |-> task[s].copy, file |-> f]
  BY <1>1, <1>2 DEF TypeOK
<1>5. task' = [t \in Slots |-> task'[s]]
  BY <1>2 DEF TypeOK
<1>6. UNCHANGED <<memory, path, failed, restarts>> /\ task[s].at = "opening"
  BY DEF Open
<1>7. path # None => contents'[path] = contents[path]
  BY <1>1, <1>2, <1>3, <1>6 DEF TypeOK
<1>8. contents' \in [Files -> Seq(States \cup {None})] /\ contents'[f] = <<>>
  BY <1>1, <1>2, <1>3
<1>9. UNCHANGED Loaded /\ FileParses'
  BY <1>6, <1>7 DEF Loaded, FileParses
<1>10. TypeOK'
  BY <1>1, <1>2, <1>3, <1>4, <1>5, <1>6, <1>8 DEF TypeOK, Phases
<1>11. Handling(s)' /\ Copied(s)'
  BY <1>4, <1>6 DEF Handling, Copied, Saving
<1>12. Written(s)'
  <2>1. task[s].done = 0 /\ Blocks(task[s].copy) \in Nat \ {0}
    BY <1>1, <1>6, BlocksPositive DEF Written
  <2>2. <<>> = [i \in 1..0 |-> task[s].copy]
    OBVIOUS
  <2>3. contents'[f] = [i \in 1..0 |-> task[s].copy]
    BY <1>8, <2>2
  <2>4. task'[s].done = 0 /\ task'[s].copy = task[s].copy
    BY <1>4, <2>1
  <2>5. contents'[temp'] = [i \in 1..task'[s].done |-> task'[s].copy]
    BY <1>2, <2>3, <2>4
  <2>6. task'[s].at = "writing" /\ task'[s].file = temp' /\ temp' # None
    <3>1. temp' = f
      BY <1>2
    <3> QED
      BY <1>3, <1>4, <3>1
  <2>7. Blocks(task'[s].copy) = Blocks(task[s].copy)
    BY <2>4
  <2> QED
    BY <2>1, <2>4, <2>5, <2>6, <2>7 DEF Written
<1> QED
  BY <1>6, <1>9, <1>10, <1>11, <1>12

\* One more block is written, and the file is complete with the last.
LEMMA WriteKeepsInv ==
    ASSUME NEW s, Slots = {s}, SaveInv(s), Write(s)
    PROVE  SaveInv(s)' /\ UNCHANGED <<memory, Loaded, restarts>>
<1> USE DEF SaveInv, At
<1> DEFINE n == task[s].done + 1
           c == task[s].copy
<1>1. /\ task[s] \in [at : Phases, fact : Facts \cup {None},
                       change : {"add", "remove", None}, done : Nat,
                       copy : States, file : Files \cup {None}]
      /\ contents \in [Files -> Seq(States \cup {None})]
  BY DEF TypeOK
<1>2. task[s].at = "writing"
  BY DEF Write
<1>3. /\ temp # None /\ temp \in Files /\ temp # path
      /\ task[s].file = temp
      /\ task[s].done < Blocks(c)
      /\ contents[temp] = [i \in 1..task[s].done |-> c]
  BY <1>2 DEF Written, TypeOK
<1>4. n \in 1..Blocks(c) /\ Blocks(c) \in Nat
  BY <1>1, <1>3, BlocksPositive
<1>5. contents' = [contents EXCEPT ![temp] = [i \in 1..n |-> c]]
  <2>1. contents' = [contents EXCEPT ![temp] = WriteAt(contents[temp], n, c)]
    BY <1>3 DEF Write
  <2>2. WriteAt(contents[temp], n, c) = [i \in 1..n |-> c]
    BY SMTT(30), <1>1, <1>3, WriteNext
  <2> QED
    BY <2>1, <2>2
<1>6. [i \in 1..n |-> c] \in Seq(States \cup {None})
  BY <1>1, <1>4
<1>7. task'[s] = [at |-> IF n = Blocks(c) THEN "renaming" ELSE "writing", fact |-> task[s].fact,
                  change |-> task[s].change, done |-> n, copy |-> c, file |-> task[s].file]
  BY <1>1 DEF Write, TypeOK
<1>8. task' = [t \in Slots |-> task'[s]]
  BY DEF Write, TypeOK
<1>9. UNCHANGED <<memory, path, temp, failed, restarts>>
  BY DEF Write
<1>10. /\ contents' \in [Files -> Seq(States \cup {None})]
       /\ contents'[temp] = [i \in 1..n |-> c]
       /\ path # None => contents'[path] = contents[path]
  BY <1>1, <1>3, <1>5, <1>6 DEF TypeOK
<1> HIDE DEF c, n
<1>11. UNCHANGED Loaded /\ FileParses'
  BY <1>9, <1>10 DEF Loaded, FileParses
<1>12. TypeOK'
  <2>1. n \in Nat /\ c \in States
    BY <1>1, <1>4 DEF c
  <2> QED
    BY <1>1, <1>7, <1>8, <1>9, <1>10, <2>1 DEF TypeOK, Phases
<1>13. Handling(s)' /\ Copied(s)'
  BY <1>2, <1>7, <1>9 DEF Handling, Copied, Saving, c
<1>14. Written(s)'
  <2>1. task'[s].copy = c /\ task'[s].done = n /\ task'[s].file = temp'
    BY <1>3, <1>7, <1>9
  <2>2. Blocks(task'[s].copy) = Blocks(c)
    BY <2>1
  <2>3. CASE n = Blocks(c)
    BY <1>3, <1>7, <1>9, <1>10, <2>1, <2>2, <2>3 DEF Written
  <2>4. CASE n # Blocks(c)
    <3>1. n < Blocks(c)
      BY <1>4, <2>4
    <3> QED
      BY <1>3, <1>7, <1>9, <1>10, <2>1, <2>2, <2>4, <3>1 DEF Written
  <2> QED
    BY <2>3, <2>4
<1> QED
  BY <1>9, <1>11, <1>12, <1>13, <1>14

\* The slot is free again.
LEMMA IdleKeepsInv ==
    ASSUME NEW s, Slots = {s}, TypeOK', FileParses', task'[s] = Idle
    PROVE  SaveInv(s)'
<1>1. task'[s].at = "none"
  BY DEF Idle
<1> QED
  BY <1>1 DEF SaveInv, Handling, Copied, Written, At, Saving

\* A save that fails leaves the state file alone.
LEMMA WriteFailsKeepsInv ==
    ASSUME NEW s, Slots = {s}, SaveInv(s), WriteFails(s)
    PROVE  SaveInv(s)' /\ UNCHANGED <<memory, Loaded, restarts>>
<1>1. UNCHANGED <<memory, contents, path, temp, restarts>> /\ failed' = TRUE
  BY DEF WriteFails
<1>2. task' = [task EXCEPT ![s] = Idle] /\ task'[s] = Idle
  BY DEF WriteFails, SaveInv, TypeOK
<1>3. Nothing \in States
  BY DEF Nothing, States
<1>4. TypeOK'
  BY <1>1, <1>2, <1>3 DEF SaveInv, TypeOK, Idle, Phases
<1>5. FileParses' /\ UNCHANGED Loaded
  BY <1>1 DEF SaveInv, FileParses, Loaded
<1> QED
  BY <1>1, <1>2, <1>4, <1>5, IdleKeepsInv

\* A rename makes the state file what is in memory.
LEMMA RenameKeepsInv ==
    ASSUME NEW s, Slots = {s}, SaveInv(s), Rename(s)
    PROVE  SaveInv(s)' /\ Loaded' = memory /\ UNCHANGED <<memory, restarts>>
<1>1. /\ task[s].at = "renaming"
      /\ task[s].copy \in States /\ task[s].copy = memory
      /\ temp # None /\ temp \in Files
      /\ contents[temp] = [i \in 1..Blocks(task[s].copy) |-> task[s].copy]
  BY DEF Rename, SaveInv, TypeOK, Copied, Written, At, Saving
<1>2. Parses(contents[temp]) /\ contents[temp][1] = memory
  BY <1>1, WholeParses
<1>3. /\ path' = temp /\ temp' = None /\ failed' = FALSE
      /\ UNCHANGED <<memory, contents, restarts>>
  BY <1>1 DEF Rename, TempAfterRename
<1>4. task' = [task EXCEPT ![s] = Idle] /\ task'[s] = Idle
  BY DEF Rename, SaveInv, TypeOK
<1>5. Nothing \in States
  BY DEF Nothing, States
<1>6. TypeOK'
  BY <1>1, <1>3, <1>4, <1>5 DEF SaveInv, TypeOK, Idle, Phases
<1>7. FileParses' /\ Loaded' = memory
  BY <1>1, <1>2, <1>3 DEF FileParses, Loaded
<1> QED
  BY <1>3, <1>4, <1>6, <1>7, IdleKeepsInv

\* A start takes what the state file holds, wherever the stop came.
LEMMA RestartKeepsInv ==
    ASSUME NEW s, Slots = {s}, SaveInv(s), Restart
    PROVE  /\ SaveInv(s)' /\ UNCHANGED Loaded
           /\ memory' = Loaded /\ restarts' = restarts + 1
<1>1. /\ memory' = Loaded /\ restarts' = restarts + 1 /\ failed' = FALSE
      /\ restarts < MaxRestarts
      /\ UNCHANGED <<contents, path, temp>>
  BY DEF Restart
<1>2. task' = [t \in Slots |-> Idle] /\ task'[s] = Idle
  BY DEF Restart
<1>3. Nothing \in States
  BY DEF Nothing, States
<1>4. Loaded \in States
  BY LoadedIsState DEF SaveInv
<1>5. restarts' \in 0..MaxRestarts
  BY <1>1, PersistenceAssumption DEF SaveInv, TypeOK
<1>6. TypeOK'
  BY <1>1, <1>2, <1>3, <1>4, <1>5 DEF SaveInv, TypeOK, Idle, Phases
<1>7. FileParses' /\ UNCHANGED Loaded
  BY <1>1 DEF SaveInv, FileParses, Loaded
<1> QED
  BY <1>1, <1>2, <1>6, <1>7, IdleKeepsInv
------------------------------------------------------------------------------
(* The refinement *)

\* A step of a request changes one fact, or nothing that StateFile sees.
LEMMA RequestRefines ==
    ASSUME NEW s, Slots = {s}, SaveInv(s), Request(s)
    PROVE  Promise!Change \/ UNCHANGED Promise!vars
<1>1. UNCHANGED <<Loaded, restarts>>
  BY DEF Request, Arrive, Handle, Answer, Loaded
<1>2. CASE Arrive(s) \/ Answer(s)
  <2>1. UNCHANGED memory
    BY <1>2 DEF Arrive, Answer
  <2> QED
    BY <1>1, <2>1 DEF Promise!vars
<1>3. CASE Handle(s)
  <2>1. task[s].fact \in Facts /\ TypeOK
    BY <1>3 DEF Handle, SaveInv, Handling
  <2>2. PICK maps : memory' = Changed(maps, task[s].fact, task[s].change)
    BY <1>3 DEF Handle
  <2>3. /\ memory' \in [Maps -> SUBSET Facts]
        /\ \A m \in Maps : memory'[m] \ {task[s].fact} = memory[m] \ {task[s].fact}
    BY <2>1, <2>2, ChangedIsState DEF States
  <2> QED
    BY <1>1, <2>1, <2>3 DEF Promise!Change
<1> QED
  BY <1>2, <1>3 DEF Request

\* Every step keeps the invariant and is a step of StateFile or none.
LEMMA StepRefines ==
    ASSUME NEW s, Slots = {s}, SaveInv(s), [Next]_vars
    PROVE  SaveInv(s)' /\ [Promise!Next]_(Promise!vars)
<1>1. CASE Request(s)
  BY <1>1, RequestKeepsInv, RequestRefines DEF Promise!Next
<1>2. CASE Copy(s)
  <2>1. SaveInv(s)' /\ UNCHANGED <<memory, contents, path, temp, restarts>>
    BY <1>2, CopyKeepsInv
  <2> QED
    BY <2>1 DEF Promise!vars, Loaded
<1>3. CASE Open(s)
  BY <1>3, OpenKeepsInv DEF Promise!vars
<1>4. CASE Write(s)
  BY <1>4, WriteKeepsInv DEF Promise!vars
<1>5. CASE WriteFails(s)
  BY <1>5, WriteFailsKeepsInv DEF Promise!vars
<1>6. CASE Rename(s)
  BY <1>6, RenameKeepsInv DEF Promise!Next, Promise!Save
<1>7. CASE Restart
  BY <1>7, RestartKeepsInv DEF Promise!Next, Promise!StartAgain
<1>8. CASE UNCHANGED vars
  <2>1. SaveInv(s)'
    BY <1>8 DEF vars, SaveInv, TypeOK, Handling, Copied, Written, FileParses, At
  <2>2. UNCHANGED Promise!vars
    BY <1>8 DEF vars, Promise!vars, Loaded
  <2> QED
    BY <2>1, <2>2
<1> QED
  BY <1>1, <1>2, <1>3, <1>4, <1>5, <1>6, <1>7, <1>8 DEF Next, SaveAsync

\* With one request at a time, every state is well typed: persistence.rs.
THEOREM TypeCorrect ==
    ASSUME NEW s, Slots = {s}
    PROVE  Spec => []TypeOK
<1>1. Init => SaveInv(s)
  BY InitInv
<1>2. SaveInv(s) /\ [Next]_vars => SaveInv(s)'
  BY StepRefines
<1>3. SaveInv(s) => TypeOK
  BY DEF SaveInv
<1> QED
  BY <1>1, <1>2, <1>3, PTL DEF Spec

\* With one request at a time, the state file is whole at any moment
\* (persistence.rs:182), for any number of facts.
THEOREM OneSaverIsAtomic ==
    ASSUME NEW s, Slots = {s}
    PROVE  Spec => []FileParses
<1>1. Init => SaveInv(s)
  BY InitInv
<1>2. SaveInv(s) /\ [Next]_vars => SaveInv(s)'
  BY StepRefines
<1>3. SaveInv(s) => FileParses
  BY DEF SaveInv
<1> QED
  BY <1>1, <1>2, <1>3, PTL DEF Spec

\* With one request at a time, saving and loading are what StateFile promises:
\* the file becomes what is in memory as a whole, and a server starts with it
\* wherever it was stopped.
THEOREM StateFileImplemented ==
    ASSUME NEW s, Slots = {s}
    PROVE  Spec => ImplementsStateFile
<1>1. Init => SaveInv(s)
  BY InitInv
<1>2. SaveInv(s) /\ [Next]_vars => SaveInv(s)' /\ [Promise!Next]_(Promise!vars)
  BY StepRefines
<1>3. Init => Promise!Init
  BY DEF Init, Promise!Init, Loaded
<1> QED
  BY <1>1, <1>2, <1>3, PTL DEF Spec, ImplementsStateFile, Promise!Spec
------------------------------------------------------------------------------
(* What a quiet server has saved *)

\* Until a request changes something, the file holds what is in memory,
\* unless the last save failed.
Kept(s) ==
    (At(s, "none") \/ (At(s, "handling") /\ task[s].done = 0)) /\ ~failed =>
        Loaded = memory

\* Nothing has changed before the first section of a request, and one that is
\* answered is followed by a save.
LEMMA RequestKeeps ==
    ASSUME NEW s, Slots = {s}, SaveInv(s), Kept(s), Request(s)
    PROVE  Kept(s)'
<1>1. task \in [Slots -> [at : Phases, fact : Facts \cup {None},
                           change : {"add", "remove", None}, done : Nat,
                           copy : States, file : Files \cup {None}]]
  BY DEF SaveInv, TypeOK
<1>2. UNCHANGED <<Loaded, failed>>
  BY DEF Request, Arrive, Handle, Answer, Loaded
<1>3. CASE Arrive(s)
  BY <1>2, <1>3 DEF Arrive, Kept, At
<1>4. CASE Handle(s)
  <2>1. task[s].done \in Nat /\ task[s].at = "handling"
    BY <1>1, <1>4 DEF Handle, At
  <2>2. task'[s].done = task[s].done + 1 /\ task'[s].at = "handling"
    BY <1>1, <1>4, <2>1 DEF Handle
  <2> QED
    BY <2>1, <2>2 DEF Kept, At
<1>5. CASE Answer(s)
  <2>1. task'[s].at = "copying"
    BY <1>1, <1>5 DEF Answer, SavesAfter, Idle
  <2> QED
    BY <2>1 DEF Kept, At
<1> QED
  BY <1>3, <1>4, <1>5 DEF Request

\* A save that ends has renamed a copy of what is in memory, or is known to
\* have failed.
LEMMA SaveAsyncKeeps ==
    ASSUME NEW s, Slots = {s}, SaveInv(s), SaveAsync(s)
    PROVE  Kept(s)'
<1>1. task \in [Slots -> [at : Phases, fact : Facts \cup {None},
                           change : {"add", "remove", None}, done : Nat,
                           copy : States, file : Files \cup {None}]]
  BY DEF SaveInv, TypeOK
<1>2. CASE Copy(s)
  <2>1. task'[s].at \in {"copying", "opening"}
    BY <1>1, <1>2 DEF Copy
  <2> QED
    BY <2>1 DEF Kept, At
<1>3. CASE Open(s) \/ Write(s)
  <2>1. task'[s].at \in {"writing", "renaming"}
    BY <1>1, <1>3 DEF Open, Write
  <2> QED
    BY <2>1 DEF Kept, At
<1>4. CASE WriteFails(s)
  BY <1>4 DEF WriteFails, Kept
<1>5. CASE Rename(s)
  BY <1>5, RenameKeepsInv DEF Kept
<1> QED
  BY <1>2, <1>3, <1>4, <1>5 DEF SaveAsync

\* A start has in memory what it has loaded.
LEMMA StepKeeps ==
    ASSUME NEW s, Slots = {s}, SaveInv(s), Kept(s), [Next]_vars
    PROVE  Kept(s)'
<1>1. CASE Restart
  BY <1>1, RestartKeepsInv DEF Kept
<1>2. CASE UNCHANGED vars
  BY <1>2 DEF vars, Kept, At, Loaded
<1> QED
  BY <1>1, <1>2, RequestKeeps, SaveAsyncKeeps DEF Next

\* With one request at a time, whenever no request and no save is under way
\* the state file holds what is in memory, unless the last save failed
\* (persistence.rs:223): for any number of facts, and wherever the server was
\* stopped and started before.
THEOREM QuietIsSaved ==
    ASSUME NEW s, Slots = {s}
    PROVE  Spec => []SavedWhenQuiet
<1>1. Init => SaveInv(s) /\ Kept(s)
  <2>1. ASSUME Init PROVE Kept(s)
    BY <2>1 DEF Init, Kept, Loaded
  <2> QED
    BY <2>1, InitInv
<1>2. SaveInv(s) /\ Kept(s) /\ [Next]_vars => SaveInv(s)' /\ Kept(s)'
  BY StepRefines, StepKeeps
<1>3. Kept(s) => SavedWhenQuiet
  BY DEF Kept, SavedWhenQuiet
<1> QED
  BY <1>1, <1>2, <1>3, PTL DEF Spec
==============================================================================
