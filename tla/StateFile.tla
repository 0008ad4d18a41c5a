------------------------------ MODULE StateFile ------------------------------
(****************************************************************************)
(* What the state file promises to whoever operates the server              *)
(* (plugin-host/src/persistence.rs), when requests come one at a time: the  *)
(* file is replaced as a whole by the state that is in memory, and a server *)
(* that stops, wherever it is, starts again with what the file holds.       *)
(****************************************************************************)
EXTENDS Naturals

CONSTANTS
    Maps,    \* the parts of the state
    Facts,   \* what a part may hold
    Nothing  \* the state of a new server

VARIABLES
    memory,  \* the state of the server: part -> facts
    file,    \* the state that the next start would load
    life     \* how often the server was started again

vars == <<memory, file, life>>

Init ==
    /\ memory = Nothing
    /\ file = Nothing
    /\ life = 0

\* A request adds or removes one fact, in one part or in several at once.
Change ==
    /\ memory' \in [Maps -> SUBSET Facts]
    /\ \E f \in Facts : \A m \in Maps : memory'[m] \ {f} = memory[m] \ {f}
    /\ UNCHANGED <<file, life>>

Save ==
    /\ file' = memory
    /\ UNCHANGED <<memory, life>>

StartAgain ==
    /\ memory' = file
    /\ life' = life + 1
    /\ UNCHANGED file

Next == Change \/ Save \/ StartAgain

Spec == Init /\ [][Next]_vars
==============================================================================
