------------------------------ MODULE MCDaemons ------------------------------
(* Daemons with the sets its configurations give to the constants. *)
EXTENDS Daemons, TLC

OnePlugin == { [frequency |-> 1, enabled |-> TRUE, kind |-> "plugin"] }
OnePipeline == { [frequency |-> 1, enabled |-> TRUE, kind |-> "pipeline"] }

\* Daemons of both kinds, and registered as disabled or with period 0.
Variants ==
    OnePlugin \cup OnePipeline
    \cup { [frequency |-> 1, enabled |-> FALSE, kind |-> "plugin"],
           [frequency |-> 0, enabled |-> TRUE, kind |-> "plugin"] }

TaskSymmetry == Permutations(Tasks)
==============================================================================
