--------------------------- MODULE MCNotebookGraph ---------------------------
(* Two threads; a path of two nodes can be undone and tried again.            *)
EXTENDS NotebookGraph, TLC

CONSTANTS t1, t2, s1, s2

MCThreadIds == {t1, t2}
Swap == Permutations(MCThreadIds)
==============================================================================
