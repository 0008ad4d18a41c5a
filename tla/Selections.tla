----------------------------- MODULE Selections -----------------------------
(****************************************************************************)
(* What is a sequence, and what a filter keeps of one, by the places it     *)
(* keeps: SelectSeq is recursive, and what is recursive cannot be unfolded  *)
(* in a proof.                                                              *)
(****************************************************************************)
EXTENDS Integers, Sequences, FiniteSets, SequencesExt

IsSeq(s) == s \in Seq(ToSet(s))

\* The member of K that has n - 1 below it.
Nth(K, n) == CHOOSE k \in K : Cardinality({ j \in K : j <= k }) = n

\* The elements of s at the places in K, in their order.
Kept(s, K) == [n \in 1..Cardinality(K) |-> s[Nth(K, n)]]
==============================================================================
