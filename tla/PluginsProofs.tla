---------------------------- MODULE PluginsProofs ----------------------------
(****************************************************************************)
(* Theorems about the plugins that keep threads of their own:               *)
(*   - NotebookGraph: the graph, its rows and the places of the threads     *)
(*     agree, for any questions and answers of one request after another;   *)
(*   - ChatThreads: what a browser is told, what the list of threads tells, *)
(*     what the model is sent and what is saved, for any threads, contexts  *)
(*     and replies;                                                         *)
(* about the plugin that fills tables of the vector database:               *)
(*   - VectorTables: what is in the fields, and that a table takes the rows *)
(*     it was made after, for any rows and any plugins at once;             *)
(* and the facts about numbers, sequences and graphs they rest on.          *)
(*                                                                          *)
(* The notebook's invariant is one of parts (NotebookInv): the copy of a    *)
(* request extends the file, the rows tell the newest of the two, places    *)
(* are nodes of it, and a path half made is at the end of both lists, so    *)
(* that undoing it node by node gives back the graph it began with.  That   *)
(* all nodes can be reached needs more (ReachInv): no circles, and nobody   *)
(* ever hangs a node from the root.                                         *)
(*                                                                          *)
(* The conversation of a chat request (TalkInv) is its system messages, of  *)
(* one context, before all others; the others with the answers still to     *)
(* come are well formed, and so are the first idx messages by themselves.   *)
(* What was saved, with the turn after it, ends in them (HistoryInv).       *)
(****************************************************************************)
EXTENDS NotebookGraph, ChatThreads, VectorTables, Selections, Integers, SequencesExt, FiniteSetsExt,
        FiniteSetTheorems, SequenceTheorems, WellFoundedInduction, TLAPS

(* Numbers, recursions and sequences *)
\* A set of natural numbers has a least one.
LEMMA Least ==
    ASSUME NEW T, T \subseteq Nat, T # {}
    PROVE  \E x \in T : \A y \in T : x <= y
<1> DEFINE R == { p \in Nat \X Nat : p[1] < p[2] }
<1>1. PICK x \in T : \A y \in T : <<y, x>> \notin OpToRel(<, Nat)
  BY NatLessThanWellFounded, WFMin
<1>2. OpToRel(<, Nat) = R
  BY Zenon DEF OpToRel
<1>3. \A y \in T : y < x => <<y, x>> \in R
  OBVIOUS
<1>4. \A y \in T : ~(y < x)
  BY <1>1, <1>2, <1>3
<1> QED
  BY <1>4

\* A set that has 0 and with every number the next has them all.
LEMMA Numbers ==
    ASSUME NEW P, 0 \in P, \A n \in Nat : n \in P => n + 1 \in P
    PROVE  Nat \subseteq P
<1> SUFFICES ASSUME Nat \ P # {} PROVE FALSE
  OBVIOUS
<1>1. PICK x \in Nat \ P : \A y \in Nat \ P : x <= y
  BY Least
<1>2. x # 0 /\ x - 1 \in Nat
  OBVIOUS
<1>3. x - 1 \in P
  BY <1>1, <1>2
<1>4. x \in P
  BY <1>2, <1>3
<1> QED
  BY <1>4

\* A function that goes on from number to number as d tells.
Follows(f, a, d, n) ==
    /\ f[0] = a
    /\ \A i \in 0..n - 1 : f[i + 1] = d[<<f[i], i + 1>>]

\* f is defined by the recursion from a with the step d.
Recurs(f, S, a, d) ==
    /\ f \in [Nat -> S]
    /\ f[0] = a
    /\ \A i \in Nat : f[i + 1] = d[<<f[i], i + 1>>]

\* A recursion over the naturals defines a function.
LEMMA Recursion ==
    ASSUME NEW S, NEW a \in S, NEW d \in [S \X Nat -> S]
    PROVE  \E f : Recurs(f, S, a, d)
<1> DEFINE P == { n \in Nat : \E f \in [0..n -> S] : Follows(f, a, d, n) }
<1>1. 0 \in P
  <2>1. [i \in 0..0 |-> a] \in [0..0 -> S] /\ Follows([i \in 0..0 |-> a], a, d, 0)
    BY DEF Follows
  <2> QED
    BY <2>1
<1>2. ASSUME NEW n \in Nat, n \in P PROVE n + 1 \in P
  <2>1. PICK f \in [0..n -> S] : Follows(f, a, d, n)
    BY <1>2
  <2> DEFINE v == d[<<f[n], n + 1>>]
             g == [i \in 0..n + 1 |-> IF i = n + 1 THEN v ELSE f[i]]
  <2>2. v \in S
    BY <2>1
  <2>3. g \in [0..n + 1 -> S]
    BY <2>2
  <2>4. g[n + 1] = v /\ \A i \in 0..n : g[i] = f[i]
    OBVIOUS
  <2> HIDE DEF g
  <2>5. \A i \in 0..(n + 1) - 1 : g[i + 1] = d[<<g[i], i + 1>>]
    <3> SUFFICES ASSUME NEW i \in 0..n PROVE g[i + 1] = d[<<g[i], i + 1>>]
      OBVIOUS
    <3>1. CASE i = n
      BY <2>4, <3>1
    <3>2. CASE i # n
      BY <2>1, <2>4, <3>2 DEF Follows
    <3> QED
      BY <3>1, <3>2
  <2>6. Follows(g, a, d, n + 1)
    BY <2>1, <2>4, <2>5 DEF Follows
  <2>7. \E h \in [0..n + 1 -> S] : Follows(h, a, d, n + 1)
    BY <2>3, <2>6
  <2> QED
    BY <2>7
<1>3. \A n \in Nat : n \in P
  <2> HIDE DEF P
  <2> QED
    BY <1>1, <1>2, Numbers
\* Two of them agree where both are.
<1>4. ASSUME NEW n \in Nat, NEW f, NEW g, Follows(f, a, d, n), Follows(g, a, d, n + 1)
      PROVE  f[n] = g[n]
  <2> DEFINE Q == { i \in Nat : i <= n => f[i] = g[i] }
  <2>1. 0 \in Q
    BY <1>4 DEF Follows
  <2>2. ASSUME NEW i \in Nat, i \in Q PROVE i + 1 \in Q
    <3> SUFFICES ASSUME i + 1 <= n PROVE f[i + 1] = g[i + 1]
      OBVIOUS
    <3>1. i \in 0..n - 1 /\ i \in 0..(n + 1) - 1 /\ f[i] = g[i]
      BY <2>2
    <3>2. f[i + 1] = d[<<f[i], i + 1>>] /\ g[i + 1] = d[<<g[i], i + 1>>]
      BY <1>4, <3>1 DEF Follows
    <3> QED
      BY <3>1, <3>2
  <2> HIDE DEF Q
  <2>3. n \in Q
    BY <2>1, <2>2, Numbers
  <2> QED
    BY <2>3 DEF Q
<1> DEFINE C(n) == CHOOSE f \in [0..n -> S] : Follows(f, a, d, n)
           h == [n \in Nat |-> C(n)[n]]
<1>5. \A n \in Nat : C(n) \in [0..n -> S] /\ Follows(C(n), a, d, n)
  BY <1>3
<1> HIDE DEF C, P
<1>6. h \in [Nat -> S]
  BY <1>5
<1>7. h[0] = a
  BY <1>5 DEF Follows
<1>8. ASSUME NEW n \in Nat PROVE h[n + 1] = d[<<h[n], n + 1>>]
  <2>1. C(n)[n] = C(n + 1)[n]
    BY <1>4, <1>5, <1>8
  <2>2. C(n + 1)[n + 1] = d[<<C(n + 1)[n], n + 1>>]
    BY <1>5 DEF Follows
  <2> QED
    BY <2>1, <2>2
<1> QED
  BY <1>6, <1>7, <1>8 DEF Recurs

------------------------------------------------------------------------------
\* The members of a set of numbers up to one of them.
UpTo(K, k) == { j \in K : j <= k }

\* The nth least of a finite set of naturals has n of the set up to it.
LEMMA NthIs ==
    ASSUME NEW K, K \subseteq Nat, IsFiniteSet(K), NEW n \in 1..Cardinality(K)
    PROVE  Nth(K, n) \in K /\ Cardinality(UpTo(K, Nth(K, n))) = n
<1> DEFINE N == Cardinality(K)
           Has(m) == \E k \in K : Cardinality(UpTo(K, k)) = m
           P == { m \in Nat : m + 1 <= N => Has(m + 1) }
<1>1. N \in Nat
  BY FS_CardinalityType
<1>2. 0 \in P
  <2> SUFFICES ASSUME 1 <= N PROVE Has(1)
    OBVIOUS
  <2>1. K # {}
    BY FS_EmptySet
  <2>2. PICK x \in K : \A y \in K : x <= y
    BY <2>1, Least
  <2>3. UpTo(K, x) = {x}
    <3>1. \A y \in K : y <= x <=> y = x
      BY <2>2
    <3> QED
      BY <3>1 DEF UpTo
  <2>4. Cardinality({x}) = 1
    BY FS_Singleton
  <2> QED
    BY <2>3, <2>4
<1>3. ASSUME NEW m \in Nat, m \in P PROVE m + 1 \in P
  <2> SUFFICES ASSUME m + 1 + 1 <= N PROVE Has(m + 1 + 1)
    OBVIOUS
  <2>1. PICK k \in K : Cardinality(UpTo(K, k)) = m + 1
    BY <1>1, <1>3
  <2> DEFINE T == K \ UpTo(K, k)
  <2>2. T # {}
    <3> SUFFICES ASSUME T = {} PROVE FALSE
      OBVIOUS
    <3>1. UpTo(K, k) = K
      BY DEF UpTo
    <3> QED
      BY <1>1, <2>1, <3>1
  <2>3. PICK x \in T : \A y \in T : x <= y
    BY <2>2, Least
  <2>4. UpTo(K, x) = UpTo(K, k) \cup {x} /\ x \notin UpTo(K, k)
    <3>1. x \in K /\ ~(x <= k) /\ \A y \in K : ~(y <= k) => x <= y
      BY <2>3 DEF UpTo
    <3>2. \A y \in K : y <= x <=> y <= k \/ y = x
      BY <3>1
    <3> QED
      BY <3>1, <3>2 DEF UpTo
  <2>5. IsFiniteSet(UpTo(K, k))
    BY FS_Subset DEF UpTo
  <2>6. Cardinality(UpTo(K, k) \cup {x}) = Cardinality(UpTo(K, k)) + 1
    BY <2>4, <2>5, FS_AddElement
  <2> QED
    BY <2>1, <2>3, <2>4, <2>6
<1>4. Nat \subseteq P
  <2> HIDE DEF P
  <2> QED
    BY <1>2, <1>3, Numbers
<1>5. n - 1 \in P
  BY <1>1, <1>4
<1>6. \E k \in K : Cardinality({ j \in K : j <= k }) = n
  BY <1>1, <1>5 DEF UpTo
<1> QED
  BY <1>6 DEF Nth, UpTo

\* What is kept was there.
LEMMA KeptElements ==
    ASSUME NEW S, NEW s \in Seq(S), NEW K, K \subseteq DOMAIN s
    PROVE  /\ Kept(s, K) \in Seq(S)
           /\ \A i \in DOMAIN Kept(s, K) : \E k \in K : Kept(s, K)[i] = s[k]
<1>1. IsFiniteSet(DOMAIN s) /\ DOMAIN s \subseteq Nat
  BY FS_Interval
<1>2. IsFiniteSet(K) /\ K \subseteq Nat
  BY <1>1, FS_Subset
<1>3. Cardinality(K) \in Nat
  BY <1>2, FS_CardinalityType
<1>4. \A n \in 1..Cardinality(K) : Nth(K, n) \in K
  BY <1>2, NthIs
<1>5. \A k \in K : s[k] \in S
  OBVIOUS
<1> QED
  BY <1>3, <1>4, <1>5 DEF Kept

\* ... and to keep all is to change nothing.
LEMMA KeptAll ==
    ASSUME NEW S, NEW s \in Seq(S)
    PROVE  Kept(s, DOMAIN s) = s
<1> DEFINE K == 1..Len(s)
<1>1. K = DOMAIN s /\ Len(s) \in Nat
  OBVIOUS
<1>2. IsFiniteSet(K) /\ Cardinality(K) = Len(s)
  BY <1>1, FS_Interval
<1>3. ASSUME NEW n \in K PROVE Nth(K, n) = n
  <2>1. Nth(K, n) \in K /\ Cardinality(UpTo(K, Nth(K, n))) = n
    BY <1>1, <1>2, NthIs
  <2>2. UpTo(K, Nth(K, n)) = 1..Nth(K, n)
    BY <2>1 DEF UpTo
  <2>3. Cardinality(1..Nth(K, n)) = Nth(K, n)
    BY <2>1, FS_Interval
  <2> QED
    BY <2>1, <2>2, <2>3
<1>4. Kept(s, K) = [n \in 1..Len(s) |-> s[n]]
  BY <1>2, <1>3 DEF Kept
<1> QED
  BY <1>1, <1>4
------------------------------------------------------------------------------
\* FlattenSeq: what goes on from the first of the sequences by the next one.
LEMMA FlattenType ==
    ASSUME NEW S, NEW seqs \in Seq(Seq(S))
    PROVE  FlattenSeq(seqs) \in Seq(S)
<1> DEFINE N == Len(seqs)
           T == Seq(S)
<1>1. CASE N = 0
  BY <1>1 DEF FlattenSeq
<1>2. CASE N # 0
  <2> DEFINE Grow(t, n) == IF n + 1 \in 1..N THEN t \o seqs[n + 1] ELSE t
             d == [p \in T \X Nat |-> Grow(p[1], p[2])]
             Is(f) == f = [i \in 1..N |-> IF i = 1 THEN seqs[i] ELSE f[i - 1] \o seqs[i]]
  <2>1. seqs[1] \in T /\ N \in Nat
    BY <1>2
  <2>2. \A t \in T, n \in Nat : Grow(t, n) \in T
    OBVIOUS
  <2>3. PICK h : h \in [Nat -> T] /\ h[0] = seqs[1] /\ \A i \in Nat : h[i + 1] = Grow(h[i], i + 1)
    <3> HIDE DEF T, Grow
    <3>1. d \in [T \X Nat -> T]
      BY <2>2
    <3>2. PICK h : Recurs(h, T, seqs[1], d)
      <4> HIDE DEF d
      <4> QED
        BY <2>1, <3>1, Recursion
    <3>3. \A i \in Nat : d[<<h[i], i + 1>>] = Grow(h[i], i + 1)
      BY <3>2 DEF Recurs
    <3> HIDE DEF d
    <3> QED
      BY <3>2, <3>3 DEF Recurs
  <2> DEFINE g == [i \in 1..N |-> h[i - 1]]
  <2>4. \A i \in 1..N : g[i] = IF i = 1 THEN seqs[i] ELSE g[i - 1] \o seqs[i]
    <3> SUFFICES ASSUME NEW i \in 1..N, i # 1 PROVE g[i] = g[i - 1] \o seqs[i]
      <4>1. 1 \in 1..N => g[1] = seqs[1]
        BY <2>3
      <4> QED
        BY <4>1
    <3> DEFINE j == i - 2
    <3>1. j \in Nat /\ j + 1 = i - 1 /\ j + 1 + 1 = i /\ i - 1 \in 1..N /\ i - 1 - 1 = j
      BY <2>1
    <3>4. g[i] = h[j + 1] /\ g[i - 1] = h[j]
      BY <3>1
    <3> HIDE DEF j, Grow, g
    <3>2. h[j + 1] = Grow(h[j], j + 1)
      BY <2>3, <3>1
    <3>3. Grow(h[j], j + 1) = h[j] \o seqs[i]
      BY <3>1 DEF Grow
    <3> QED
      BY <3>2, <3>3, <3>4
  <2>5. Is(g)
    BY <2>4
  <2> DEFINE f == CHOOSE f : Is(f)
  <2>6. Is(f)
    <3> HIDE DEF g, Is
    <3> QED
      BY <2>5
  <2>7. FlattenSeq(seqs) = f[N]
    BY <1>2 DEF FlattenSeq
  <2> HIDE DEF f
  <2>12. \A i \in 1..N : f[i] = IF i = 1 THEN seqs[i] ELSE f[i - 1] \o seqs[i]
    BY <2>6
  <2> DEFINE P == { n \in Nat : n + 1 <= N => f[n + 1] \in T }
  <2>8. 0 \in P
    BY <1>2, <2>1, <2>6
  <2>9. ASSUME NEW n \in Nat, n \in P PROVE n + 1 \in P
    <3> SUFFICES ASSUME n + 1 + 1 <= N PROVE f[n + 1 + 1] \in T
      OBVIOUS
    <3>1. f[n + 1] \in T /\ n + 1 + 1 \in 1..N /\ seqs[n + 1 + 1] \in T
      BY <2>9, <2>1
    <3>2. f[n + 1 + 1] = f[n + 1] \o seqs[n + 1 + 1]
      <4> DEFINE j == n + 1 + 1
      <4>1. j # 1 /\ j - 1 = n + 1 /\ j \in 1..N
        BY <3>1
      <4> HIDE DEF N, j
      <4>2. f[j] = f[j - 1] \o seqs[j]
        BY <2>12, <4>1
      <4> QED
        BY <4>1, <4>2 DEF j
    <3> QED
      BY <3>1, <3>2
  <2>10. Nat \subseteq P
    <3> HIDE DEF P
    <3> QED
      BY <2>8, <2>9, Numbers
  <2>11. N - 1 \in Nat /\ N - 1 + 1 = N
    BY <1>2, <2>1
  <2>13. f[N] \in T
    <3> HIDE DEF N, T
    <3>1. N - 1 \in P
      BY <2>10, <2>11
    <3> QED
      BY <2>11, <3>1
  <2> QED
    BY <2>7, <2>13
<1> QED
  BY <1>1, <1>2

\* A sequence over a set is one over every larger set.
LEMMA SeqMore ==
    ASSUME NEW S, NEW T, S \subseteq T, NEW s \in Seq(S)
    PROVE  s \in Seq(T)
<1>1. DOMAIN s = 1..Len(s) /\ Len(s) \in Nat /\ \A i \in 1..Len(s) : s[i] \in T
  OBVIOUS
<1>2. s = [i \in 1..Len(s) |-> s[i]]
  OBVIOUS
<1>3. [i \in 1..Len(s) |-> s[i]] \in Seq(T)
  BY <1>1
<1> QED
  BY <1>2, <1>3

\* What a sequence with one more element is.
LEMMA AppendIs ==
    ASSUME NEW S, NEW s \in Seq(S), NEW x \in S
    PROVE  /\ Len(s) \in Nat
           /\ Append(s, x) \in Seq(S)
           /\ Len(Append(s, x)) = Len(s) + 1
           /\ Append(s, x)[Len(s) + 1] = x
           /\ \A i \in 1..Len(s) : Append(s, x)[i] = s[i]
OBVIOUS

\* What a sequence without its last element is.
LEMMA FrontIs ==
    ASSUME NEW S, NEW s \in Seq(S), Len(s) > 0
    PROVE  /\ Len(s) \in Nat /\ Len(s) - 1 \in Nat
           /\ SubSeq(s, 1, Len(s) - 1) \in Seq(S)
           /\ Len(SubSeq(s, 1, Len(s) - 1)) = Len(s) - 1
           /\ \A i \in 1..Len(s) - 1 : SubSeq(s, 1, Len(s) - 1)[i] = s[i]
           /\ SubSeq(s, 1, Len(s) - 1) = [i \in 1..Len(s) - 1 |-> s[i]]
<1>1. Len(s) \in Nat /\ Len(s) - 1 \in Nat /\ 1 <= Len(s)
  OBVIOUS
<1>2. SubSeq(s, 1, Len(s) - 1) \in Seq(S) /\ Len(SubSeq(s, 1, Len(s) - 1)) = Len(s) - 1
  <2> DEFINE k == Len(s) - 1
  <2>1. k \in Nat /\ \A i \in 1..k : s[i] \in S
    BY <1>1
  <2> HIDE DEF k
  <2>2. /\ SubSeq(s, 1, k) \in Seq(S) /\ Len(SubSeq(s, 1, k)) = IF 1 <= k THEN k - 1 + 1 ELSE 0
    BY <2>1, SubSeqProperties
  <2>3. Len(SubSeq(s, 1, k)) = k
    BY <2>1, <2>2
  <2> QED
    BY <2>2, <2>3 DEF k
<1>3. \A i \in 1..Len(s) - 1 : SubSeq(s, 1, Len(s) - 1)[i] = s[i]
  BY <1>1
<1>4. SubSeq(s, 1, Len(s) - 1) = [i \in 1..Len(s) - 1 |-> s[i]]
  BY <1>2, <1>3
<1> QED
  BY <1>1, <1>2, <1>3, <1>4

\* The first of some places of a sequence.
LEMMA FirstIs ==
    ASSUME NEW n \in Nat, NEW I, I \subseteq 1..n, I # {}
    PROVE  Min(I) \in I /\ \A i \in I : Min(I) <= i
<1>1. I \subseteq Nat
  OBVIOUS
<1>2. \E i \in I : \A j \in I : i <= j
  BY <1>1, Least
<1> QED
  BY <1>2 DEF Min

LEMMA SeqIs ==
    ASSUME NEW s, IsSeq(s)
    PROVE  Len(s) \in Nat /\ DOMAIN s = 1..Len(s)
BY DEF IsSeq

LEMMA IsSeqOf ==
    ASSUME NEW S, NEW s \in Seq(S)
    PROVE  IsSeq(s)
<1>1. /\ Len(s) \in Nat /\ DOMAIN s = 1..Len(s)
      /\ s \in [1..Len(s) -> S] /\ \A i \in DOMAIN s : s[i] \in ToSet(s)
  BY DEF ToSet
<1>2. s \in [1..Len(s) -> ToSet(s)]
  BY <1>1
<1> QED
  BY <1>1, <1>2, SeqDef DEF IsSeq

\* A function on the places of a sequence is one.
LEMMA IsSeqFunction ==
    ASSUME NEW n \in Nat, NEW f, f = [i \in 1..n |-> f[i]]
    PROVE  IsSeq(f) /\ Len(f) = n
<1>1. DOMAIN f = 1..n
  OBVIOUS
<1>2. \A i \in 1..n : f[i] \in ToSet(f)
  BY <1>1 DEF ToSet
<1>3. f \in [1..n -> ToSet(f)]
  BY <1>2
<1> QED
  BY <1>1, <1>3, SeqDef DEF IsSeq

LEMMA IsSeqConcat ==
    ASSUME NEW s, NEW t, IsSeq(s), IsSeq(t)
    PROVE  /\ IsSeq(s \o t)
           /\ Len(s \o t) = Len(s) + Len(t)
           /\ \A i \in DOMAIN s : (s \o t)[i] = s[i]
           /\ \A i \in DOMAIN (s \o t) : (s \o t)[i] \in ToSet(s) \cup ToSet(t)
<1> DEFINE S == ToSet(s) \cup ToSet(t)
<1>1. s \in Seq(ToSet(s)) /\ t \in Seq(ToSet(t))
  BY DEF IsSeq
<1>2. s \in Seq(S) /\ t \in Seq(S)
  BY <1>1, SeqMore
<1> HIDE DEF S
<1>3. /\ s \o t \in Seq(S) /\ Len(s \o t) = Len(s) + Len(t)
      /\ \A i \in DOMAIN s : (s \o t)[i] = s[i]
      /\ \A i \in DOMAIN (s \o t) : (s \o t)[i] \in S
  BY <1>2
<1> QED
  BY <1>3, IsSeqOf DEF S

\* What is at the end of a sequence, from place a on.
LEMMA EndIs ==
    ASSUME NEW s, IsSeq(s), NEW a \in 1..Len(s) + 1
    PROVE  LET t == SubSeq(s, a, Len(s))
           IN  /\ IsSeq(t) /\ Len(t) = Len(s) + 1 - a
               /\ \A i \in 1..Len(t) : t[i] = s[a + i - 1] /\ a + i - 1 \in DOMAIN s
<1> DEFINE S == ToSet(s)
           n == Len(s)
           t == SubSeq(s, a, n)
<1>1. s \in Seq(S) /\ n \in Nat /\ DOMAIN s = 1..n /\ \A i \in 1..n : s[i] \in S
  BY SeqIs DEF IsSeq, ToSet
<1> HIDE DEF S, n
<1>2. a \in Int /\ n \in Int /\ \A i \in a..n : s[i] \in S
  BY <1>1 DEF n
<1>3. /\ t \in Seq(S) /\ Len(t) = IF a <= n THEN n - a + 1 ELSE 0
      /\ \A i \in 1..n - a + 1 : t[i] = s[a + i - 1]
  BY <1>2, SubSeqProperties
<1> HIDE DEF t
<1>4. Len(t) = n + 1 - a
  BY <1>1, <1>3 DEF n
<1>5. \A i \in 1..Len(t) : i \in 1..n - a + 1 /\ a + i - 1 \in 1..n
  BY <1>1, <1>4 DEF n
<1>6. IsSeq(t)
  BY <1>3, IsSeqOf
<1> QED
  BY <1>1, <1>3, <1>4, <1>5, <1>6 DEF t, n

\* ... and at its beginning, up to place a.
LEMMA BeginningIs ==
    ASSUME NEW s, IsSeq(s), NEW a \in 0..Len(s)
    PROVE  LET t == SubSeq(s, 1, a)
           IN  /\ IsSeq(t) /\ Len(t) = a
               /\ \A i \in 1..a : t[i] = s[i] /\ i \in DOMAIN s
<1> DEFINE S == ToSet(s)
           n == Len(s)
           t == SubSeq(s, 1, a)
<1>1. s \in Seq(S) /\ n \in Nat /\ DOMAIN s = 1..n /\ \A i \in 1..n : s[i] \in S
  BY SeqIs DEF IsSeq, ToSet
<1> HIDE DEF S, n
<1>2. a \in Int /\ 1 \in Int /\ \A i \in 1..a : s[i] \in S
  BY <1>1 DEF n
<1>3. /\ t \in Seq(S) /\ Len(t) = IF 1 <= a THEN a - 1 + 1 ELSE 0
      /\ \A i \in 1..a - 1 + 1 : t[i] = s[1 + i - 1]
  BY <1>2, SubSeqProperties
<1> HIDE DEF t
<1>4. Len(t) = a /\ \A i \in 1..a : t[i] = s[i] /\ i \in 1..n
  BY <1>1, <1>3 DEF n
<1>5. IsSeq(t)
  BY <1>3, IsSeqOf
<1> QED
  BY <1>1, <1>4, <1>5 DEF t, n

\* Two sequences put together, place by place.
LEMMA ConcatIs ==
    ASSUME NEW s, NEW t, IsSeq(s), IsSeq(t)
    PROVE  /\ IsSeq(s \o t)
           /\ Len(s) \in Nat /\ Len(t) \in Nat /\ Len(s \o t) = Len(s) + Len(t)
           /\ \A i \in 1..Len(s) : (s \o t)[i] = s[i]
           /\ \A i \in 1..Len(t) : (s \o t)[Len(s) + i] = t[i]
<1> DEFINE S == ToSet(s) \cup ToSet(t)
<1>1. s \in Seq(ToSet(s)) /\ t \in Seq(ToSet(t))
  BY DEF IsSeq
<1>2. s \in Seq(S) /\ t \in Seq(S)
  BY <1>1, SeqMore
<1> HIDE DEF S
<1>3. /\ s \o t \in Seq(S) /\ Len(s) \in Nat /\ Len(t) \in Nat
      /\ Len(s \o t) = Len(s) + Len(t)
      /\ \A i \in 1..Len(s) : (s \o t)[i] = s[i]
      /\ \A i \in 1..Len(t) : (s \o t)[Len(s) + i] = t[i]
  BY <1>2
<1> QED
  BY <1>3, IsSeqOf

LEMMA SingleIs ==
    ASSUME NEW x
    PROVE  IsSeq(<<x>>) /\ Len(<<x>>) = 1 /\ DOMAIN <<x>> = 1..1 /\ <<x>>[1] = x
<1>1. <<x>> \in Seq({x}) /\ Len(<<x>>) = 1 /\ <<x>>[1] = x
  OBVIOUS
<1>2. IsSeq(<<x>>)
  BY <1>1, IsSeqOf
<1> QED
  BY <1>1, <1>2, SeqIs

LEMMA AppendConcat ==
    ASSUME NEW s, IsSeq(s), NEW x
    PROVE  Append(s, x) = s \o <<x>>
<1> DEFINE S == ToSet(s) \cup {x}
<1>1. s \in Seq(S) /\ <<x>> \in Seq(S) /\ x \in S
  BY SeqMore DEF IsSeq
<1> HIDE DEF S
<1> QED
  BY <1>1

\* Two of the same length with the same elements are the same.
LEMMA SameSeq ==
    ASSUME NEW s, NEW t, IsSeq(s), IsSeq(t), Len(s) = Len(t), \A i \in 1..Len(s) : s[i] = t[i]
    PROVE  s = t
<1>1. s \in Seq(ToSet(s)) /\ t \in Seq(ToSet(t))
  BY DEF IsSeq
<1>2. s = [i \in 1..Len(s) |-> s[i]] /\ t = [i \in 1..Len(t) |-> t[i]]
  BY <1>1
<1> QED
  BY <1>2

LEMMA EmptyIs == IsSeq(<<>>) /\ Len(<<>>) = 0
BY DEF IsSeq, ToSet

LEMMA NoneIsEmpty ==
    ASSUME NEW s, IsSeq(s), Len(s) = 0
    PROVE  s = <<>>
BY SameSeq, EmptyIs

\* The place of a member is told by how many are up to it.
LEMMA NthUnique ==
    ASSUME NEW K, K \subseteq Nat, IsFiniteSet(K), NEW k \in K
    PROVE  LET n == Cardinality(UpTo(K, k))
           IN  n \in 1..Cardinality(K) /\ Nth(K, n) = k
<1> DEFINE n == Cardinality(UpTo(K, k))
           j == Nth(K, n)
<1>1. IsFiniteSet(UpTo(K, k)) /\ UpTo(K, k) \subseteq K
  BY FS_Subset DEF UpTo
<1>2. n \in Nat /\ Cardinality(K) \in Nat /\ n <= Cardinality(K)
  BY <1>1, FS_CardinalityType, FS_Subset
<1>3. n # 0
  <2>1. k \in UpTo(K, k)
    BY DEF UpTo
  <2> QED
    BY <1>1, <2>1, FS_EmptySet
<1>4. n \in 1..Cardinality(K)
  BY <1>2, <1>3
<1> HIDE DEF n
<1>5. j \in K /\ Cardinality(UpTo(K, j)) = n
  BY <1>4, NthIs
<1>6. Cardinality(UpTo(K, k)) = n
  BY DEF n
<1> HIDE DEF j
<1>7. ASSUME NEW a \in K, NEW b \in K, a < b
      PROVE  Cardinality(UpTo(K, a)) # Cardinality(UpTo(K, b))
  <2>1. UpTo(K, a) \subseteq UpTo(K, b) /\ b \in UpTo(K, b) /\ b \notin UpTo(K, a)
    BY <1>7 DEF UpTo
  <2>2. IsFiniteSet(UpTo(K, b))
    BY FS_Subset DEF UpTo
  <2> QED
    BY <2>1, <2>2, FS_Subset
<1>8. j = k
  <2>1. ~(j < k) /\ ~(k < j)
    BY <1>5, <1>6, <1>7
  <2> QED
    BY <1>5, <2>1
<1> QED
  BY <1>4, <1>8 DEF n, j

\* Records with the same two fields are the same.
LEMMA EdgesSet ==
    ASSUME NEW A, NEW B, NEW g \in [nodes : A, edges : B], NEW x
    PROVE  [g EXCEPT !.edges = x] = [nodes |-> g.nodes, edges |-> x]
OBVIOUS

\* As above, for the other field.
LEMMA NodesSet ==
    ASSUME NEW A, NEW B, NEW g \in [nodes : A, edges : B], NEW x
    PROVE  [g EXCEPT !.nodes = x] = [nodes |-> x, edges |-> g.edges]
OBVIOUS

------------------------------------------------------------------------------
(* The notebook: what a request keeps *)
\* The graphs with the three first nodes, whose edges join nodes that are there.
FullGraph ==
    { g \in GraphType : Len(g.nodes) >= 3 /\ \A e \in DOMAIN g.edges :
          g.edges[e][1] \in Nodes(g) /\ g.edges[e][2] \in Nodes(g) }

\* The paths that begin in A.
PathsIn(g, A) ==
    { p \in Seq(1..Len(g.edges)) :
          /\ Len(p) > 0 /\ g.edges[p[1]][1] \in A
          /\ \A i \in 1..Len(p) - 1 : g.edges[p[i]][2] = g.edges[p[i + 1]][1] }

\* Where paths begin: a search from the top may begin anywhere but at the root.
NotRoot == Int \ {0}

\* Every node and edge of g keeps its index in h.
Keeps(h, g) ==
    /\ Len(g.nodes) <= Len(h.nodes) /\ \A i \in 1..Len(g.nodes) : h.nodes[i] = g.nodes[i]
    /\ Len(g.edges) <= Len(h.edges) /\ \A i \in 1..Len(g.edges) : h.edges[i] = g.edges[i]

\* ... and h has the path besides, each edge with the node it leads to.
KeepsAndHas(h, g, path) ==
    /\ Keeps(h, g)
    /\ Len(h.nodes) = Len(g.nodes) + Len(path)
    /\ Len(h.edges) = Len(g.edges) + Len(path)
    /\ \A i \in 1..Len(path) :
           /\ path[i] = Len(g.edges) + i
           /\ h.edges[path[i]][2] = Len(g.nodes) + i - 1
           /\ h.edges[path[i]][1] < Len(g.nodes) + i - 1

\* Where a request is while it is not away.
VisitPhases == {"founding", "opening", "beginning", "asking", "making", "undoing",
                "saving", "writing", "saved", "ending"}

\* A request: what it has read, where it stands, the options it shows.
VisitType ==
    [phase : VisitPhases, thread : ThreadIds, dag : GraphType \cup {NoFile}, current : Nat,
     options : Seq(Seq(Nat)), listed : Seq(Seq(Nat)), path : Seq(Nat), left : Nat, at : Nat,
     before : {<<>>} \cup (GraphType \X Nat), astray : BOOLEAN]

\* The files hold a graph and a place, or nothing, or half of it.
NotebookTypeOK ==
    /\ dag \in FullGraph \cup {NoFile, CutFile}
    /\ current_node \in [ThreadIds -> Nat \cup {NoFile, CutFile}]
    /\ visit \in [Visitors -> VisitType \cup {Away}]
    /\ {failed, torn} \subseteq BOOLEAN

\* Every node of g has its row.
RowsOf(g) == \A i \in Nodes(g) : i \in DOMAIN rows /\ rows[i] = NodeAt(g, i)

\* Reads what it needs, makes or undoes a path, has read the graph.
Opening(s) == visit[s].phase \in {"opening", "beginning"}
Pathing(s) == visit[s].phase \in {"making", "undoing"}
Works(s) == visit[s].phase \notin {"idle", "founding", "opening", "beginning"}

\* A request works on a copy of the graph that keeps what the file has; a file is
\* cut short only while its writer writes.
FilesFollow(s) ==
    /\ visit[s].phase = "founding" => dag = CutFile
    /\ Opening(s) => dag \in FullGraph /\ visit[s].dag = dag
    /\ Works(s) =>
          /\ visit[s].dag \in FullGraph
          /\ dag \in FullGraph => Keeps(visit[s].dag, dag)
          /\ dag # NoFile
          /\ dag = CutFile <=> visit[s].phase = "ending"

\* The graph whose nodes the rows are of.
Newest(s) == IF visit[s].phase \in {"idle", "founding"} THEN dag ELSE visit[s].dag

\* The rows tell every node of the newest graph, and no other unless a request failed.
RowsFollow(s) ==
    Newest(s) \in FullGraph =>
        RowsOf(Newest(s)) /\ (~failed => DOMAIN rows = Nodes(Newest(s)))

\* The graph where the threads stand.
Home(s) == IF visit[s].phase \in {"saved", "ending"} THEN visit[s].dag ELSE dag

\* A whole place in a file is a node of the graph the file will have.
ThreadsFollow(s) ==
    ~torn => \A t \in ThreadIds :
        Whole(current_node[t]) => Home(s) \in FullGraph /\ current_node[t] \in Nodes(Home(s))

\* The request stands at a node of its copy, and at one of the copy before the path.
PlaceFollows(s) ==
    Works(s) /\ ~torn =>
        /\ visit[s].current \in Nodes(visit[s].dag)
        /\ visit[s].phase = "making" => visit[s].at \in Nodes(visit[s].dag)
        /\ Pathing(s) => visit[s].current \in Nodes(visit[s].before[1])

\* The options are paths of the copy they were listed in; while a path is made the
\* copy is the one before with the path on it.
PathFollows(s) ==
    /\ Works(s) /\ ~Pathing(s) => visit[s].options \in Seq(PathsIn(visit[s].dag, NotRoot))
    /\ Pathing(s) =>
          /\ visit[s].before \in FullGraph \X {visit[s].current}
          /\ visit[s].options \in Seq(PathsIn(visit[s].before[1], NotRoot))
          /\ dag \in FullGraph => Keeps(visit[s].before[1], dag)
          /\ KeepsAndHas(visit[s].dag, visit[s].before[1], visit[s].path)

\* The inductive invariant.
NotebookInv ==
    /\ NotebookTypeOK
    /\ \A s \in Visitors : /\ FilesFollow(s) /\ RowsFollow(s) /\ ThreadsFollow(s)
                           /\ PlaceFollows(s) /\ PathFollows(s)

(* Walks and paths *)
\* The walks of one or more edges.
HasEdge(g, a, b) == \E e \in DOMAIN g.edges : g.edges[e] = <<a, b>>
WalksIn(g, A) ==
    { w \in Seq(Int) : /\ Len(w) > 0 /\ w[1] \in A
                       /\ \A i \in 1..Len(w) - 1 : HasEdge(g, w[i], w[i + 1]) }
LongWalks(g, A) == { w \in WalksIn(g, A) : Len(w) > 1 }

\* A selection of a sequence is over the same elements.
LEMMA KeptType ==
    ASSUME NEW S, NEW s \in Seq(S), NEW K, K \subseteq DOMAIN s
    PROVE  Kept(s, K) \in Seq(S)
BY KeptElements

\* A walk that goes on by every edge from its end.
LEMMA GoOnType ==
    ASSUME NEW A, NEW g \in GraphType, NEW w \in WalksIn(g, A)
    PROVE  GoOn(g, w) \in Seq(LongWalks(g, A))
<1> DEFINE K == { i \in DOMAIN g.edges : g.edges[i][1] = Last(w) }
           out == EdgesFrom(g, Last(w))
<1>1. g.edges \in Seq(Nat \X Nat)
  BY DEF GraphType
<1>2. out = Kept(g.edges, K)
  BY DEF EdgesFrom
<1>3. out \in Seq(Nat \X Nat) /\ \A i \in DOMAIN out : \E k \in K : out[i] = g.edges[k]
  <2>1. K \subseteq DOMAIN g.edges
    OBVIOUS
  <2> HIDE DEF K
  <2> QED
    BY <1>1, <1>2, <2>1, KeptElements
<1> HIDE DEF out
<1>4. ASSUME NEW i \in DOMAIN out PROVE Append(w, out[i][2]) \in LongWalks(g, A)
  <2>1. PICK k \in DOMAIN g.edges : out[i] = g.edges[k] /\ g.edges[k][1] = Last(w)
    BY <1>3
  <2>2. g.edges[k] \in Nat \X Nat /\ w \in Seq(Int) /\ Len(w) > 0
    BY <1>1 DEF WalksIn
  <2> DEFINE b == out[i][2]
             v == Append(w, b)
  <2>3. b \in Nat /\ g.edges[k] = <<w[Len(w)], b>>
    BY <2>1, <2>2 DEF Last
  <2> HIDE DEF b
  <2>7. w[1] \in A /\ 1 \in 1..Len(w)
    BY <2>2 DEF WalksIn
  <2>4. v \in Seq(Int) /\ Len(v) = Len(w) + 1 /\ v[Len(w) + 1] = b /\ \A j \in 1..Len(w) : v[j] = w[j]
    BY <2>2, <2>3
  <2> HIDE DEF v
  <2>5. ASSUME NEW j \in 1..Len(v) - 1 PROVE HasEdge(g, v[j], v[j + 1])
    <3>1. CASE j = Len(w)
      BY <2>2, <2>3, <2>4, <3>1 DEF HasEdge
    <3>2. CASE j # Len(w)
      <4>1. j \in 1..Len(w) - 1 /\ j \in 1..Len(w) /\ j + 1 \in 1..Len(w)
        BY <2>2, <2>4, <3>2
      <4> QED
        BY <2>4, <4>1 DEF WalksIn
    <3> QED
      BY <3>1, <3>2
  <2>6. v \in LongWalks(g, A)
    BY <2>2, <2>4, <2>5, <2>7 DEF LongWalks, WalksIn
  <2> QED
    BY <2>6 DEF v, b
<1>5. GoOn(g, w) = [i \in DOMAIN out |-> Append(w, out[i][2])]
  BY DEF GoOn, out
<1>6. DOMAIN out = 1..Len(out) /\ Len(out) \in Nat
  BY <1>3
<1> QED
  BY <1>4, <1>5, <1>6

\* All walks, gone on by one edge.
LEMMA LongerType ==
    ASSUME NEW A, NEW g \in GraphType, NEW walks \in Seq(WalksIn(g, A))
    PROVE  Longer(g, walks) \in Seq(LongWalks(g, A))
<1>1. \A i \in DOMAIN walks : GoOn(g, walks[i]) \in Seq(LongWalks(g, A))
  BY GoOnType
<1>2. [i \in DOMAIN walks |-> GoOn(g, walks[i])] \in Seq(Seq(LongWalks(g, A)))
  BY <1>1
<1> QED
  BY <1>2, FlattenType DEF Longer

\* A function that goes on from number to number by d, up to k.
LEMMA Iterated ==
    ASSUME NEW S, NEW a \in S, NEW d \in [S -> S]
    PROVE  \E f : f \in [Nat -> S] /\ f[0] = a /\ \A i \in Nat : f[i + 1] = d[f[i]]
<1> DEFINE e == [p \in S \X Nat |-> d[p[1]]]
<1>1. e \in [S \X Nat -> S]
  OBVIOUS
<1>2. PICK f : Recurs(f, S, a, e)
  <2> HIDE DEF e
  <2> QED
    BY <1>1, Recursion
<1>3. \A i \in Nat : e[<<f[i], i + 1>>] = d[f[i]]
  BY <1>2 DEF Recurs
<1> HIDE DEF e
<1> QED
  BY <1>2, <1>3 DEF Recurs

\* The walks of up to k edges from a begin at a and follow edges.
LEMMA WalksType ==
    ASSUME NEW A, NEW g \in GraphType, NEW a \in Int, a \in A, NEW k \in Nat
    PROVE  Walks(g, a, k) \in Seq(LongWalks(g, A))
<1> DEFINE T == Seq(WalksIn(g, A))
           d == [t \in T |-> Longer(g, t)]
           Is(f) == f = [n \in 0..k |-> IF n = 0 THEN << <<a>> >> ELSE Longer(g, f[n - 1])]
<1>1. <<a>> \in WalksIn(g, A)
  BY DEF WalksIn
<1>2. << <<a>> >> \in T
  BY <1>1
<1>3. \A t \in T : Longer(g, t) \in T
  <2> SUFFICES ASSUME NEW t \in T PROVE Longer(g, t) \in T
    OBVIOUS
  <2>1. Longer(g, t) \in Seq(LongWalks(g, A)) /\ LongWalks(g, A) \subseteq WalksIn(g, A)
    BY LongerType DEF LongWalks
  <2> QED
    BY <2>1
<1>4. PICK h : h \in [Nat -> T] /\ h[0] = << <<a>> >> /\ \A i \in Nat : h[i + 1] = Longer(g, h[i])
  <2> HIDE DEF T
  <2>1. d \in [T -> T]
    BY <1>3
  <2> DEFINE e == << <<a>> >>
  <2> HIDE DEF d, e
  <2>2. e \in T
    BY <1>2 DEF e
  <2>3. PICK h : h \in [Nat -> T] /\ h[0] = e /\ \A i \in Nat : h[i + 1] = d[h[i]]
    BY <2>1, <2>2, Iterated
  <2> QED
    BY <2>3 DEF d, e
<1> DEFINE f0 == [n \in 0..k |-> h[n]]
<1>5. Is(f0)
  <2>1. ASSUME NEW n \in 0..k, n # 0 PROVE f0[n] = Longer(g, f0[n - 1])
    <3> DEFINE j == n - 1
    <3>1. j \in Nat /\ j + 1 = n /\ j \in 0..k
      BY <2>1
    <3>2. f0[n] = h[n] /\ f0[n - 1] = h[j]
      BY <3>1
    <3> HIDE DEF j, f0
    <3>3. h[j + 1] = Longer(g, h[j])
      BY <1>4, <3>1
    <3> QED
      BY <3>1, <3>2, <3>3
  <2>2. f0[0] = << <<a>> >>
    BY <1>4
  <2> QED
    BY <2>1, <2>2
<1> DEFINE f == CHOOSE f : Is(f)
<1>6. Is(f)
  <2> HIDE DEF f0, Is
  <2> QED
    BY <1>5
<1>7. Walks(g, a, k) = FlattenSeq([n \in 1..k |-> f[n]])
  BY DEF Walks
<1> HIDE DEF f
<1>8. f[0] = << <<a>> >> /\ \A n \in 1..k : f[n] = Longer(g, f[n - 1])
  BY <1>6
<1> DEFINE P == { n \in Nat : n <= k => f[n] \in T }
<1>9. 0 \in P
  BY <1>2, <1>8
<1>10. ASSUME NEW n \in Nat, n \in P PROVE n + 1 \in P
  <2> SUFFICES ASSUME n + 1 <= k PROVE f[n + 1] \in T
    OBVIOUS
  <2>1. f[n] \in T /\ n + 1 \in 1..k /\ (n + 1) - 1 = n
    BY <1>10
  <2> HIDE DEF T
  <2>2. f[n + 1] = Longer(g, f[n])
    BY <1>8, <2>1
  <2> QED
    BY <2>1, <2>2, <1>3
<1>11. Nat \subseteq P
  <2> HIDE DEF P
  <2> QED
    BY <1>9, <1>10, Numbers
<1>12. ASSUME NEW n \in 1..k PROVE f[n] \in Seq(LongWalks(g, A))
  <2>1. n - 1 \in P /\ n - 1 <= k
    BY <1>11
  <2>2. f[n - 1] \in T
    BY <2>1
  <2> QED
    BY <1>8, <2>2, LongerType
<1>13. [n \in 1..k |-> f[n]] \in Seq(Seq(LongWalks(g, A)))
  BY <1>12
<1> QED
  BY <1>7, <1>13, FlattenType

\* A bounded set of naturals that is not empty has a greatest element.
LEMMA GreatestOf ==
    ASSUME NEW T, NEW n \in Nat, T \subseteq 1..n, T # {}
    PROVE  Max(T) \in T
<1> DEFINE U == { n - x : x \in T }
<1>5. \A x \in T : x \in Nat /\ n - x \in Nat
  OBVIOUS
<1>1. U \subseteq Nat /\ U # {}
  BY <1>5
<1>2. PICK u \in U : \A v \in U : u <= v
  <2> HIDE DEF U
  <2> QED
    BY <1>1, Least
<1>3. PICK x \in T : u = n - x
  BY <1>2
<1>4. \A y \in T : x >= y
  <2> SUFFICES ASSUME NEW y \in T PROVE x >= y
    OBVIOUS
  <2>1. n - x <= n - y
    BY <1>2, <1>3
  <2> QED
    BY <1>5, <2>1
<1> QED
  BY <1>4 DEF Max

\* The edges of a walk lead from one to the next.
LEMMA EdgesOfType ==
    ASSUME NEW A, NEW g \in GraphType, NEW w \in LongWalks(g, A)
    PROVE  EdgesOf(g, w) \in PathsIn(g, A)
<1> DEFINE p == EdgesOf(g, w)
<1>1. Len(g.edges) \in Nat /\ DOMAIN g.edges = 1..Len(g.edges)
  BY DEF GraphType
<1>2. w \in Seq(Int) /\ Len(w) - 1 \in Nat /\ Len(w) - 1 > 0 /\ w[1] \in A
  BY DEF LongWalks, WalksIn
<1>3. ASSUME NEW i \in 1..Len(w) - 1
      PROVE  LET e == FindEdge(g, w[i], w[i + 1])
             IN  e \in 1..Len(g.edges) /\ g.edges[e] = <<w[i], w[i + 1]>>
  <2> DEFINE T == { e \in 1..Len(g.edges) : g.edges[e] = <<w[i], w[i + 1]>> }
  <2>1. T # {}
    BY <1>1, <1>3 DEF LongWalks, WalksIn, HasEdge
  <2>2. T \subseteq 1..Len(g.edges) /\ \A e \in T : g.edges[e] = <<w[i], w[i + 1]>>
    OBVIOUS
  <2>3. FindEdge(g, w[i], w[i + 1]) = Max(T)
    BY DEF FindEdge
  <2> HIDE DEF T
  <2>4. Max(T) \in T
    BY <1>1, <2>1, <2>2, GreatestOf
  <2> QED
    BY <2>2, <2>3, <2>4
<1>4. p = [i \in 1..Len(w) - 1 |-> FindEdge(g, w[i], w[i + 1])]
  BY DEF EdgesOf
<1> HIDE DEF p
<1>5. p \in Seq(1..Len(g.edges)) /\ Len(p) = Len(w) - 1
  BY <1>2, <1>3, <1>4
<1>6. \A i \in 1..Len(p) : g.edges[p[i]] = <<w[i], w[i + 1]>>
  BY <1>2, <1>3, <1>4, <1>5
<1>7. Len(p) > 0 /\ 1 \in 1..Len(p) /\ \A i \in 1..Len(p) - 1 : i \in 1..Len(p) /\ i + 1 \in 1..Len(p)
  BY <1>2, <1>5
<1>8. g.edges[p[1]][1] \in A
  <2>1. g.edges[p[1]] = <<w[1], w[1 + 1]>>
    BY <1>6, <1>7
  <2> QED
    BY <1>2, <2>1
<1>9. \A i \in 1..Len(p) - 1 : g.edges[p[i]][2] = g.edges[p[i + 1]][1]
  <2> SUFFICES ASSUME NEW i \in 1..Len(p) - 1 PROVE g.edges[p[i]][2] = g.edges[p[i + 1]][1]
    OBVIOUS
  <2>1. /\ g.edges[p[i]] = <<w[i], w[i + 1]>>
        /\ g.edges[p[i + 1]] = <<w[i + 1], w[(i + 1) + 1]>>
    <3>1. i \in 1..Len(p) /\ i + 1 \in 1..Len(p)
      BY <1>7
    <3> QED
      BY <1>6, <3>1
  <2> QED
    BY <2>1
<1>10. p \in PathsIn(g, A)
  BY <1>5, <1>7, <1>8, <1>9 DEF PathsIn
<1> QED
  BY <1>10 DEF p

\* As above, for every walk of a list.
LEMMA EdgewiseType ==
    ASSUME NEW A, NEW g \in GraphType, NEW walks \in Seq(LongWalks(g, A))
    PROVE  Edgewise(g, walks) \in Seq(PathsIn(g, A))
<1>1. \A i \in DOMAIN walks : EdgesOf(g, walks[i]) \in PathsIn(g, A)
  BY EdgesOfType
<1> QED
  BY <1>1 DEF Edgewise

\* Whatever is listed is a path of the graph.
LEMMA OptionsType ==
    ASSUME NEW A, NEW g \in GraphType, Len(g.nodes) >= 3, Nat \ {0} \subseteq A,
           NEW a \in Int, a \in A, NEW goals
    PROVE  /\ TraversalOptions(g, a, goals) \in Seq(PathsIn(g, A))
           /\ ChildPaths(g, a) \in Seq(PathsIn(g, A))
           /\ ParentPaths(g, a) \in Seq(PathsIn(g, A))
<1> DEFINE S == LongWalks(g, A)
           n == Len(g.nodes)
<1>1. n \in Nat /\ n - 3 \in Nat /\ DOMAIN g.nodes = 1..n
  BY DEF GraphType
<1>2. ChildPaths(g, a) \in Seq(PathsIn(g, A))
  BY WalksType, EdgewiseType DEF ChildPaths
<1>3. ASSUME NEW walks \in Seq(S), NEW b PROVE WalksTo(walks, b) \in Seq(S)
  BY <1>3, KeptType DEF WalksTo
<1>4. ParentPaths(g, a) \in Seq(PathsIn(g, A))
  <2> DEFINE from == [i \in 1..n - 3 |-> Walks(g, Top + i, 3)]
  <2>6. \A i \in 1..n - 3 : Top + i \in Int /\ Top + i \in A
    BY <1>1 DEF Top
  <2>1. \A i \in 1..n - 3 : Walks(g, Top + i, 3) \in Seq(S)
    BY <1>1, <2>6, WalksType
  <2>2. from \in Seq(Seq(S))
    BY <1>1, <2>1
  <2>3. FlattenSeq(from) \in Seq(S)
    BY <2>2, FlattenType
  <2> HIDE DEF from, S
  <2>4. WalksTo(FlattenSeq(from), a) \in Seq(S)
    BY <2>3, <1>3
  <2>5. ParentPaths(g, a) = Edgewise(g, WalksTo(FlattenSeq(from), a))
    BY DEF ParentPaths, from
  <2> QED
    BY <2>4, <2>5, EdgewiseType DEF S
<1>5. ASSUME NEW all \in Seq(S) PROVE SubSeq(all, 1, Min({3, Len(all)})) \in Seq(S)
  <2>1. Len(all) \in Nat
    BY <1>5
  <2>2. Min({3, Len(all)}) \in {3, Len(all)} /\ \A y \in {3, Len(all)} : Min({3, Len(all)}) <= y
    <3>1. \E x \in {3, Len(all)} : \A y \in {3, Len(all)} : x <= y
      BY <2>1
    <3> QED
      BY <3>1 DEF Min
  <2>3. Min({3, Len(all)}) \in 0..Len(all)
    BY <2>1, <2>2
  <2> QED
    BY <1>5, <2>3
<1> DEFINE walks == Walks(g, a, n)
           Firsts(b) == LET all == WalksTo(walks, b) IN SubSeq(all, 1, Min({3, Len(all)}))
           toGoals == [i \in DOMAIN g.nodes |-> IF i - 1 \in goals THEN Firsts(i - 1) ELSE <<>>]
<1>6. walks \in Seq(S)
  BY <1>1, WalksType
<1>7. \A b : Firsts(b) \in Seq(S)
  <2> HIDE DEF S, walks
  <2> QED
    BY <1>3, <1>5, <1>6
<1>8. toGoals \in Seq(Seq(S))
  <2> HIDE DEF Firsts, S
  <2>1. <<>> \in Seq(S)
    OBVIOUS
  <2> QED
    BY <1>1, <1>7, <2>1
<1>9. Edgewise(g, FlattenSeq(toGoals)) \in Seq(PathsIn(g, A))
  BY <1>8, FlattenType, EdgewiseType
<1>10. TraversalOptions(g, a, goals)
         = Edgewise(g, FlattenSeq(toGoals)) \o ChildPaths(g, a) \o ParentPaths(g, a)
  BY DEF TraversalOptions
<1> HIDE DEF toGoals
<1> QED
  BY <1>2, <1>4, <1>9, <1>10

(* Graphs that grow *)
\* What a graph is made of.
LEMMA FullGraphParts ==
    ASSUME NEW g \in FullGraph
    PROVE  /\ g \in GraphType
           /\ g.nodes \in Seq(NodeKinds \X Nat) /\ g.edges \in Seq(Nat \X Nat)
<1>1. g \in GraphType
  BY DEF FullGraph
<1> QED
  BY <1>1 DEF GraphType

\* How many nodes and edges it has.
LEMMA FullGraphLens ==
    ASSUME NEW g \in FullGraph
    PROVE  /\ Len(g.nodes) \in Nat /\ Len(g.nodes) >= 3 /\ Len(g.edges) \in Nat
           /\ Nodes(g) = 0..Len(g.nodes) - 1
           /\ DOMAIN g.nodes = 1..Len(g.nodes) /\ DOMAIN g.edges = 1..Len(g.edges)
<1>1. Len(g.nodes) >= 3
  BY DEF FullGraph
<1> QED
  BY <1>1, FullGraphParts DEF Nodes

\* The ends of an edge are nodes.
LEMMA FullGraphEnds ==
    ASSUME NEW g \in FullGraph, NEW e \in 1..Len(g.edges)
    PROVE  /\ g.edges[e] = <<g.edges[e][1], g.edges[e][2]>>
           /\ g.edges[e][1] \in 0..Len(g.nodes) - 1
           /\ g.edges[e][2] \in 0..Len(g.nodes) - 1
<1>1. g.edges[e] \in Nat \X Nat
  BY FullGraphParts
<1>2. g.edges[e][1] \in Nodes(g) /\ g.edges[e][2] \in Nodes(g)
  BY FullGraphLens DEF FullGraph
<1> QED
  BY <1>1, <1>2 DEF Nodes

\* Nodes and edges that make up a graph.
LEMMA FullGraphIs ==
    ASSUME NEW ns \in Seq(NodeKinds \X Nat), NEW es \in Seq(Nat \X Nat), Len(ns) >= 3,
           \A e \in 1..Len(es) : es[e][1] \in 0..Len(ns) - 1 /\ es[e][2] \in 0..Len(ns) - 1
    PROVE  [nodes |-> ns, edges |-> es] \in FullGraph
<1> DEFINE g == [nodes |-> ns, edges |-> es]
<1>1. g \in GraphType /\ g.nodes = ns /\ g.edges = es
  BY DEF GraphType
<1>2. DOMAIN es = 1..Len(es)
  OBVIOUS
<1> HIDE DEF g
<1>3. g \in FullGraph
  BY <1>1, <1>2 DEF FullGraph, Nodes
<1> QED
  BY <1>3 DEF g

\* The first graph is one.
LEMMA FirstGraphFull == FirstGraph \in FullGraph
<1> DEFINE ns == <<RootIntention, BuildGraph, BuildMemory>>
           es == << <<0, 1>>, <<1, 2>> >>
<1>1. ns \in Seq(NodeKinds \X Nat) /\ Len(ns) = 3
  <2>1. /\ RootIntention \in NodeKinds \X Nat
        /\ BuildGraph \in NodeKinds \X Nat
        /\ BuildMemory \in NodeKinds \X Nat
    BY DEF RootIntention, BuildGraph, BuildMemory, NodeKinds
  <2> QED
    BY <2>1
<1>2. es \in Seq(Nat \X Nat) /\ Len(es) = 2
  OBVIOUS
<1>3. es[1][1] = 0 /\ es[1][2] = 1 /\ es[2][1] = 1 /\ es[2][2] = 2
  OBVIOUS
<1> HIDE DEF ns, es
<1>4. \A e \in 1..Len(es) : es[e][1] \in 0..Len(ns) - 1 /\ es[e][2] \in 0..Len(ns) - 1
  <2>1. 0 \in 0..Len(ns) - 1 /\ 1 \in 0..Len(ns) - 1 /\ 2 \in 0..Len(ns) - 1
    BY <1>1
  <2> SUFFICES ASSUME NEW e \in 1..Len(es)
               PROVE  es[e][1] \in 0..Len(ns) - 1 /\ es[e][2] \in 0..Len(ns) - 1
    OBVIOUS
  <2>2. e = 1 \/ e = 2
    BY <1>2
  <2>3. CASE e = 1
    BY <1>3, <2>1, <2>3
  <2>4. CASE e = 2
    BY <1>3, <2>1, <2>4
  <2> QED
    BY <2>2, <2>3, <2>4
<1>5. [nodes |-> ns, edges |-> es] \in FullGraph
  <2>1. Len(ns) >= 3
    BY <1>1
  <2> QED
    BY <1>1, <1>2, <1>4, <2>1, FullGraphIs
<1> QED
  BY <1>5 DEF FirstGraph, ns, es

\* Keeping is reflexive ...
LEMMA KeepsItself ==
    ASSUME NEW g \in FullGraph PROVE Keeps(g, g)
BY FullGraphLens DEF Keeps

\* ... and transitive, ...
LEMMA KeepsOn ==
    ASSUME NEW f \in FullGraph, NEW g \in FullGraph, NEW h \in FullGraph,
           Keeps(h, g), Keeps(g, f)
    PROVE  Keeps(h, f)
<1>1. /\ Len(f.nodes) \in Nat /\ Len(f.edges) \in Nat
      /\ Len(g.nodes) \in Nat /\ Len(g.edges) \in Nat
      /\ Len(h.nodes) \in Nat /\ Len(h.edges) \in Nat
  BY FullGraphLens
<1> QED
  BY SMTT(30), <1>1 DEF Keeps

\* ... and what keeps a graph has its nodes, with the same contents, ...
LEMMA KeepsNodes ==
    ASSUME NEW g \in FullGraph, NEW h \in FullGraph, Keeps(h, g)
    PROVE  /\ Nodes(g) \subseteq Nodes(h)
           /\ \A i \in Nodes(g) : NodeAt(h, i) = NodeAt(g, i)
           /\ RowsOf(h) => RowsOf(g)
<1>1. /\ Len(g.nodes) \in Nat /\ Len(h.nodes) \in Nat
      /\ Nodes(g) = 0..Len(g.nodes) - 1 /\ Nodes(h) = 0..Len(h.nodes) - 1
  BY FullGraphLens
<1>2. Nodes(g) \subseteq Nodes(h)
  BY <1>1 DEF Keeps
<1>3. \A i \in Nodes(g) : NodeAt(h, i) = NodeAt(g, i)
  <2>1. \A i \in Nodes(g) : i + 1 \in 1..Len(g.nodes)
    BY <1>1
  <2> QED
    BY <2>1 DEF Keeps, NodeAt
<1>4. RowsOf(h) => RowsOf(g)
  BY <1>2, <1>3 DEF RowsOf
<1> QED
  BY <1>2, <1>3, <1>4

\* ... and its paths, ...
LEMMA KeepsPaths ==
    ASSUME NEW A, NEW g \in FullGraph, NEW h \in FullGraph, Keeps(h, g),
           NEW ps \in Seq(PathsIn(g, A))
    PROVE  ps \in Seq(PathsIn(h, A))
<1> DEFINE E == 1..Len(g.edges)
           F == 1..Len(h.edges)
<1>1. E \subseteq F /\ \A e \in E : h.edges[e] = g.edges[e]
  BY FullGraphLens DEF Keeps
<1>2. PathsIn(g, A) \subseteq PathsIn(h, A)
  <2> SUFFICES ASSUME NEW p \in PathsIn(g, A) PROVE p \in PathsIn(h, A)
    OBVIOUS
  <2>1. /\ p \in Seq(E) /\ Len(p) > 0 /\ g.edges[p[1]][1] \in A
        /\ \A i \in 1..Len(p) - 1 : g.edges[p[i]][2] = g.edges[p[i + 1]][1]
    BY DEF PathsIn
  <2> HIDE DEF E, F
  <2>2. p \in Seq(F)
    BY <1>1, <2>1, SeqMore
  <2>3. \A i \in 1..Len(p) : h.edges[p[i]] = g.edges[p[i]]
    BY <1>1, <2>1
  <2>4. 1 \in 1..Len(p) /\ \A i \in 1..Len(p) - 1 : i \in 1..Len(p) /\ i + 1 \in 1..Len(p)
    BY <2>1
  <2>5. h.edges[p[1]][1] \in A
    BY <2>1, <2>3, <2>4
  <2>6. \A i \in 1..Len(p) - 1 : h.edges[p[i]][2] = h.edges[p[i + 1]][1]
    BY <2>1, <2>3, <2>4
  <2> QED
    BY <2>1, <2>2, <2>5, <2>6 DEF PathsIn, F
<1> QED
  BY <1>2, SeqMore

\* ... and extends its lists.
LEMMA KeepsPrefix ==
    ASSUME NEW g \in FullGraph, NEW h \in FullGraph, Keeps(h, g)
    PROVE  IsPrefix(g.nodes, h.nodes) /\ IsPrefix(g.edges, h.edges)
<1>1. ASSUME NEW S, NEW s \in Seq(S), NEW t \in Seq(S),
             Len(s) <= Len(t), \A i \in 1..Len(s) : t[i] = s[i]
      PROVE  IsPrefix(s, t)
  BY <1>1 DEF IsPrefix
<1>2. IsPrefix(g.nodes, h.nodes)
  BY <1>1, FullGraphParts DEF Keeps
<1>3. IsPrefix(g.edges, h.edges)
  BY <1>1, FullGraphParts DEF Keeps
<1> QED
  BY <1>2, <1>3

\* What adding an edge to a sequence of edges does to their ends.
LEMMA EndsOn ==
    ASSUME NEW g \in FullGraph, NEW n \in Nat, Len(g.nodes) <= n,
           NEW edge \in (0..n - 1) \X (0..n - 1)
    PROVE  /\ Append(g.edges, edge) \in Seq(Nat \X Nat)
           /\ Len(Append(g.edges, edge)) = Len(g.edges) + 1
           /\ Append(g.edges, edge)[Len(g.edges) + 1] = edge
           /\ \A e \in 1..Len(g.edges) : Append(g.edges, edge)[e] = g.edges[e]
           /\ \A e \in 1..Len(Append(g.edges, edge)) :
                  /\ Append(g.edges, edge)[e][1] \in 0..n - 1
                  /\ Append(g.edges, edge)[e][2] \in 0..n - 1
<1> DEFINE es == Append(g.edges, edge)
           m == Len(g.edges)
<1>1. edge \in Nat \X Nat
  OBVIOUS
<1>2. /\ m \in Nat /\ es \in Seq(Nat \X Nat) /\ Len(es) = m + 1 /\ es[m + 1] = edge
      /\ \A i \in 1..m : es[i] = g.edges[i]
  BY <1>1, FullGraphParts, AppendIs
<1> HIDE DEF es
<1>3. \A e \in 1..m : g.edges[e][1] \in 0..n - 1 /\ g.edges[e][2] \in 0..n - 1
  <2> SUFFICES ASSUME NEW e \in 1..m PROVE g.edges[e][1] \in 0..n - 1 /\ g.edges[e][2] \in 0..n - 1
    OBVIOUS
  <2>1. /\ g.edges[e][1] \in 0..Len(g.nodes) - 1
        /\ g.edges[e][2] \in 0..Len(g.nodes) - 1
    BY FullGraphEnds
  <2>2. Len(g.nodes) \in Nat
    BY FullGraphLens
  <2> QED
    BY <2>1, <2>2
<1>4. es[m + 1][1] \in 0..n - 1 /\ es[m + 1][2] \in 0..n - 1
  BY <1>2
<1>5. \A e \in 1..m + 1 : e \in 1..m \/ e = m + 1
  BY SMTT(30), <1>2
<1>6. \A e \in 1..Len(es) : es[e][1] \in 0..n - 1 /\ es[e][2] \in 0..n - 1
  BY <1>2, <1>3, <1>4, <1>5
<1> QED
  BY <1>2, <1>6 DEF es

\* A new edge between two nodes.
LEMMA AddEdgeKeeps ==
    ASSUME NEW g \in FullGraph, NEW a \in Nodes(g), NEW b \in Nodes(g)
    PROVE  /\ AddEdge(g, a, b) \in FullGraph
           /\ Keeps(AddEdge(g, a, b), g)
           /\ AddEdge(g, a, b).nodes = g.nodes
<1> DEFINE n == Len(g.nodes)
           m == Len(g.edges)
           edge == <<a, b>>
           es == Append(g.edges, edge)
<1>1. n \in Nat /\ n >= 3 /\ m \in Nat /\ a \in 0..n - 1 /\ b \in 0..n - 1
  BY FullGraphLens
<1>2. /\ es \in Seq(Nat \X Nat) /\ Len(es) = m + 1
      /\ \A e \in 1..m : es[e] = g.edges[e]
      /\ \A e \in 1..Len(es) : es[e][1] \in 0..n - 1 /\ es[e][2] \in 0..n - 1
  <2>1. n <= n /\ edge \in (0..n - 1) \X (0..n - 1)
    BY <1>1
  <2> HIDE DEF edge, n
  <2> QED
    BY SMTT(30), <1>1, <2>1, EndsOn DEF n
<1>3. AddEdge(g, a, b) = [nodes |-> g.nodes, edges |-> es]
  <2>1. g \in [nodes : Seq(NodeKinds \X Nat), edges : Seq(Nat \X Nat)]
    BY FullGraphParts DEF GraphType
  <2>2. AddEdge(g, a, b) = [g EXCEPT !.edges = es]
    BY DEF AddEdge
  <2> QED
    BY <2>1, <2>2, EdgesSet
<1> HIDE DEF es
<1>4. [nodes |-> g.nodes, edges |-> es] \in FullGraph
  BY <1>1, <1>2, FullGraphParts, FullGraphIs
<1> DEFINE h == [nodes |-> g.nodes, edges |-> es]
<1>5. h.nodes = g.nodes /\ h.edges = es
  OBVIOUS
<1> HIDE DEF h
<1>6. Keeps(h, g)
  BY <1>1, <1>2, <1>5 DEF Keeps
<1> QED
  BY <1>3, <1>4, <1>5, <1>6 DEF h

\* A new node and an edge to it.
LEMMA AddBoth ==
    ASSUME NEW g \in FullGraph, NEW a \in Nodes(g), NEW node \in NodeKinds \X Nat
    PROVE  LET h == AddEdge(AddNode(g, node), a, Len(g.nodes))
           IN  /\ h \in FullGraph
               /\ Keeps(h, g)
               /\ Len(h.nodes) = Len(g.nodes) + 1 /\ h.nodes[Len(g.nodes) + 1] = node
               /\ Len(h.edges) = Len(g.edges) + 1
               /\ h.edges[Len(g.edges) + 1] = <<a, Len(g.nodes)>>
<1> DEFINE n == Len(g.nodes)
           m == Len(g.edges)
           ns == Append(g.nodes, node)
           edge == <<a, n>>
           es == Append(g.edges, edge)
           h == [nodes |-> ns, edges |-> es]
<1>1. n \in Nat /\ n >= 3 /\ m \in Nat /\ a \in 0..n - 1
  BY FullGraphLens
<1>2. /\ es \in Seq(Nat \X Nat) /\ Len(es) = m + 1 /\ es[m + 1] = edge
      /\ \A e \in 1..m : es[e] = g.edges[e]
      /\ \A e \in 1..Len(es) : es[e][1] \in 0..(n + 1) - 1 /\ es[e][2] \in 0..(n + 1) - 1
  <2> DEFINE k == n + 1
  <2>1. k \in Nat /\ Len(g.nodes) <= k /\ edge \in (0..k - 1) \X (0..k - 1)
    BY <1>1
  <2> HIDE DEF edge, k
  <2>2. /\ es \in Seq(Nat \X Nat) /\ Len(es) = m + 1 /\ es[m + 1] = edge
        /\ \A e \in 1..m : es[e] = g.edges[e]
        /\ \A e \in 1..Len(es) : es[e][1] \in 0..k - 1 /\ es[e][2] \in 0..k - 1
    BY <2>1, EndsOn
  <2> QED
    BY <2>2 DEF k
<1>3. /\ ns \in Seq(NodeKinds \X Nat) /\ Len(ns) = n + 1 /\ ns[n + 1] = node
      /\ \A i \in 1..n : ns[i] = g.nodes[i]
  BY FullGraphParts, AppendIs
<1>4. AddEdge(AddNode(g, node), a, n) = h
  <2>1. g \in [nodes : Seq(NodeKinds \X Nat), edges : Seq(Nat \X Nat)]
    BY FullGraphParts DEF GraphType
  <2>2. AddNode(g, node) = [g EXCEPT !.nodes = ns]
    BY DEF AddNode
  <2> DEFINE k == [nodes |-> ns, edges |-> g.edges]
  <2>3. AddNode(g, node) = k
    BY <2>1, <2>2, NodesSet
  <2>4. AddEdge(k, a, n) = [k EXCEPT !.edges = es]
    BY DEF AddEdge
  <2> HIDE DEF es, ns
  <2>5. [k EXCEPT !.edges = es] = h
    OBVIOUS
  <2> HIDE DEF k, h
  <2> QED
    BY <2>3, <2>4, <2>5
<1> HIDE DEF es, ns
<1>5. h \in FullGraph
  <2>1. Len(ns) >= 3
    BY <1>1, <1>3
  <2> QED
    BY <2>1, <1>2, <1>3, FullGraphIs
<1>6. h.nodes = ns /\ h.edges = es
  OBVIOUS
<1> HIDE DEF h
<1>7. Keeps(h, g)
  <2>1. n <= n + 1 /\ m <= m + 1
    BY <1>1
  <2>2. n <= Len(h.nodes) /\ \A i \in 1..n : h.nodes[i] = g.nodes[i]
    BY <1>3, <1>6, <2>1
  <2>3. m <= Len(h.edges) /\ \A i \in 1..m : h.edges[i] = g.edges[i]
    BY <1>2, <1>6, <2>1
  <2> QED
    BY <2>2, <2>3 DEF Keeps
<1> QED
  BY <1>2, <1>3, <1>4, <1>5, <1>6, <1>7

\* To remove the last edge and the last node, to which no other edge leads, is
\* to move nothing.
LEMMA WithoutLast ==
    ASSUME NEW g \in FullGraph, Len(g.nodes) > 3, Len(g.edges) > 0,
           g.edges[Len(g.edges)][2] = Len(g.nodes) - 1,
           \A e \in 1..Len(g.edges) - 1 :
               g.edges[e][1] < Len(g.nodes) - 1 /\ g.edges[e][2] < Len(g.nodes) - 1
    PROVE  LET h == Without(g, Len(g.edges))
           IN  /\ h \in FullGraph
               /\ Keeps(g, h)
               /\ Len(h.nodes) = Len(g.nodes) - 1
               /\ Len(h.edges) = Len(g.edges) - 1
<1> DEFINE n == Len(g.nodes)
           m == Len(g.edges)
           ns == SubSeq(g.nodes, 1, n - 1)
           es == SubSeq(g.edges, 1, m - 1)
<1>1. n \in Nat /\ m \in Nat /\ n > 3 /\ m > 0 /\ m \in DOMAIN g.edges
  BY FullGraphLens
<1>2. /\ es \in Seq(Nat \X Nat) /\ Len(es) = m - 1 /\ \A i \in 1..m - 1 : es[i] = g.edges[i]
      /\ es = [i \in 1..m - 1 |-> g.edges[i]]
  BY <1>1, FullGraphParts, FrontIs
<1>3. /\ ns \in Seq(NodeKinds \X Nat) /\ Len(ns) = n - 1 /\ \A i \in 1..n - 1 : ns[i] = g.nodes[i]
      /\ ns = [i \in 1..n - 1 |-> g.nodes[i]]
  BY SMTT(30), <1>1, FullGraphParts, FrontIs
<1> HIDE DEF ns, es
<1>4. SwapRemoved(g.edges, m) = es
  <2>1. \A j \in 1..m - 1 : j # m
    BY <1>1
  <2> QED
    BY <1>2, <2>1 DEF SwapRemoved
<1>5. SwapRemoved(g.nodes, n) = ns
  <2>1. \A j \in 1..n - 1 : j # n
    BY <1>1
  <2> QED
    BY <1>3, <2>1 DEF SwapRemoved
<1>6. RemoveEdge(g, m) = [nodes |-> g.nodes, edges |-> es]
  <2>1. g \in [nodes : Seq(NodeKinds \X Nat), edges : Seq(Nat \X Nat)]
    BY FullGraphParts DEF GraphType
  <2> QED
    BY <1>4, <2>1, EdgesSet DEF RemoveEdge
<1>7. ASSUME NEW i \in 1..m - 1
      PROVE  /\ es[i] = <<es[i][1], es[i][2]>>
             /\ es[i][1] \in 0..n - 2 /\ es[i][2] \in 0..n - 2
  <2>1. i \in 1..m
    BY <1>1
  <2>2. /\ g.edges[i] = <<g.edges[i][1], g.edges[i][2]>>
        /\ g.edges[i][1] \in 0..n - 1 /\ g.edges[i][2] \in 0..n - 1
    BY <2>1, FullGraphEnds
  <2>3. g.edges[i][1] < n - 1 /\ g.edges[i][2] < n - 1
    OBVIOUS
  <2>4. es[i] = g.edges[i]
    BY <1>2
  <2> QED
    BY SMTT(30), <1>1, <2>2, <2>3, <2>4
<1> DEFINE r == [nodes |-> g.nodes, edges |-> es]
           K == { i \in DOMAIN r.edges : n - 1 \notin {r.edges[i][1], r.edges[i][2]} }
           Moved(i) == IF i = n - 1 THEN n - 1 ELSE i
           rest == Kept(r.edges, K)
<1>8. r.nodes = g.nodes /\ r.edges = es
  OBVIOUS
<1>9. K = DOMAIN es
  <2>1. DOMAIN es = 1..m - 1
    BY <1>2
  <2>2. \A i \in 1..m - 1 : n - 1 \notin {es[i][1], es[i][2]}
    BY <1>1, <1>7
  <2> QED
    BY <1>8, <2>1, <2>2
<1> HIDE DEF K
<1>10. rest = es
  BY <1>2, <1>8, <1>9, KeptAll
<1>11. RemoveNode(r, n - 1) = [nodes |-> SwapRemoved(g.nodes, (n - 1) + 1),
                               edges |-> [i \in 1..Len(rest) |-> <<Moved(rest[i][1]), Moved(rest[i][2])>>]]
  BY <1>8 DEF RemoveNode, K
<1>12. [i \in 1..Len(rest) |-> <<Moved(rest[i][1]), Moved(rest[i][2])>>] = es
  <2>1. \A i \in 1..m - 1 : <<Moved(es[i][1]), Moved(es[i][2])>> = es[i]
    BY <1>7
  <2>2. [i \in 1..Len(rest) |-> <<Moved(rest[i][1]), Moved(rest[i][2])>>] = [i \in 1..m - 1 |-> es[i]]
    <3>1. Len(rest) = m - 1 /\ \A i \in 1..m - 1 : rest[i] = es[i]
      BY <1>2, <1>10
    <3> HIDE DEF rest, Moved
    <3>2. \A i \in 1..m - 1 : <<Moved(rest[i][1]), Moved(rest[i][2])>> = es[i]
      BY <2>1, <3>1
    <3> QED
      BY <3>1, <3>2
  <2>3. [i \in 1..m - 1 |-> es[i]] = es
    BY <1>2
  <2> QED
    BY <2>2, <2>3
<1>13. Without(g, m) = [nodes |-> ns, edges |-> es]
  <2>1. Without(g, m) = RemoveNode(r, n - 1)
    BY <1>1, <1>6 DEF Without
  <2>2. (n - 1) + 1 = n
    BY <1>1
  <2>3. SwapRemoved(g.nodes, (n - 1) + 1) = ns
    BY <1>5, <2>2
  <2> HIDE DEF rest, Moved
  <2> QED
    BY <1>11, <1>12, <2>1, <2>3
<1>14. [nodes |-> ns, edges |-> es] \in FullGraph
  <2>1. Len(ns) >= 3
    BY <1>1, <1>3
  <2>2. \A e \in 1..Len(es) : es[e][1] \in 0..Len(ns) - 1 /\ es[e][2] \in 0..Len(ns) - 1
    <3>1. Len(ns) - 1 = n - 2 /\ Len(es) = m - 1
      BY <1>1, <1>2, <1>3
    <3> QED
      BY <1>7, <3>1
  <2> QED
    BY <1>2, <1>3, <2>1, <2>2, FullGraphIs
<1>15. Keeps(g, [nodes |-> ns, edges |-> es])
  BY <1>1, <1>2, <1>3 DEF Keeps
<1> QED
  BY <1>2, <1>3, <1>13, <1>14, <1>15

(* What lies below a node *)
\* Edges are pairs of numbers.
LEMMA EdgeOf ==
    ASSUME NEW g \in GraphType
    PROVE  /\ Len(g.nodes) \in Nat
           /\ \A e \in ToSet(g.edges) : e \in Nat \X Nat /\ e[2] \in Nat
<1>1. g.edges \in Seq(Nat \X Nat) /\ g.nodes \in Seq(NodeKinds \X Nat)
  BY DEF GraphType
<1> QED
  BY <1>1 DEF ToSet

\* The recursion that Below is defined by, unfolded.
LEMMA BelowSteps ==
    ASSUME NEW g \in GraphType, NEW a \in Nat
    PROVE  \E f : /\ f \in [0..Len(g.nodes) -> SUBSET Nat]
                  /\ f[0] = {a}
                  /\ \A n \in 0..Len(g.nodes) - 1 : f[n + 1] = Onward(g, f[n])
                  /\ Below(g, a) = f[Len(g.nodes)]
<1> DEFINE k == Len(g.nodes)
           T == SUBSET Nat
           d == [t \in T |-> Onward(g, t)]
           Is(f) == f = [n \in 0..k |-> IF n = 0 THEN {a} ELSE Onward(g, f[n - 1])]
<1>1. k \in Nat
  BY EdgeOf
<1>2. {a} \in T
  OBVIOUS
<1>3. \A t \in T : Onward(g, t) \in T
  BY EdgeOf DEF Onward
<1>4. PICK h : h \in [Nat -> T] /\ h[0] = {a} /\ \A i \in Nat : h[i + 1] = Onward(g, h[i])
  <2> HIDE DEF T
  <2>1. d \in [T -> T]
    BY <1>3
  <2> DEFINE e == {a}
  <2> HIDE DEF d, e
  <2>2. e \in T
    BY <1>2 DEF e
  <2>3. PICK h : h \in [Nat -> T] /\ h[0] = e /\ \A i \in Nat : h[i + 1] = d[h[i]]
    BY <2>1, <2>2, Iterated
  <2> QED
    BY <2>3 DEF d, e
<1> DEFINE f0 == [n \in 0..k |-> h[n]]
<1>5. Is(f0)
  <2>1. ASSUME NEW n \in 0..k, n # 0 PROVE f0[n] = Onward(g, f0[n - 1])
    <3> DEFINE j == n - 1
    <3>1. j \in Nat /\ j + 1 = n /\ j \in 0..k
      BY <1>1, <2>1
    <3>2. f0[n] = h[n] /\ f0[n - 1] = h[j]
      BY <3>1
    <3> HIDE DEF j, f0
    <3>3. h[j + 1] = Onward(g, h[j])
      BY <1>4, <3>1
    <3> QED
      BY <3>1, <3>2, <3>3
  <2>2. f0[0] = {a}
    BY <1>1, <1>4
  <2> QED
    BY <2>1, <2>2
<1> DEFINE f == CHOOSE f : Is(f)
<1>6. Is(f)
  <2> HIDE DEF f0, Is
  <2> QED
    BY <1>5
<1>7. Below(g, a) = f[k]
  BY DEF Below
<1> HIDE DEF f
<1>8. f[0] = {a} /\ \A n \in 1..k : f[n] = Onward(g, f[n - 1])
  <2> DEFINE e == {a}
  <2>1. f = [n \in 0..k |-> IF n = 0 THEN e ELSE Onward(g, f[n - 1])]
    BY <1>6
  <2> HIDE DEF e
  <2>2. f[0] = e /\ \A n \in 1..k : f[n] = Onward(g, f[n - 1])
    BY <1>1, <2>1
  <2> QED
    BY <2>2 DEF e
<1>9. \A n \in 0..k - 1 : f[n + 1] = Onward(g, f[n])
  <2> SUFFICES ASSUME NEW n \in 0..k - 1 PROVE f[n + 1] = Onward(g, f[n])
    OBVIOUS
  <2>1. n + 1 \in 1..k /\ (n + 1) - 1 = n
    BY <1>1
  <2> QED
    BY <1>8, <2>1
<1> DEFINE P == { n \in Nat : n <= k => f[n] \in T }
<1>10. 0 \in P
  BY <1>2, <1>8
<1>11. ASSUME NEW n \in Nat, n \in P PROVE n + 1 \in P
  <2> SUFFICES ASSUME n + 1 <= k PROVE f[n + 1] \in T
    OBVIOUS
  <2>1. f[n] \in T /\ n \in 0..k - 1
    BY <1>1, <1>11
  <2> HIDE DEF T
  <2> QED
    BY <2>1, <1>3, <1>9
<1>12. Nat \subseteq P
  <2> HIDE DEF P
  <2> QED
    BY <1>10, <1>11, Numbers
<1>13. \A n \in 0..k : f[n] \in T
  BY <1>1, <1>12
<1>14. f \in [0..k -> T]
  BY <1>6, <1>13
<1> QED
  BY <1>7, <1>8, <1>9, <1>14

\* A node is below itself.
LEMMA BelowSelf ==
    ASSUME NEW g \in GraphType, NEW a \in Nat
    PROVE  a \in Below(g, a)
<1> DEFINE k == Len(g.nodes)
<1>1. k \in Nat
  BY EdgeOf
<1>2. PICK f : /\ f[0] = {a}
               /\ \A n \in 0..k - 1 : f[n + 1] = Onward(g, f[n])
               /\ Below(g, a) = f[k]
  BY BelowSteps
<1> DEFINE P == { n \in Nat : n <= k => a \in f[n] }
<1>3. 0 \in P
  BY <1>2
<1>4. ASSUME NEW n \in Nat, n \in P PROVE n + 1 \in P
  <2> SUFFICES ASSUME n + 1 <= k PROVE a \in f[n + 1]
    OBVIOUS
  <2>1. a \in f[n] /\ n \in 0..k - 1
    BY <1>1, <1>4
  <2> QED
    BY <1>2, <2>1 DEF Onward
<1>5. Nat \subseteq P
  <2> HIDE DEF P
  <2> QED
    BY <1>3, <1>4, Numbers
<1> QED
  BY <1>1, <1>2, <1>5

\* A node that a new node can be added below is there already.
LEMMA NewEdgeFrom ==
    ASSUME NEW g \in FullGraph, NEW node \in NodeKinds \X Nat, NEW a \in Nat,
           CanAddEdge(AddNode(g, node), a, Len(g.nodes))
    PROVE  a \in Nodes(g)
<1> DEFINE n == Len(g.nodes)
           h == AddNode(g, node)
<1>1. n \in Nat /\ Nodes(g) = 0..n - 1
  BY FullGraphLens
<1>2. h = [nodes |-> Append(g.nodes, node), edges |-> g.edges]
  <2>1. g \in [nodes : Seq(NodeKinds \X Nat), edges : Seq(Nat \X Nat)]
    BY FullGraphParts DEF GraphType
  <2>2. h = [g EXCEPT !.nodes = Append(g.nodes, node)]
    BY DEF AddNode
  <2> QED
    BY <2>1, <2>2, NodesSet
<1>3. Append(g.nodes, node) \in Seq(NodeKinds \X Nat) /\ Len(Append(g.nodes, node)) = n + 1
  BY FullGraphParts, AppendIs
<1>4. h \in GraphType /\ Nodes(h) = 0..n
  <2> DEFINE ns == Append(g.nodes, node)
  <2> HIDE DEF ns, h
  <2>1. h.nodes = ns /\ h.edges = g.edges
    BY <1>2 DEF ns
  <2>2. h \in GraphType
    BY <1>2, <1>3, FullGraphParts DEF GraphType, ns
  <2>3. Len(h.nodes) - 1 = n
    BY <1>1, <1>3, <2>1 DEF ns
  <2> QED
    BY <2>2, <2>3 DEF Nodes
<1> HIDE DEF h
<1>5. a \in Nodes(h) /\ a \notin Below(h, n)
  BY DEF CanAddEdge, h
<1>6. n \in Below(h, n)
  BY <1>1, <1>4, BelowSelf
<1> QED
  BY <1>1, <1>4, <1>5, <1>6

\* What the lists of paths are made of.
LEMMA ListsType ==
    ASSUME NEW A, Nat \ {0} \subseteq A, NEW g \in FullGraph, NEW a \in Int, a \in A, NEW goals
    PROVE  /\ TraversalOptions(g, a, goals) \in Seq(PathsIn(g, A))
           /\ ChildPaths(g, a) \in Seq(PathsIn(g, A))
           /\ ParentPaths(g, a) \in Seq(PathsIn(g, A))
<1>1. g \in GraphType /\ Len(g.nodes) >= 3
  BY FullGraphParts, FullGraphLens
<1> QED
  BY <1>1, OptionsType

\* Paths are lists of numbers.
LEMMA ListsAre ==
    ASSUME NEW A, NEW g \in FullGraph, NEW ps \in Seq(PathsIn(g, A))
    PROVE  ps \in Seq(Seq(Nat))
<1>1. PathsIn(g, A) \subseteq Seq(Nat)
  <2> SUFFICES ASSUME NEW p \in PathsIn(g, A) PROVE p \in Seq(Nat)
    OBVIOUS
  <2> DEFINE E == 1..Len(g.edges)
  <2>1. p \in Seq(E)
    BY DEF PathsIn
  <2>2. E \subseteq Nat
    BY FullGraphLens
  <2> HIDE DEF E
  <2> QED
    BY <2>1, <2>2, SeqMore
<1> QED
  BY <1>1, SeqMore

(* A path that is made and undone *)
\* A graph has the empty path more than itself.
LEMMA HasNothing ==
    ASSUME NEW g \in FullGraph PROVE KeepsAndHas(g, g, <<>>)
<1>1. Keeps(g, g) /\ Len(g.nodes) \in Nat /\ Len(g.edges) \in Nat
  BY KeepsItself, FullGraphLens
<1>2. Len(<<>>) = 0
  OBVIOUS
<1> QED
  BY <1>1, <1>2 DEF KeepsAndHas

\* Graphs with the same nodes and edges are the same.
LEMMA SameRecord ==
    ASSUME NEW A, NEW B, NEW g \in [nodes : A, edges : B], NEW h \in [nodes : A, edges : B],
           h.nodes = g.nodes, h.edges = g.edges
    PROVE  h = g
OBVIOUS

\* What has the empty path more is the graph itself.
LEMMA NothingMore ==
    ASSUME NEW g \in FullGraph, NEW h \in FullGraph, KeepsAndHas(h, g, <<>>)
    PROVE  h = g
<1>1. /\ Len(g.nodes) \in Nat /\ Len(g.edges) \in Nat
      /\ Len(h.nodes) \in Nat /\ Len(h.edges) \in Nat
  BY FullGraphLens
<1>2. Len(<<>>) = 0
  OBVIOUS
<1>3. /\ Len(h.nodes) = Len(g.nodes) /\ \A i \in 1..Len(g.nodes) : h.nodes[i] = g.nodes[i]
      /\ Len(h.edges) = Len(g.edges) /\ \A i \in 1..Len(g.edges) : h.edges[i] = g.edges[i]
  BY <1>1, <1>2 DEF KeepsAndHas, Keeps
<1>4. ASSUME NEW S, NEW s \in Seq(S), NEW t \in Seq(S), Len(s) = Len(t),
             \A i \in 1..Len(s) : t[i] = s[i]
      PROVE  t = s
  BY <1>4
<1>5. h.nodes = g.nodes /\ h.edges = g.edges
  BY <1>3, <1>4, FullGraphParts
<1>6. g \in [nodes : Seq(NodeKinds \X Nat), edges : Seq(Nat \X Nat)]
      /\ h \in [nodes : Seq(NodeKinds \X Nat), edges : Seq(Nat \X Nat)]
  BY FullGraphParts DEF GraphType
<1> QED
  BY <1>5, <1>6, SameRecord

\* A path that grows by a node and the edge to it.
LEMMA PathGrows ==
    ASSUME NEW f \in FullGraph, NEW g \in FullGraph, NEW path \in Seq(Nat),
           KeepsAndHas(g, f, path), NEW a \in Nodes(g), NEW node \in NodeKinds \X Nat,
           NEW h \in FullGraph, Keeps(h, g),
           Len(h.nodes) = Len(g.nodes) + 1, Len(h.edges) = Len(g.edges) + 1,
           h.edges[Len(g.edges) + 1] = <<a, Len(g.nodes)>>
    PROVE  KeepsAndHas(h, f, Append(path, Len(g.edges) + 1))
<1> DEFINE n == Len(g.nodes)
           m == Len(g.edges)
           p == Len(f.nodes)
           q == Len(f.edges)
           k == Len(path)
           more == Append(path, m + 1)
<1>1. /\ n \in Nat /\ m \in Nat /\ k \in Nat /\ p \in Nat /\ q \in Nat
      /\ a \in 0..n - 1
  BY FullGraphLens
<1>2. Keeps(g, f) /\ n = p + k /\ m = q + k
  BY DEF KeepsAndHas
<1>12. \A i \in 1..k : /\ path[i] = q + i
                         /\ g.edges[path[i]][2] = p + i - 1
                         /\ g.edges[path[i]][1] < p + i - 1
  BY DEF KeepsAndHas
<1>3. Len(more) = k + 1 /\ more[k + 1] = m + 1 /\ \A i \in 1..k : more[i] = path[i]
  BY <1>1, AppendIs
<1>13. /\ Len(h.nodes) = n + 1 /\ Len(h.edges) = m + 1
       /\ h.edges[m + 1] = <<a, n>>
  OBVIOUS
<1> HIDE DEF more, k
<1>4. Keeps(h, f)
  BY <1>2, KeepsOn
<1>5. \A i \in 1..m : h.edges[i] = g.edges[i]
  BY DEF Keeps
<1> HIDE DEF n, m, p, q
<1>6. ASSUME NEW i \in 1..k
      PROVE  /\ more[i] = q + i
             /\ h.edges[more[i]][2] = p + i - 1
             /\ h.edges[more[i]][1] < p + i - 1
  <2>1. /\ path[i] = q + i
        /\ g.edges[path[i]][2] = p + i - 1
        /\ g.edges[path[i]][1] < p + i - 1
    BY <1>12
  <2>2. more[i] = path[i] /\ path[i] \in 1..m
    BY <1>1, <1>2, <1>3, <2>1
  <2>3. h.edges[path[i]] = g.edges[path[i]]
    BY <1>5, <2>2
  <2> QED
    BY <2>1, <2>2, <2>3
<1>7. /\ more[k + 1] = q + (k + 1)
      /\ h.edges[more[k + 1]][2] = p + (k + 1) - 1
      /\ h.edges[more[k + 1]][1] < p + (k + 1) - 1
  <2>1. more[k + 1] = q + (k + 1)
    BY <1>1, <1>2, <1>3
  <2>2. h.edges[more[k + 1]] = <<a, n>>
    BY <1>3, <1>13
  <2>3. n = p + (k + 1) - 1 /\ a < n
    BY <1>1, <1>2
  <2> QED
    BY <2>1, <2>2, <2>3
<1>8. \A i \in 1..k + 1 : i \in 1..k \/ i = k + 1
  BY <1>1
<1>9. \A i \in 1..k + 1 : /\ more[i] = q + i
                          /\ h.edges[more[i]][2] = p + i - 1
                          /\ h.edges[more[i]][1] < p + i - 1
  BY <1>6, <1>7, <1>8
<1>10. Len(h.nodes) = p + (k + 1) /\ Len(h.edges) = q + (k + 1)
  <2>1. n + 1 = p + (k + 1) /\ m + 1 = q + (k + 1)
    BY <1>1, <1>2
  <2> QED
    BY <1>13, <2>1
<1>11. KeepsAndHas(h, f, more)
  BY <1>3, <1>4, <1>9, <1>10 DEF KeepsAndHas, p, q
<1> QED
  BY <1>11 DEF more, m

\* A path that is undone from its end.
LEMMA PathShrinks ==
    ASSUME NEW f \in FullGraph, NEW g \in FullGraph, NEW path \in Seq(Nat), path # <<>>,
           KeepsAndHas(g, f, path)
    PROVE  LET h == Without(g, Last(path))
           IN  /\ Last(path) = Len(g.edges) /\ Len(g.edges) > 0
               /\ g.edges[Last(path)][2] = Len(g.nodes) - 1
               /\ h \in FullGraph /\ Keeps(g, h) /\ Keeps(h, f)
               /\ Len(h.nodes) = Len(g.nodes) - 1
               /\ Len(h.edges) = Len(g.edges) - 1
               /\ \A e \in 1..Len(g.edges) - 1 : /\ g.edges[e][1] < Len(g.nodes) - 1
                                                 /\ g.edges[e][2] < Len(g.nodes) - 1
               /\ Front(path) \in Seq(Nat)
               /\ KeepsAndHas(h, f, Front(path))
<1> DEFINE n == Len(g.nodes)
           m == Len(g.edges)
           p == Len(f.nodes)
           q == Len(f.edges)
           k == Len(path)
           h == Without(g, m)
           less == Front(path)
<1>1. /\ n \in Nat /\ m \in Nat /\ k \in Nat /\ k > 0
      /\ p \in Nat /\ q \in Nat /\ p >= 3
  BY FullGraphLens
<1>2. Keeps(g, f) /\ n = p + k /\ m = q + k
  BY DEF KeepsAndHas
<1>12. \A i \in 1..k : /\ path[i] = q + i
                         /\ g.edges[path[i]][2] = p + i - 1
                         /\ g.edges[path[i]][1] < p + i - 1
  BY DEF KeepsAndHas
<1>3. k \in 1..k
  BY <1>1
<1>13. /\ \A e \in 1..m : /\ g.edges[e][1] \in 0..n - 1
                         /\ g.edges[e][2] \in 0..n - 1
       /\ \A e \in 1..q : /\ g.edges[e] = f.edges[e]
                         /\ f.edges[e][1] \in 0..p - 1 /\ f.edges[e][2] \in 0..p - 1
       /\ Last(path) = path[k]
  BY <1>2, FullGraphEnds DEF Keeps, Last
<1> HIDE DEF n, m, p, q, k
<1>4. Last(path) = m /\ g.edges[m][2] = n - 1
  <2>1. path[k] = q + k /\ g.edges[path[k]][2] = p + k - 1
    BY <1>12, <1>3
  <2> QED
    BY <1>1, <1>2, <1>13, <2>1
<1>5. ASSUME NEW e \in 1..m - 1
      PROVE  g.edges[e][1] < n - 1 /\ g.edges[e][2] < n - 1
  <2> DEFINE x == g.edges[e][1]
             y == g.edges[e][2]
  <2>1. CASE e <= q
    <3>1. e \in 1..q
      BY <1>1, <2>1
    <3>2. x \in 0..p - 1 /\ y \in 0..p - 1
      BY <1>13, <3>1
    <3> HIDE DEF x, y
    <3>3. x < n - 1 /\ y < n - 1
      BY <1>1, <1>2, <3>2
    <3> QED
      BY <3>3 DEF x, y
  <2>2. CASE ~(e <= q)
    <3> DEFINE i == e - q
    <3>1. i \in 1..k /\ e = q + i /\ i < k
      BY <1>1, <1>2, <2>2
    <3> HIDE DEF i
    <3>2. path[i] = e /\ y = p + i - 1 /\ x < p + i - 1
      BY <1>12, <3>1
    <3>3. e \in 1..m
      BY <1>1
    <3>4. x \in 0..n - 1 /\ y \in 0..n - 1
      BY <1>13, <3>3
    <3> HIDE DEF x, y
    <3>5. x < n - 1 /\ y < n - 1
      BY <1>1, <1>2, <3>1, <3>2, <3>4
    <3> QED
      BY <3>5 DEF x, y
  <2> QED
    BY <2>1, <2>2
<1>6. /\ h \in FullGraph /\ Keeps(g, h)
      /\ Len(h.nodes) = n - 1 /\ Len(h.edges) = m - 1
  <2>1. n > 3 /\ m > 0
    BY <1>1, <1>2
  <2> QED
    BY <1>4, <1>5, <2>1, WithoutLast DEF n, m
<1> HIDE DEF h
<1>7. /\ less \in Seq(Nat) /\ Len(less) = k - 1 /\ \A i \in 1..k - 1 : less[i] = path[i]
  <2>1. less = SubSeq(path, 1, k - 1)
    BY DEF Front, k
  <2> QED
    BY <1>1, <2>1, FrontIs DEF k
<1> HIDE DEF less
<1>15. /\ \A i \in 1..n - 1 : g.nodes[i] = h.nodes[i]
       /\ \A i \in 1..m - 1 : g.edges[i] = h.edges[i]
  BY <1>6 DEF Keeps
<1>16. /\ \A i \in 1..p : g.nodes[i] = f.nodes[i]
       /\ \A i \in 1..q : g.edges[i] = f.edges[i]
  BY <1>2 DEF Keeps, p, q
<1>8. Keeps(h, f)
  <2>1. p <= n - 1 /\ q <= m - 1
    BY <1>1, <1>2
  <2>2. \A i \in 1..p : i \in 1..n - 1
    BY <1>1, <2>1
  <2>3. \A i \in 1..q : i \in 1..m - 1
    BY <1>1, <2>1
  <2>4. \A i \in 1..p : h.nodes[i] = f.nodes[i]
    BY <1>15, <1>16, <2>2
  <2>5. \A i \in 1..q : h.edges[i] = f.edges[i]
    BY <1>15, <1>16, <2>3
  <2> QED
    BY <1>6, <2>1, <2>4, <2>5 DEF Keeps, p, q
<1>9. ASSUME NEW i \in 1..k - 1
      PROVE  /\ less[i] = q + i
             /\ h.edges[less[i]][2] = p + i - 1
             /\ h.edges[less[i]][1] < p + i - 1
  <2>1. i \in 1..k
    BY <1>1
  <2>2. /\ path[i] = q + i
        /\ g.edges[path[i]][2] = p + i - 1
        /\ g.edges[path[i]][1] < p + i - 1
    BY <1>12, <2>1
  <2>3. less[i] = path[i] /\ path[i] \in 1..m - 1
    BY <1>1, <1>2, <1>7, <2>2
  <2>4. h.edges[path[i]] = g.edges[path[i]]
    BY <1>15, <2>3
  <2> QED
    BY <2>2, <2>3, <2>4
<1>10. Len(h.nodes) = p + (k - 1) /\ Len(h.edges) = q + (k - 1)
  BY <1>1, <1>2, <1>6
<1>11. KeepsAndHas(h, f, less)
  BY <1>7, <1>8, <1>9, <1>10 DEF KeepsAndHas, p, q
<1>14. m > 0
  BY <1>1, <1>2
<1> QED
  BY <1>4, <1>5, <1>6, <1>7, <1>8, <1>11, <1>14 DEF h, less, n, m

(* The steps of a request *)
\* No file, half a file and a graph are told apart.
LEMMA FilesDiffer ==
    /\ NoFile \notin FullGraph /\ CutFile \notin FullGraph /\ NoFile # CutFile
    /\ NoFile \notin GraphType /\ CutFile \notin GraphType
    /\ \A g \in FullGraph : Whole(g)
<1>1. NoFile \notin GraphType /\ CutFile \notin GraphType /\ NoFile # CutFile
  BY NotebookAssumption
<1>2. FullGraph \subseteq GraphType
  BY DEF FullGraph
<1> QED
  BY <1>1, <1>2 DEF Whole

\* A request that is there has all its fields.
LEMMA Coming ==
    ASSUME NotebookInv, NEW s \in Visitors, visit[s].phase # "idle"
    PROVE  /\ visit \in [Visitors -> VisitType \cup {Away}]
           /\ visit[s] \in VisitType
BY DEF NotebookInv, NotebookTypeOK, Away

\* No graph, no thread, no request.
LEMMA NotebookInit_Inv ==
    ASSUME NotebookInit PROVE NotebookInv
<1>1. NotebookTypeOK
  BY DEF NotebookInit, NotebookTypeOK
<1> SUFFICES ASSUME NEW s \in Visitors
             PROVE  /\ FilesFollow(s) /\ RowsFollow(s) /\ ThreadsFollow(s)
                    /\ PlaceFollows(s) /\ PathFollows(s)
  BY <1>1 DEF NotebookInv
<1>2. visit[s].phase = "idle" /\ dag = NoFile /\ \A t \in ThreadIds : ~Whole(current_node[t])
  BY DEF NotebookInit, Away, Whole
<1>3. FilesFollow(s)
  BY <1>2 DEF FilesFollow, Opening, Works
<1>4. RowsFollow(s)
  BY <1>2, FilesDiffer DEF RowsFollow, Newest
<1>5. ThreadsFollow(s)
  BY <1>2 DEF ThreadsFollow
<1> QED
  BY <1>2, <1>3, <1>4, <1>5 DEF PlaceFollows, PathFollows, Works, Pathing

\* Reads the graph.
LEMMA BeginVisit_Inv ==
    ASSUME NEW s \in Visitors, Visitors = {s}, NotebookInv,
           NEW t \in ThreadIds, BeginVisit(s, t)
    PROVE  NotebookInv'
<1> DEFINE p == IF dag = NoFile THEN "founding" ELSE "opening"
           w == [phase |-> p, thread |-> t,
                 dag |-> dag, current |-> 0, options |-> <<>>, listed |-> <<>>,
                 path |-> <<>>, left |-> 0, at |-> 0, before |-> <<>>, astray |-> FALSE]
<1>1. /\ visit[s] = Away /\ visit[s].phase = "idle" /\ dag # CutFile
      /\ visit' = [visit EXCEPT ![s] = w]
      /\ dag' = (IF dag = NoFile THEN CutFile ELSE dag)
      /\ rows' = (IF dag = NoFile THEN <<>> ELSE rows)
      /\ UNCHANGED <<current_node, failed, torn>>
  BY DEF BeginVisit, Away
<1>2. /\ dag \in FullGraph \cup {NoFile, CutFile} /\ visit \in [Visitors -> VisitType \cup {Away}]
      /\ current_node \in [ThreadIds -> Nat \cup {NoFile, CutFile}] /\ {failed, torn} \subseteq BOOLEAN
      /\ RowsFollow(s) /\ ThreadsFollow(s)
  BY DEF NotebookInv, NotebookTypeOK
<1>3. w \in VisitType
  <2>1. dag \in GraphType \cup {NoFile} /\ p \in VisitPhases /\ 0 \in Nat /\ <<>> \in Seq(Seq(Nat)) /\ <<>> \in Seq(Nat)
    BY <1>1, <1>2 DEF FullGraph, VisitPhases
  <2> HIDE DEF p
  <2> QED
    BY <2>1 DEF VisitType
<1>4. visit'[s].phase = p /\ visit'[s].dag = dag /\ visit' \in [Visitors -> VisitType \cup {Away}]
  <2>1. w.phase = p /\ w.dag = dag
    OBVIOUS
  <2> HIDE DEF w, p
  <2> QED
    BY <1>1, <1>2, <1>3, <2>1
<1> HIDE DEF w
<1>5. NotebookTypeOK'
  BY <1>1, <1>2, <1>4 DEF NotebookTypeOK
<1>6. FilesFollow(s)'
  BY <1>1, <1>2, <1>4 DEF FilesFollow, Opening, Works
<1>7. RowsFollow(s)'
  <2>1. CASE dag = NoFile
    BY <1>1, <1>4, <2>1, FilesDiffer DEF RowsFollow, Newest
  <2>2. CASE dag # NoFile
    BY <1>1, <1>2, <1>4, <2>2 DEF RowsFollow, Newest, RowsOf
  <2> QED
    BY <2>1, <2>2
<1>8. ThreadsFollow(s)'
  BY <1>1, <1>2, <1>4, FilesDiffer DEF ThreadsFollow, Home
<1>9. PlaceFollows(s)' /\ PathFollows(s)'
  BY <1>4 DEF PlaceFollows, PathFollows, Works, Pathing
<1>10. NotebookInv'
  BY <1>5, <1>6, <1>7, <1>8, <1>9 DEF NotebookInv
<1> QED
  BY <1>10

\* Writes the first graph.
LEMMA Found_Inv ==
    ASSUME NEW s \in Visitors, Visitors = {s}, NotebookInv, Found(s)
    PROVE  NotebookInv'
<1> DEFINE w == [visit[s] EXCEPT !.phase = "opening", !.dag = FirstGraph]
<1>1. /\ visit[s].phase = "founding"
      /\ dag' = FirstGraph
      /\ rows' = [i \in Nodes(FirstGraph) |-> NodeAt(FirstGraph, i)]
      /\ visit' = [visit EXCEPT ![s] = w]
      /\ UNCHANGED <<current_node, failed, torn>>
  BY DEF Found
<1>2. /\ visit \in [Visitors -> VisitType \cup {Away}] /\ visit[s] \in VisitType
      /\ current_node \in [ThreadIds -> Nat \cup {NoFile, CutFile}] /\ {failed, torn} \subseteq BOOLEAN
      /\ FilesFollow(s) /\ ThreadsFollow(s)
  BY <1>1, Coming DEF NotebookInv, NotebookTypeOK
<1>3. FirstGraph \in FullGraph /\ FirstGraph \in GraphType
  BY FirstGraphFull DEF FullGraph
<1> DEFINE g == FirstGraph
<1> HIDE DEF g
<1>4. w \in VisitType /\ w.phase = "opening" /\ w.dag = FirstGraph
  BY <1>2, <1>3 DEF VisitType, VisitPhases
<1> HIDE DEF w
<1>5. visit'[s].phase = "opening" /\ visit'[s].dag = FirstGraph
      /\ visit' \in [Visitors -> VisitType \cup {Away}]
  BY <1>1, <1>2, <1>4
<1>6. NotebookTypeOK'
  BY <1>1, <1>2, <1>3, <1>5 DEF NotebookTypeOK
<1>7. FilesFollow(s)'
  BY <1>1, <1>3, <1>5 DEF FilesFollow, Opening, Works
<1>8. RowsFollow(s)'
  BY <1>1, <1>5 DEF RowsFollow, Newest, RowsOf
<1>9. ThreadsFollow(s)'
  BY <1>1, <1>2, <1>5, FilesDiffer DEF ThreadsFollow, Home, FilesFollow
<1>10. PlaceFollows(s)' /\ PathFollows(s)'
  BY <1>5 DEF PlaceFollows, PathFollows, Works, Pathing
<1> QED
  BY <1>6, <1>7, <1>8, <1>9, <1>10 DEF NotebookInv

\* Empties the file of a new thread.
LEMMA OpenNewThread_Inv ==
    ASSUME NEW s \in Visitors, Visitors = {s}, NotebookInv, OpenNewThread(s)
    PROVE  NotebookInv'
<1> DEFINE w == [visit[s] EXCEPT !.phase = "beginning"]
<1>1. /\ visit[s].phase = "opening"
      /\ current_node' = [current_node EXCEPT ![visit[s].thread] = CutFile]
      /\ visit' = [visit EXCEPT ![s] = w]
      /\ UNCHANGED <<dag, rows, failed, torn>>
  BY DEF OpenNewThread
<1>2. /\ visit \in [Visitors -> VisitType \cup {Away}] /\ visit[s] \in VisitType
      /\ NotebookTypeOK /\ FilesFollow(s) /\ RowsFollow(s) /\ ThreadsFollow(s)
  BY <1>1, Coming DEF NotebookInv
<1>4. w \in VisitType /\ w.phase = "beginning" /\ w.dag = visit[s].dag
  BY <1>2 DEF VisitType, VisitPhases
<1> HIDE DEF w
<1>5. visit'[s].phase = "beginning" /\ visit'[s].dag = visit[s].dag
      /\ visit' \in [Visitors -> VisitType \cup {Away}]
  BY <1>1, <1>2, <1>4
<1>6. NotebookTypeOK'
  BY <1>1, <1>2, <1>5 DEF NotebookTypeOK
<1>7. FilesFollow(s)'
  BY <1>1, <1>2, <1>5 DEF FilesFollow, Opening, Works
<1>8. RowsFollow(s)'
  BY <1>1, <1>2, <1>5 DEF RowsFollow, Newest, RowsOf
<1>9. ThreadsFollow(s)'
  BY <1>1, <1>2, <1>5 DEF ThreadsFollow, Home, NotebookTypeOK, Whole
<1>10. PlaceFollows(s)' /\ PathFollows(s)'
  BY <1>5 DEF PlaceFollows, PathFollows, Works, Pathing
<1> QED
  BY <1>6, <1>7, <1>8, <1>9, <1>10 DEF NotebookInv

\* Writes it: the thread begins at the top.
LEMMA WriteNewThread_Inv ==
    ASSUME NEW s \in Visitors, Visitors = {s}, NotebookInv, WriteNewThread(s)
    PROVE  NotebookInv'
<1> DEFINE w == [visit[s] EXCEPT !.phase = "opening"]
<1>1. /\ visit[s].phase = "beginning"
      /\ current_node' = [current_node EXCEPT ![visit[s].thread] = 0]
      /\ visit' = [visit EXCEPT ![s] = w]
      /\ UNCHANGED <<dag, rows, failed, torn>>
  BY DEF WriteNewThread
<1>2. /\ visit \in [Visitors -> VisitType \cup {Away}] /\ visit[s] \in VisitType
      /\ NotebookTypeOK /\ FilesFollow(s) /\ RowsFollow(s) /\ ThreadsFollow(s)
  BY <1>1, Coming DEF NotebookInv
<1>4. w \in VisitType /\ w.phase = "opening" /\ w.dag = visit[s].dag
  BY <1>2 DEF VisitType, VisitPhases
<1> HIDE DEF w
<1>5. visit'[s].phase = "opening" /\ visit'[s].dag = visit[s].dag
      /\ visit' \in [Visitors -> VisitType \cup {Away}]
  BY <1>1, <1>2, <1>4
<1>6. NotebookTypeOK'
  BY <1>1, <1>2, <1>5 DEF NotebookTypeOK
<1>7. FilesFollow(s)'
  BY <1>1, <1>2, <1>5 DEF FilesFollow, Opening, Works
<1>8. RowsFollow(s)'
  BY <1>1, <1>2, <1>5 DEF RowsFollow, Newest, RowsOf
<1>9. ThreadsFollow(s)'
  <2>1. dag \in FullGraph /\ 0 \in Nodes(dag)
    BY <1>1, <1>2, FullGraphLens DEF FilesFollow, Opening
  <2> QED
    BY <1>1, <1>2, <1>5, <2>1 DEF ThreadsFollow, Home, NotebookTypeOK
<1>10. PlaceFollows(s)' /\ PathFollows(s)'
  BY <1>5 DEF PlaceFollows, PathFollows, Works, Pathing
<1> QED
  BY <1>6, <1>7, <1>8, <1>9, <1>10 DEF NotebookInv

\* New options.
LEMMA Search_Inv ==
    ASSUME NEW s \in Visitors, Visitors = {s}, NotebookInv, NEW goals, Search(s, goals)
    PROVE  NotebookInv'
<1> DEFINE was == current_node[visit[s].thread]
           now == IF was = 0 THEN Top ELSE was
           os == TraversalOptions(visit[s].dag, now, goals \ {was})
           w == [visit[s] EXCEPT !.phase = "asking", !.current = now, !.options = os,
                                 !.listed = os]
<1>1. /\ visit[s].phase = "opening"
      /\ was \notin {NoFile, CutFile}
      /\ visit' = [visit EXCEPT ![s] = w]
      /\ UNCHANGED <<dag, rows, current_node, failed, torn>>
  BY DEF Search
<1>2. /\ visit \in [Visitors -> VisitType \cup {Away}] /\ visit[s] \in VisitType
      /\ NotebookTypeOK /\ FilesFollow(s) /\ RowsFollow(s) /\ ThreadsFollow(s)
  BY <1>1, Coming DEF NotebookInv
<1>3. dag \in FullGraph /\ visit[s].dag = dag
  BY <1>1, <1>2 DEF FilesFollow, Opening
<1>4. visit[s].thread \in ThreadIds
  BY <1>2 DEF VisitType
<1>5. was \in Nat /\ now \in Nat /\ now \in NotRoot
  BY <1>1, <1>2, <1>4 DEF NotebookTypeOK, Top, NotRoot
<1>6. os \in Seq(PathsIn(dag, NotRoot)) /\ os \in Seq(Seq(Nat))
  <2>1. Nat \ {0} \subseteq NotRoot
    BY DEF NotRoot
  <2> HIDE DEF was, now
  <2>2. os \in Seq(PathsIn(dag, NotRoot))
    BY <1>3, <1>5, <2>1, ListsType
  <2> HIDE DEF os
  <2> QED
    BY <1>3, <2>2, ListsAre
<1>7. ~torn => now \in Nodes(dag)
  <2>1. Len(dag.nodes) >= 3 /\ Nodes(dag) = 0..Len(dag.nodes) - 1 /\ Len(dag.nodes) \in Nat
    BY <1>3, FullGraphLens
  <2>2. ~torn => was \in Nodes(dag)
    BY <1>1, <1>2, <1>4 DEF ThreadsFollow, Home, Whole
  <2> QED
    BY <2>1, <2>2 DEF Top
<1> HIDE DEF was, now, os
<1>8. /\ w \in VisitType /\ w.phase = "asking" /\ w.dag = visit[s].dag
      /\ w.current = now /\ w.options = os
  BY <1>2, <1>5, <1>6 DEF VisitType, VisitPhases
<1> HIDE DEF w
<1>9. /\ visit'[s].phase = "asking" /\ visit'[s].dag = dag
      /\ visit'[s].current = now /\ visit'[s].options = os
      /\ visit' \in [Visitors -> VisitType \cup {Away}]
  BY <1>1, <1>2, <1>3, <1>8
<1>10. NotebookTypeOK'
  BY <1>1, <1>2, <1>9 DEF NotebookTypeOK
<1>11. FilesFollow(s)'
  BY <1>1, <1>3, <1>9, KeepsItself, FilesDiffer DEF FilesFollow, Opening, Works
<1>12. RowsFollow(s)'
  BY <1>1, <1>2, <1>3, <1>9 DEF RowsFollow, Newest, RowsOf
<1>13. ThreadsFollow(s)'
  BY <1>1, <1>2, <1>9 DEF ThreadsFollow, Home
<1>14. PlaceFollows(s)'
  BY <1>1, <1>7, <1>9 DEF PlaceFollows, Pathing
<1>15. PathFollows(s)'
  BY <1>6, <1>9 DEF PathFollows, Pathing
<1> QED
  BY <1>10, <1>11, <1>12, <1>13, <1>14, <1>15 DEF NotebookInv

\* A request that asks again, in the same graph and of the same options.
LEMMA AskingOn ==
    ASSUME NEW s \in Visitors, Visitors = {s}, NotebookInv, Asking(s),
           NEW w \in VisitType, visit' = [visit EXCEPT ![s] = w],
           UNCHANGED <<dag, rows, current_node, failed, torn>>,
           w.phase = "asking", w.dag = visit[s].dag, w.options = visit[s].options,
           ~torn => w.current \in Nodes(w.dag)
    PROVE  NotebookInv'
<1>1. visit[s].phase = "asking"
  BY DEF Asking
<1>2. /\ visit \in [Visitors -> VisitType \cup {Away}] /\ visit[s] \in VisitType
      /\ NotebookTypeOK /\ FilesFollow(s) /\ RowsFollow(s) /\ ThreadsFollow(s)
      /\ PlaceFollows(s) /\ PathFollows(s)
  BY <1>1, Coming DEF NotebookInv
<1>3. /\ visit'[s] = w /\ visit' \in [Visitors -> VisitType \cup {Away}]
  BY <1>2
<1>4. NotebookTypeOK'
  BY <1>2, <1>3 DEF NotebookTypeOK
<1>5. FilesFollow(s)'
  BY <1>1, <1>2, <1>3 DEF FilesFollow, Opening, Works
<1>6. RowsFollow(s)'
  BY <1>1, <1>2, <1>3 DEF RowsFollow, Newest, RowsOf
<1>7. ThreadsFollow(s)'
  BY <1>1, <1>2, <1>3 DEF ThreadsFollow, Home
<1>8. PlaceFollows(s)'
  BY <1>3 DEF PlaceFollows, Pathing
<1>9. PathFollows(s)'
  BY <1>1, <1>2, <1>3 DEF PathFollows, Pathing, Works
<1> QED
  BY <1>4, <1>5, <1>6, <1>7, <1>8, <1>9 DEF NotebookInv

\* What a list of the paths at a place is made of.
LEMMA ListedType ==
    ASSUME NEW s, visit[s] \in VisitType, visit[s].dag \in FullGraph, NEW a \in Int
    PROVE  ListedAt(s, a) \in Seq(Seq(Nat))
<1>1. ChildPaths(visit[s].dag, a) \in Seq(PathsIn(visit[s].dag, Int))
  BY ListsType
<1>2. ChildPaths(visit[s].dag, a) \in Seq(Seq(Nat))
  BY <1>1, ListsAre
<1>3. visit[s].listed \in Seq(Seq(Nat))
  BY DEF VisitType
<1> QED
  BY <1>2, <1>3 DEF ListedAt

\* Goes to the end of an option.
LEMMA ChoosePath_Inv ==
    ASSUME NEW s \in Visitors, Visitors = {s}, NotebookInv, NEW i, ChoosePath(s, i)
    PROVE  NotebookInv'
<1> DEFINE g == visit[s].dag
           path == visit[s].options[i]
           end == g.edges[Last(path)][2]
           list == ListedAt(s, end)
           astray == i \in DOMAIN visit[s].listed /\ visit[s].listed[i] # path
           w == [visit[s] EXCEPT !.current = end, !.listed = list, !.astray = astray]
<1>1. /\ Asking(s) /\ visit[s].phase = "asking" /\ i \in DOMAIN visit[s].options
      /\ visit' = [visit EXCEPT ![s] = w]
      /\ UNCHANGED <<dag, rows, current_node, failed, torn>>
  BY DEF ChoosePath, Goes, Asking
<1>2. visit[s] \in VisitType /\ FilesFollow(s) /\ PathFollows(s)
  BY <1>1, Coming DEF NotebookInv
<1>3. g \in FullGraph /\ visit[s].options \in Seq(PathsIn(g, NotRoot))
  BY <1>1, <1>2 DEF FilesFollow, PathFollows, Works, Pathing
<1>4. path \in PathsIn(g, NotRoot)
  <2> DEFINE S == PathsIn(g, NotRoot)
  <2> HIDE DEF S
  <2>1. visit[s].options \in Seq(S)
    BY <1>3 DEF S
  <2>2. path \in S
    BY <1>1, <2>1
  <2> QED
    BY <2>2 DEF S
<1>5. Last(path) \in 1..Len(g.edges)
  BY SMTT(30), <1>4 DEF PathsIn, Last
<1>6. end \in Nodes(g) /\ end \in Nat
  BY SMTT(30), <1>3, <1>5, FullGraphEnds, FullGraphLens
<1> HIDE DEF end, path
<1>7. list \in Seq(Seq(Nat)) /\ astray \in BOOLEAN
  BY <1>2, <1>3, <1>6, ListedType
<1> HIDE DEF list, astray
<1>8. /\ w \in VisitType /\ w.phase = "asking" /\ w.dag = g
      /\ w.current = end /\ w.options = visit[s].options
  BY <1>1, <1>2, <1>6, <1>7 DEF VisitType
<1> HIDE DEF w
<1> QED
  BY <1>1, <1>6, <1>8, AskingOn

\* The number chosen is that of no option.
LEMMA OutOfRange_Inv ==
    ASSUME NEW s \in Visitors, Visitors = {s}, NotebookInv, OutOfRange(s)
    PROVE  NotebookInv'
<1> DEFINE list == ListedAt(s, visit[s].current)
           w == [visit[s] EXCEPT !.listed = list]
<1>1. /\ Asking(s) /\ visit[s].phase = "asking"
      /\ visit' = [visit EXCEPT ![s] = w]
      /\ UNCHANGED <<dag, rows, current_node, failed, torn>>
  BY DEF OutOfRange, Goes, Asking
<1>2. visit[s] \in VisitType /\ FilesFollow(s) /\ PlaceFollows(s)
  BY <1>1, Coming DEF NotebookInv
<1>3. visit[s].dag \in FullGraph /\ (~torn => visit[s].current \in Nodes(visit[s].dag))
  BY <1>1, <1>2 DEF FilesFollow, PlaceFollows, Works
<1>4. visit[s].current \in Int
  BY <1>2 DEF VisitType
<1>5. list \in Seq(Seq(Nat))
  BY <1>2, <1>3, <1>4, ListedType
<1> HIDE DEF list
<1>6. /\ w \in VisitType /\ w.phase = "asking" /\ w.dag = visit[s].dag
      /\ w.current = visit[s].current /\ w.options = visit[s].options
  BY <1>1, <1>2, <1>5 DEF VisitType
<1> HIDE DEF w
<1> QED
  BY <1>1, <1>3, <1>6, AskingOn

\* The model is told so.
LEMMA Told_Inv ==
    ASSUME NEW s \in Visitors, Visitors = {s}, NotebookInv, Told(s)
    PROVE  NotebookInv'
<1>1. /\ Asking(s) /\ visit[s].phase = "asking"
      /\ visit' = [visit EXCEPT ![s] = visit[s]]
      /\ UNCHANGED <<dag, rows, current_node, failed, torn>>
  BY DEF Told, Goes, Asking
<1>2. visit[s] \in VisitType /\ PlaceFollows(s)
  BY <1>1, Coming DEF NotebookInv
<1>3. ~torn => visit[s].current \in Nodes(visit[s].dag)
  BY <1>1, <1>2 DEF PlaceFollows, Works
<1> QED
  BY <1>1, <1>2, <1>3, AskingOn

\* Back to the top.
LEMMA JumpToRoot_Inv ==
    ASSUME NEW s \in Visitors, Visitors = {s}, NotebookInv, JumpToRoot(s)
    PROVE  NotebookInv'
<1> DEFINE g == visit[s].dag
           list == ChildPaths(g, JumpTarget) \o ParentPaths(g, JumpTarget)
           w == [visit[s] EXCEPT !.current = JumpTarget, !.listed = list]
<1>1. /\ Asking(s) /\ visit[s].phase = "asking"
      /\ visit' = [visit EXCEPT ![s] = w]
      /\ UNCHANGED <<dag, rows, current_node, failed, torn>>
  BY DEF JumpToRoot, Goes, Asking
<1>2. visit[s] \in VisitType /\ FilesFollow(s)
  BY <1>1, Coming DEF NotebookInv
<1>3. g \in FullGraph
  BY <1>1, <1>2 DEF FilesFollow, Works
<1>4. JumpTarget \in Nat /\ JumpTarget \in Nodes(g)
  BY <1>3, FullGraphLens DEF JumpTarget, Top
<1>5. list \in Seq(Seq(Nat))
  <2>1. /\ ChildPaths(g, JumpTarget) \in Seq(PathsIn(g, Int))
        /\ ParentPaths(g, JumpTarget) \in Seq(PathsIn(g, Int))
    <3>1. Nat \ {0} \subseteq Int /\ JumpTarget \in Int
      BY <1>4
    <3> HIDE DEF g
    <3> QED
      BY <1>3, <3>1, ListsType
  <2>2. /\ ChildPaths(g, JumpTarget) \in Seq(Seq(Nat))
        /\ ParentPaths(g, JumpTarget) \in Seq(Seq(Nat))
    BY <1>3, <2>1, ListsAre
  <2> DEFINE c == ChildPaths(g, JumpTarget)
             p == ParentPaths(g, JumpTarget)
             T == Seq(Nat)
  <2>3. list = c \o p
    OBVIOUS
  <2> HIDE DEF c, p, T, list
  <2>5. c \in Seq(T) /\ p \in Seq(T)
    BY <2>2 DEF c, p, T
  <2>4. list \in Seq(T)
    BY <2>3, <2>5
  <2> QED
    BY <2>4 DEF T
<1> HIDE DEF list
<1>6. /\ w \in VisitType /\ w.phase = "asking" /\ w.dag = g
      /\ w.current = JumpTarget /\ w.options = visit[s].options
  BY <1>1, <1>2, <1>4, <1>5 DEF VisitType
<1> HIDE DEF w
<1> QED
  BY <1>1, <1>4, <1>6, AskingOn

\* A request in phase p, with what the invariant says of it.
LEMMA AtPhase ==
    ASSUME NEW s \in Visitors, NotebookInv, visit[s].phase # "idle"
    PROVE  /\ visit \in [Visitors -> VisitType \cup {Away}] /\ visit[s] \in VisitType
           /\ NotebookTypeOK /\ FilesFollow(s) /\ RowsFollow(s) /\ ThreadsFollow(s)
           /\ PlaceFollows(s) /\ PathFollows(s)
BY Coming DEF NotebookInv

\* What the invariant says of a request at work.
LEMMA Stands ==
    ASSUME NEW s \in Visitors, NotebookInv,
           visit[s].phase \in {"asking", "making", "undoing", "saving", "writing", "saved"}
    PROVE  /\ Works(s) /\ visit[s].dag \in FullGraph /\ dag \in FullGraph
           /\ Keeps(visit[s].dag, dag)
           /\ RowsOf(visit[s].dag) /\ (~failed => DOMAIN rows = Nodes(visit[s].dag))
           /\ ~torn => visit[s].current \in Nodes(visit[s].dag)
<1>1. visit[s].phase # "idle" /\ visit[s].phase # "ending" /\ Works(s)
  BY DEF Works
<1>2. NotebookTypeOK /\ FilesFollow(s) /\ RowsFollow(s) /\ PlaceFollows(s)
  BY DEF NotebookInv
<1>3. visit[s].dag \in FullGraph /\ dag \in FullGraph /\ Keeps(visit[s].dag, dag)
  BY <1>1, <1>2 DEF FilesFollow, NotebookTypeOK
<1>4. RowsOf(visit[s].dag) /\ (~failed => DOMAIN rows = Nodes(visit[s].dag))
  BY <1>1, <1>2, <1>3 DEF RowsFollow, Newest, Works
<1> QED
  BY <1>1, <1>2, <1>3, <1>4 DEF PlaceFollows

\* A new edge between nodes that are there.
LEMMA ConnectToNode_Inv ==
    ASSUME NEW s \in Visitors, Visitors = {s}, NotebookInv, NEW b, ConnectToNode(s, b)
    PROVE  NotebookInv'
<1> DEFINE g == visit[s].dag
           h == AddEdge(g, visit[s].current, b)
           w == [visit[s] EXCEPT !.dag = h, !.current = b]
<1>1. /\ visit[s].phase = "asking"
      /\ {visit[s].current, b} \subseteq Nodes(g)
      /\ visit' = [visit EXCEPT ![s] = w]
      /\ UNCHANGED <<dag, rows, current_node, failed, torn>>
  BY DEF ConnectToNode, Goes, Asking, CanAddEdge
<1>2. /\ visit \in [Visitors -> VisitType \cup {Away}] /\ visit[s] \in VisitType
      /\ NotebookTypeOK /\ ThreadsFollow(s) /\ PathFollows(s)
  BY <1>1, AtPhase
<1>3. /\ Works(s) /\ g \in FullGraph /\ dag \in FullGraph /\ Keeps(g, dag)
      /\ RowsOf(g) /\ (~failed => DOMAIN rows = Nodes(g))
  BY <1>1, Stands
<1>4. h \in FullGraph /\ Keeps(h, g) /\ h.nodes = g.nodes
  BY <1>1, <1>3, AddEdgeKeeps
<1>5. Nodes(h) = Nodes(g) /\ \A i : NodeAt(h, i) = NodeAt(g, i)
  BY <1>4 DEF Nodes, NodeAt
<1>6. b \in Nat /\ b \in Nodes(h) /\ h \in GraphType
  BY <1>1, <1>3, <1>4, <1>5, FullGraphLens DEF FullGraph
<1>7. visit[s].options \in Seq(PathsIn(h, NotRoot))
  <2>1. visit[s].options \in Seq(PathsIn(g, NotRoot))
    BY <1>1, <1>2, <1>3 DEF PathFollows, Pathing
  <2> HIDE DEF g, h
  <2> QED
    BY <2>1, <1>3, <1>4, KeepsPaths
<1>8. Keeps(h, dag)
  BY <1>3, <1>4, KeepsOn
<1> HIDE DEF h
<1>9. /\ w \in VisitType /\ w.phase = "asking" /\ w.dag = h
      /\ w.current = b /\ w.options = visit[s].options
  BY <1>1, <1>2, <1>6 DEF VisitType
<1> HIDE DEF w
<1>10. /\ visit'[s].phase = "asking" /\ visit'[s].dag = h /\ visit'[s].current = b
       /\ visit'[s].options = visit[s].options
       /\ visit' \in [Visitors -> VisitType \cup {Away}]
  BY <1>1, <1>2, <1>9
<1>11. NotebookTypeOK'
  BY <1>1, <1>2, <1>10 DEF NotebookTypeOK
<1>12. FilesFollow(s)'
  BY <1>1, <1>3, <1>4, <1>8, <1>10, FilesDiffer DEF FilesFollow, Opening, Works
<1>13. RowsFollow(s)'
  BY <1>1, <1>3, <1>5, <1>10 DEF RowsFollow, Newest, RowsOf
<1>14. ThreadsFollow(s)'
  BY <1>1, <1>2, <1>10 DEF ThreadsFollow, Home
<1>15. PlaceFollows(s)'
  BY <1>6, <1>10 DEF PlaceFollows, Pathing
<1>16. PathFollows(s)'
  BY <1>7, <1>10 DEF PathFollows, Pathing
<1> QED
  BY <1>11, <1>12, <1>13, <1>14, <1>15, <1>16 DEF NotebookInv

\* What is restored when a path is undone.
LEMMA UndoneIsBefore ==
    ASSUME NEW s \in Visitors, NotebookInv, Undone(s)
    PROVE  visit[s].before = <<visit[s].dag, visit[s].current>>
<1>1. visit[s].phase = "undoing" /\ visit[s].path = <<>>
  BY DEF Undone
<1>2. PathFollows(s) /\ visit[s].dag \in FullGraph
  BY <1>1, AtPhase, Stands
<1>3. /\ visit[s].before \in FullGraph \X {visit[s].current}
      /\ KeepsAndHas(visit[s].dag, visit[s].before[1], <<>>)
  BY <1>1, <1>2 DEF PathFollows, Pathing
<1>4. visit[s].before[1] = visit[s].dag
  BY <1>2, <1>3, NothingMore
<1> QED
  BY <1>3, <1>4

\* Remembers the graph and the place before the path.
LEMMA Making_Inv ==
    ASSUME NEW s \in Visitors, Visitors = {s}, NotebookInv, NEW k \in Nat,
           Making(s, k), Asking(s) \/ Undone(s)
    PROVE  NotebookInv'
<1> DEFINE g == visit[s].dag
           c == visit[s].current
           w == [visit[s] EXCEPT !.phase = "making", !.left = k, !.path = <<>>,
                                 !.at = c, !.before = <<g, c>>]
<1>1. /\ visit[s].phase \in {"asking", "undoing"}
      /\ visit' = [visit EXCEPT ![s] = w]
      /\ UNCHANGED <<dag, rows, current_node, failed, torn>>
  BY DEF Making, Goes, Asking, Undone
<1>2. /\ visit \in [Visitors -> VisitType \cup {Away}] /\ visit[s] \in VisitType
      /\ NotebookTypeOK /\ ThreadsFollow(s) /\ PathFollows(s)
  BY <1>1, AtPhase
<1>3. /\ Works(s) /\ g \in FullGraph /\ dag \in FullGraph /\ Keeps(g, dag)
      /\ RowsOf(g) /\ (~failed => DOMAIN rows = Nodes(g))
      /\ ~torn => c \in Nodes(g)
  BY <1>1, Stands
<1>4. visit[s].options \in Seq(PathsIn(g, NotRoot))
  <2>1. CASE Asking(s)
    BY <1>2, <1>3, <2>1 DEF PathFollows, Pathing, Asking
  <2>2. CASE Undone(s)
    <3>1. visit[s].before = <<g, c>>
      BY <2>2, UndoneIsBefore
    <3>2. visit[s].before[1] = g
      BY <3>1
    <3> QED
      BY <1>2, <2>2, <3>2 DEF PathFollows, Pathing, Undone
  <2> QED
    BY <2>1, <2>2
<1>5. g \in GraphType /\ c \in Nat /\ <<g, c>> \in GraphType \X Nat
  BY <1>2, <1>3 DEF VisitType, FullGraph
<1>6. KeepsAndHas(g, g, <<>>)
  BY <1>3, HasNothing
<1> DEFINE b == <<g, c>>
<1>10. b \in {<<>>} \cup (GraphType \X Nat) /\ visit[s].dag = g /\ visit[s].current = c
  BY <1>5
<1>17. w = [visit[s] EXCEPT !.phase = "making", !.left = k, !.path = <<>>,
                            !.at = c, !.before = b]
  OBVIOUS
<1> HIDE DEF g, c, b, w
<1>7. /\ w \in VisitType /\ w.phase = "making" /\ w.path = <<>> /\ w.at = c
      /\ w.before = b /\ w.dag = g /\ w.current = c
      /\ w.options = visit[s].options
  <2>1. visit[s] \in VisitType /\ c \in Nat /\ <<>> \in Seq(Nat) /\ "making" \in VisitPhases
    BY <1>2, <1>5 DEF VisitPhases
  <2> QED
    BY <1>10, <1>17, <2>1 DEF VisitType
<1>8. /\ visit'[s].phase = "making" /\ visit'[s].path = <<>> /\ visit'[s].at = c
      /\ visit'[s].before = b /\ visit'[s].dag = g /\ visit'[s].current = c
      /\ visit'[s].options = visit[s].options
      /\ visit' \in [Visitors -> VisitType \cup {Away}]
  <2>1. visit' = [visit EXCEPT ![s] = w]
    BY <1>1 DEF w, g, c
  <2> QED
    BY <2>1, <1>2, <1>7
<1>9. visit'[s].before[1] = g /\ visit'[s].before \in FullGraph \X {visit'[s].current}
  BY <1>3, <1>8 DEF b
<1>11. NotebookTypeOK'
  BY <1>1, <1>2, <1>8 DEF NotebookTypeOK
<1>12. FilesFollow(s)'
  BY <1>1, <1>3, <1>8, FilesDiffer DEF FilesFollow, Opening, Works
<1>13. RowsFollow(s)'
  BY <1>1, <1>3, <1>8 DEF RowsFollow, Newest, RowsOf
<1>14. ThreadsFollow(s)'
  BY <1>1, <1>2, <1>8 DEF ThreadsFollow, Home
<1>15. PlaceFollows(s)'
  BY <1>1, <1>3, <1>8, <1>9 DEF PlaceFollows, Pathing
<1>16. PathFollows(s)'
  BY <1>1, <1>3, <1>4, <1>6, <1>8, <1>9 DEF PathFollows, Pathing, Works
<1> QED
  BY <1>11, <1>12, <1>13, <1>14, <1>15, <1>16 DEF NotebookInv

\* The path is complete: the request goes to its end.
LEMMA WalkNewPath_Inv ==
    ASSUME NEW s \in Visitors, Visitors = {s}, NotebookInv, WalkNewPath(s)
    PROVE  NotebookInv'
<1> DEFINE g == visit[s].dag
           w == [visit[s] EXCEPT !.phase = "asking", !.current = visit[s].at,
                                 !.path = <<>>, !.before = <<>>]
<1>1. /\ visit[s].phase = "making"
      /\ visit' = [visit EXCEPT ![s] = w]
      /\ UNCHANGED <<dag, rows, current_node, failed, torn>>
  BY DEF WalkNewPath, Made
<1>2. /\ visit \in [Visitors -> VisitType \cup {Away}] /\ visit[s] \in VisitType
      /\ NotebookTypeOK /\ ThreadsFollow(s) /\ PlaceFollows(s) /\ PathFollows(s)
  BY <1>1, AtPhase
<1>3. /\ Works(s) /\ g \in FullGraph /\ dag \in FullGraph /\ Keeps(g, dag)
      /\ RowsOf(g) /\ (~failed => DOMAIN rows = Nodes(g))
  BY <1>1, Stands
<1>4. visit[s].options \in Seq(PathsIn(g, NotRoot))
  <2> DEFINE f == visit[s].before[1]
  <2>1. visit[s].options \in Seq(PathsIn(f, NotRoot)) /\ f \in FullGraph /\ Keeps(g, f)
    BY <1>1, <1>2 DEF PathFollows, Pathing, KeepsAndHas
  <2> HIDE DEF f, g
  <2> QED
    BY <1>3, <2>1, KeepsPaths
<1>5. ~torn => visit[s].at \in Nodes(g)
  BY <1>1, <1>2, <1>3 DEF PlaceFollows
<1>6. /\ w \in VisitType /\ w.phase = "asking" /\ w.dag = g /\ w.current = visit[s].at
      /\ w.options = visit[s].options
  <2>1. /\ visit[s].at \in Nat /\ <<>> \in Seq(Nat) /\ "asking" \in VisitPhases
        /\ <<>> \in {<<>>} \cup (GraphType \X Nat)
    BY <1>2 DEF VisitType, VisitPhases
  <2> QED
    BY <1>1, <1>2, <2>1 DEF VisitType
<1> HIDE DEF w
<1>7. /\ visit'[s].phase = "asking" /\ visit'[s].dag = g /\ visit'[s].current = visit[s].at
      /\ visit'[s].options = visit[s].options
      /\ visit' \in [Visitors -> VisitType \cup {Away}]
  BY <1>1, <1>2, <1>6
<1>11. NotebookTypeOK'
  BY <1>1, <1>2, <1>7 DEF NotebookTypeOK
<1>12. FilesFollow(s)'
  BY <1>1, <1>3, <1>7, FilesDiffer DEF FilesFollow, Opening, Works
<1>13. RowsFollow(s)'
  BY <1>1, <1>3, <1>7 DEF RowsFollow, Newest, RowsOf
<1>14. ThreadsFollow(s)'
  BY <1>1, <1>2, <1>7 DEF ThreadsFollow, Home
<1>15. PlaceFollows(s)'
  BY <1>1, <1>5, <1>7 DEF PlaceFollows, Pathing
<1>16. PathFollows(s)'
  BY <1>4, <1>7 DEF PathFollows, Pathing
<1> QED
  BY <1>11, <1>12, <1>13, <1>14, <1>15, <1>16 DEF NotebookInv

\* The model fails on the way: the request turns to undo the path.
LEMMA WalkFails_Inv ==
    ASSUME NEW s \in Visitors, Visitors = {s}, NotebookInv, NEW e, WalkFails(s, e)
    PROVE  NotebookInv'
<1> DEFINE w == [visit[s] EXCEPT !.phase = "undoing", !.current = visit[s].before[2]]
<1>1. /\ visit[s].phase = "making"
      /\ visit' = [visit EXCEPT ![s] = w]
      /\ UNCHANGED <<dag, rows, current_node, failed, torn>>
  BY DEF WalkFails, Made, Restored
<1>2. /\ visit \in [Visitors -> VisitType \cup {Away}] /\ visit[s] \in VisitType
      /\ NotebookTypeOK /\ ThreadsFollow(s) /\ PlaceFollows(s) /\ PathFollows(s)
  BY <1>1, AtPhase
<1>3. /\ Works(s) /\ visit[s].dag \in FullGraph /\ dag \in FullGraph /\ Keeps(visit[s].dag, dag)
      /\ RowsOf(visit[s].dag) /\ (~failed => DOMAIN rows = Nodes(visit[s].dag))
  BY <1>1, Stands
<1>4. visit[s].before[2] = visit[s].current
  BY <1>1, <1>2 DEF PathFollows, Pathing
<1>5. /\ w \in VisitType /\ w.phase = "undoing" /\ w.dag = visit[s].dag
      /\ w.current = visit[s].current /\ w.at = visit[s].at
      /\ w.options = visit[s].options /\ w.before = visit[s].before /\ w.path = visit[s].path
  BY <1>1, <1>2, <1>4 DEF VisitType, VisitPhases
<1> HIDE DEF w
<1>6. /\ visit'[s].phase = "undoing" /\ visit'[s].dag = visit[s].dag
      /\ visit'[s].current = visit[s].current /\ visit'[s].at = visit[s].at
      /\ visit'[s].options = visit[s].options /\ visit'[s].before = visit[s].before
      /\ visit'[s].path = visit[s].path
      /\ visit' \in [Visitors -> VisitType \cup {Away}]
  BY <1>1, <1>2, <1>5
<1>11. NotebookTypeOK'
  BY <1>1, <1>2, <1>6 DEF NotebookTypeOK
<1>12. FilesFollow(s)'
  BY <1>1, <1>3, <1>6, FilesDiffer DEF FilesFollow, Opening, Works
<1>13. RowsFollow(s)'
  BY <1>1, <1>3, <1>6 DEF RowsFollow, Newest, RowsOf
<1>14. ThreadsFollow(s)'
  BY <1>1, <1>2, <1>6 DEF ThreadsFollow, Home
<1>15. PlaceFollows(s)'
  BY <1>1, <1>2, <1>3, <1>6 DEF PlaceFollows, Pathing
<1>16. PathFollows(s)'
  BY <1>1, <1>2, <1>6 DEF PathFollows, Pathing, Works
<1> QED
  BY <1>11, <1>12, <1>13, <1>14, <1>15, <1>16 DEF NotebookInv

\* The row is written and the node is not added: the request ends.
LEMMA NodeLost_Inv ==
    ASSUME NEW s \in Visitors, Visitors = {s}, NotebookInv,
           NEW kind, CreateNewNode(s, kind, TRUE)
    PROVE  NotebookInv'
<1> DEFINE g == visit[s].dag
           new == Len(g.nodes)
           node == <<kind, made + 1>>
<1>1. /\ visit[s].phase = "making"
      /\ rows' = RowsWith(new, node)
      /\ visit' = [visit EXCEPT ![s] = Away]
      /\ failed' = TRUE
      /\ UNCHANGED <<dag, current_node, torn>>
  BY DEF CreateNewNode
<1>2. /\ visit \in [Visitors -> VisitType \cup {Away}]
      /\ NotebookTypeOK /\ ThreadsFollow(s)
  BY <1>1, AtPhase
<1>3. g \in FullGraph /\ dag \in FullGraph /\ Keeps(g, dag) /\ RowsOf(g)
  BY <1>1, Stands
<1>4. RowsOf(dag)
  BY <1>3, KeepsNodes
<1>5. new \notin Nodes(dag)
  <2>1. Len(dag.nodes) \in Nat /\ new \in Nat /\ Nodes(dag) = 0..Len(dag.nodes) - 1
    BY <1>3, FullGraphLens
  <2> QED
    BY <1>3, <2>1 DEF Keeps
<1> HIDE DEF g, new, node
<1>6. \A i \in Nodes(dag) : i \in DOMAIN rows' /\ rows'[i] = NodeAt(dag, i)
  BY <1>1, <1>4, <1>5 DEF RowsOf, RowsWith
<1>7. visit'[s].phase = "idle" /\ visit' \in [Visitors -> VisitType \cup {Away}]
  BY <1>1, <1>2 DEF Away
<1>11. NotebookTypeOK'
  BY <1>1, <1>2, <1>7 DEF NotebookTypeOK
<1>12. FilesFollow(s)'
  BY <1>7 DEF FilesFollow, Opening, Works
<1>13. RowsFollow(s)'
  BY <1>1, <1>6, <1>7 DEF RowsFollow, Newest, RowsOf
<1>14. ThreadsFollow(s)'
  BY <1>1, <1>2, <1>7 DEF ThreadsFollow, Home
<1>15. PlaceFollows(s)' /\ PathFollows(s)'
  BY <1>7 DEF PlaceFollows, PathFollows, Works, Pathing
<1> QED
  BY <1>11, <1>12, <1>13, <1>14, <1>15 DEF NotebookInv

\* A row, a node, and the edge from where the path had come.
LEMMA NodeMade_Inv ==
    ASSUME NEW s \in Visitors, Visitors = {s}, NotebookInv, made \in Nat,
           NEW kind \in NodeKinds, CreateNewNode(s, kind, FALSE)
    PROVE  NotebookInv'
<1> DEFINE g == visit[s].dag
           f == visit[s].before[1]
           c == visit[s].current
           new == Len(g.nodes)
           node == <<kind, made + 1>>
           grown == AddNode(g, node)
           h == AddEdge(grown, visit[s].at, new)
           more == Append(visit[s].path, Len(grown.edges) + 1)
           less == visit[s].left - 1
           w == [visit[s] EXCEPT !.dag = h, !.at = new, !.left = less, !.path = more]
<1>1. /\ visit[s].phase = "making" /\ visit[s].left > 0
      /\ rows' = RowsWith(new, node)
      /\ CanAddEdge(grown, visit[s].at, new)
      /\ visit' = [visit EXCEPT ![s] = w]
      /\ failed' = failed
      /\ UNCHANGED <<dag, current_node, torn>>
  <2>1. {failed, torn} \subseteq BOOLEAN
    BY DEF NotebookInv, NotebookTypeOK
  <2>2. failed' = (failed \/ FALSE)
    BY DEF CreateNewNode
  <2>3. failed' = failed
    BY <2>1, <2>2
  <2>4. /\ visit[s].phase = "making" /\ visit[s].left > 0
        /\ rows' = RowsWith(new, node)
        /\ CanAddEdge(grown, visit[s].at, new)
        /\ UNCHANGED <<dag, current_node, torn>>
    BY DEF CreateNewNode
  <2>5. visit' = [visit EXCEPT ![s] = w]
    BY DEF CreateNewNode
  <2> QED
    BY <2>3, <2>4, <2>5
<1>2. /\ visit \in [Visitors -> VisitType \cup {Away}] /\ visit[s] \in VisitType
      /\ NotebookTypeOK /\ ThreadsFollow(s) /\ PlaceFollows(s) /\ PathFollows(s)
  BY <1>1, AtPhase
<1>3. /\ Works(s) /\ g \in FullGraph /\ dag \in FullGraph /\ Keeps(g, dag)
      /\ RowsOf(g) /\ (~failed => DOMAIN rows = Nodes(g))
  BY <1>1, Stands
<1>4. /\ visit[s].at \in Nat /\ visit[s].left \in Nat /\ visit[s].path \in Seq(Nat) /\ c \in Nat
      /\ visit[s].options \in Seq(Seq(Nat))
  BY <1>2 DEF VisitType
<1>5. /\ f \in FullGraph /\ visit[s].options \in Seq(PathsIn(f, NotRoot))
      /\ visit[s].before \in FullGraph \X {c} /\ Keeps(f, dag)
      /\ KeepsAndHas(g, f, visit[s].path)
  BY <1>1, <1>2, <1>3 DEF PathFollows, Pathing
<1>6. node \in NodeKinds \X Nat
  OBVIOUS
<1> HIDE DEF node
<1>7. visit[s].at \in Nodes(g)
  BY <1>1, <1>3, <1>4, <1>6, NewEdgeFrom
<1>8. grown.edges = g.edges
  BY DEF AddNode
<1>9. /\ h \in FullGraph /\ Keeps(h, g)
      /\ Len(h.nodes) = new + 1 /\ h.nodes[new + 1] = node
      /\ Len(h.edges) = Len(g.edges) + 1
      /\ h.edges[Len(g.edges) + 1] = <<visit[s].at, new>>
  <2>1. g \in FullGraph /\ visit[s].at \in Nodes(g) /\ node \in NodeKinds \X Nat
    BY <1>3, <1>6, <1>7
  <2> DEFINE a == visit[s].at
  <2> HIDE DEF g, a
  <2>2. LET k == AddEdge(AddNode(g, node), a, Len(g.nodes))
        IN  /\ k \in FullGraph /\ Keeps(k, g)
            /\ Len(k.nodes) = Len(g.nodes) + 1 /\ k.nodes[Len(g.nodes) + 1] = node
            /\ Len(k.edges) = Len(g.edges) + 1
            /\ k.edges[Len(g.edges) + 1] = <<a, Len(g.nodes)>>
    BY ZenonT(30), <2>1, AddBoth DEF a
  <2> QED
    BY ZenonT(30), <2>2 DEF a
<1>10. more = Append(visit[s].path, Len(g.edges) + 1) /\ more \in Seq(Nat)
  <2>1. Len(g.edges) + 1 \in Nat
    BY <1>3, FullGraphLens
  <2> QED
    BY <1>4, <1>8, <2>1, AppendIs
<1> HIDE DEF h, more
<1>11. KeepsAndHas(h, f, more)
  BY <1>3, <1>4, <1>5, <1>6, <1>7, <1>9, <1>10, PathGrows
<1>12. Keeps(h, dag)
  BY <1>3, <1>9, KeepsOn
<1>13. /\ new \in Nat /\ Nodes(g) = 0..new - 1 /\ Nodes(h) = 0..new
       /\ new \in Nodes(h) /\ Nodes(g) \subseteq Nodes(h)
  <2>1. new \in Nat /\ Nodes(g) = 0..new - 1 /\ Nodes(h) = 0..Len(h.nodes) - 1
    BY <1>3, <1>9, FullGraphLens
  <2> HIDE DEF new
  <2>2. Len(h.nodes) - 1 = new
    BY <1>9, <2>1
  <2> QED
    BY <2>1, <2>2
<1>14. /\ \A i \in Nodes(h) : i \in DOMAIN rows' /\ rows'[i] = NodeAt(h, i)
       /\ ~failed => DOMAIN rows' = Nodes(h)
  <2>1. \A i \in Nodes(g) : NodeAt(h, i) = NodeAt(g, i)
    BY <1>3, <1>9, KeepsNodes
  <2>2. NodeAt(h, new) = node
    BY <1>9 DEF NodeAt
  <2> HIDE DEF g, new
  <2>3. Nodes(h) = Nodes(g) \cup {new} /\ new \notin Nodes(g)
    BY <1>13
  <2>4. DOMAIN rows' = DOMAIN rows \cup {new}
        /\ \A i \in DOMAIN rows' : rows'[i] = IF i = new THEN node ELSE rows[i]
    BY <1>1 DEF RowsWith
  <2> QED
    BY <1>3, <2>1, <2>2, <2>3, <2>4 DEF RowsOf
<1>15. less \in Nat /\ h \in GraphType
  BY <1>1, <1>4, <1>9 DEF FullGraph
<1>30. w = [visit[s] EXCEPT !.dag = h, !.at = new, !.left = less, !.path = more]
  OBVIOUS
<1> HIDE DEF less, w
<1>16. /\ w \in VisitType /\ w.phase = "making" /\ w.dag = h /\ w.at = new
       /\ w.current = c /\ w.path = more /\ w.before = visit[s].before
       /\ w.options = visit[s].options
  <2> HIDE DEF new, g
  <2> QED
    BY <1>1, <1>2, <1>10, <1>13, <1>15, <1>30 DEF VisitType
<1>17. /\ visit'[s].phase = "making" /\ visit'[s].dag = h /\ visit'[s].at = new
       /\ visit'[s].current = c /\ visit'[s].path = more
       /\ visit'[s].before = visit[s].before
       /\ visit'[s].options = visit[s].options
       /\ visit' \in [Visitors -> VisitType \cup {Away}]
  <2>1. visit' = [visit EXCEPT ![s] = w]
    BY <1>1 DEF w, less, h, more
  <2> HIDE DEF new, c
  <2> QED
    BY <2>1, <1>2, <1>16
<1>18. Nodes(g) \subseteq Nodes(h) /\ (~torn => c \in Nodes(f))
  BY <1>1, <1>2, <1>3, <1>13 DEF PlaceFollows, Pathing
<1>19. ~torn => c \in Nodes(h)
  <2>1. ~torn => c \in Nodes(g)
    BY <1>1, Stands
  <2> QED
    BY <2>1, <1>18
<1> HIDE DEF new, node, grown
<1>21. NotebookTypeOK'
  BY <1>1, <1>2, <1>17 DEF NotebookTypeOK
<1>22. FilesFollow(s)'
  BY <1>1, <1>3, <1>9, <1>12, <1>17, FilesDiffer DEF FilesFollow, Opening, Works
<1>23. RowsFollow(s)'
  BY <1>1, <1>14, <1>17 DEF RowsFollow, Newest, RowsOf
<1>24. ThreadsFollow(s)'
  BY <1>1, <1>2, <1>17 DEF ThreadsFollow, Home
<1>25. PlaceFollows(s)'
  BY <1>1, <1>13, <1>17, <1>18, <1>19 DEF PlaceFollows, Pathing
<1>26. PathFollows(s)'
  BY <1>1, <1>5, <1>11, <1>17 DEF PathFollows, Pathing, Works
<1> QED
  BY <1>21, <1>22, <1>23, <1>24, <1>25, <1>26 DEF NotebookInv

\* The last node of the path goes, with its edge and its row.
LEMMA Undo_Inv ==
    ASSUME NEW s \in Visitors, Visitors = {s}, NotebookInv, Undo(s)
    PROVE  NotebookInv'
<1> DEFINE g == visit[s].dag
           f == visit[s].before[1]
           path == visit[s].path
           h == Without(g, Last(path))
           less == Front(path)
           w == [visit[s] EXCEPT !.dag = h, !.path = less]
<1>1. /\ visit[s].phase = "undoing" /\ path # <<>>
      /\ rows' = RowsWithout(g, Last(path))
      /\ visit' = [visit EXCEPT ![s] = w]
      /\ UNCHANGED <<dag, current_node, failed, torn>>
  BY DEF Undo, Undoing
<1>2. /\ visit \in [Visitors -> VisitType \cup {Away}] /\ visit[s] \in VisitType
      /\ NotebookTypeOK /\ ThreadsFollow(s) /\ PlaceFollows(s) /\ PathFollows(s)
  BY <1>1, AtPhase
<1>3. /\ Works(s) /\ g \in FullGraph /\ dag \in FullGraph /\ Keeps(g, dag)
      /\ RowsOf(g) /\ (~failed => DOMAIN rows = Nodes(g))
  BY <1>1, Stands
<1>4. path \in Seq(Nat)
  BY <1>2 DEF VisitType
<1>5. /\ f \in FullGraph /\ visit[s].options \in Seq(PathsIn(f, NotRoot))
      /\ visit[s].before \in FullGraph \X {visit[s].current} /\ Keeps(f, dag)
      /\ KeepsAndHas(g, f, path)
  BY <1>1, <1>2, <1>3 DEF PathFollows, Pathing
<1>6. /\ Last(path) = Len(g.edges) /\ Len(g.edges) > 0
      /\ g.edges[Last(path)][2] = Len(g.nodes) - 1
      /\ h \in FullGraph /\ Keeps(g, h) /\ Keeps(h, f)
      /\ Len(h.nodes) = Len(g.nodes) - 1
      /\ less \in Seq(Nat) /\ KeepsAndHas(h, f, less)
  <2> HIDE DEF g, f, path
  <2> QED
    BY <1>1, <1>3, <1>4, <1>5, PathShrinks
<1>7. rows' = Restrict(rows, DOMAIN rows \ {Len(g.nodes) - 1})
  <2>1. Last(path) \in DOMAIN g.edges
    BY <1>3, <1>6, FullGraphLens
  <2> QED
    BY <1>1, <1>6, <2>1 DEF RowsWithout
<1> HIDE DEF h, less
<1>8. Nodes(h) = Nodes(g) \ {Len(g.nodes) - 1}
  BY SMTT(30), <1>3, <1>6, FullGraphLens
<1>9. /\ \A i \in Nodes(h) : i \in DOMAIN rows' /\ rows'[i] = NodeAt(h, i)
      /\ ~failed => DOMAIN rows' = Nodes(h)
  <2> DEFINE x == Len(g.nodes) - 1
  <2>1. \A i \in Nodes(h) : NodeAt(g, i) = NodeAt(h, i)
    BY <1>3, <1>6, KeepsNodes
  <2>2. Nodes(h) = Nodes(g) \ {x} /\ rows' = Restrict(rows, DOMAIN rows \ {x})
    BY <1>7, <1>8
  <2> HIDE DEF x, g
  <2>3. DOMAIN rows' = DOMAIN rows \ {x} /\ \A i \in DOMAIN rows' : rows'[i] = rows[i]
    BY <2>2 DEF Restrict
  <2> QED
    BY <1>3, <2>1, <2>2, <2>3 DEF RowsOf
<1>10. Keeps(h, dag) /\ h \in GraphType
  BY <1>3, <1>5, <1>6, KeepsOn DEF FullGraph
<1>11. /\ w \in VisitType /\ w.phase = "undoing" /\ w.dag = h /\ w.path = less
       /\ w.current = visit[s].current /\ w.before = visit[s].before
       /\ w.options = visit[s].options
  BY <1>1, <1>2, <1>6, <1>10 DEF VisitType
<1> HIDE DEF w
<1>12. /\ visit'[s].phase = "undoing" /\ visit'[s].dag = h /\ visit'[s].path = less
       /\ visit'[s].current = visit[s].current /\ visit'[s].before = visit[s].before
       /\ visit'[s].options = visit[s].options
       /\ visit' \in [Visitors -> VisitType \cup {Away}]
  BY <1>1, <1>2, <1>11
<1>13. ~torn => visit[s].current \in Nodes(f) /\ visit[s].current \in Nodes(h)
  <2>1. ~torn => visit[s].current \in Nodes(f)
    BY <1>1, <1>2, <1>3 DEF PlaceFollows, Pathing
  <2>2. Nodes(f) \subseteq Nodes(h)
    BY <1>5, <1>6, KeepsNodes
  <2> QED
    BY <2>1, <2>2
<1>21. NotebookTypeOK'
  BY <1>1, <1>2, <1>12 DEF NotebookTypeOK
<1>22. FilesFollow(s)'
  BY <1>1, <1>3, <1>6, <1>10, <1>12, FilesDiffer DEF FilesFollow, Opening, Works
<1>23. RowsFollow(s)'
  BY <1>1, <1>9, <1>12 DEF RowsFollow, Newest, RowsOf
<1>24. ThreadsFollow(s)'
  BY <1>1, <1>2, <1>12 DEF ThreadsFollow, Home
<1>25. PlaceFollows(s)'
  BY <1>1, <1>12, <1>13 DEF PlaceFollows, Pathing
<1>26. PathFollows(s)'
  BY <1>1, <1>5, <1>6, <1>12 DEF PathFollows, Pathing, Works
<1> QED
  BY <1>21, <1>22, <1>23, <1>24, <1>25, <1>26 DEF NotebookInv

\* A request that only goes on to save what it has.
LEMMA Answer_Inv ==
    ASSUME NEW s \in Visitors, Visitors = {s}, NotebookInv, Answer(s)
    PROVE  NotebookInv'
<1> DEFINE w == [visit[s] EXCEPT !.phase = "saving"]
<1>1. /\ visit[s].phase = "asking"
      /\ visit' = [visit EXCEPT ![s] = w]
      /\ UNCHANGED <<dag, rows, current_node, failed, torn>>
  BY DEF Answer, Asking
<1>2. /\ visit \in [Visitors -> VisitType \cup {Away}] /\ visit[s] \in VisitType
      /\ NotebookTypeOK /\ ThreadsFollow(s) /\ PlaceFollows(s) /\ PathFollows(s)
  BY <1>1, AtPhase
<1>3. /\ Works(s) /\ visit[s].dag \in FullGraph /\ dag \in FullGraph
      /\ Keeps(visit[s].dag, dag)
      /\ RowsOf(visit[s].dag) /\ (~failed => DOMAIN rows = Nodes(visit[s].dag))
      /\ ~torn => visit[s].current \in Nodes(visit[s].dag)
  BY <1>1, Stands
<1>4. /\ w \in VisitType /\ w.phase = "saving" /\ w.dag = visit[s].dag
      /\ w.current = visit[s].current /\ w.options = visit[s].options
  BY <1>2 DEF VisitType, VisitPhases
<1> HIDE DEF w
<1>5. /\ visit'[s].phase = "saving" /\ visit'[s].dag = visit[s].dag
      /\ visit'[s].current = visit[s].current /\ visit'[s].options = visit[s].options
      /\ visit' \in [Visitors -> VisitType \cup {Away}]
  BY <1>1, <1>2, <1>4
<1>11. NotebookTypeOK'
  BY <1>1, <1>2, <1>5 DEF NotebookTypeOK
<1>12. FilesFollow(s)'
  BY <1>1, <1>3, <1>5, FilesDiffer DEF FilesFollow, Opening, Works
<1>13. RowsFollow(s)'
  BY <1>1, <1>3, <1>5 DEF RowsFollow, Newest, RowsOf
<1>14. ThreadsFollow(s)'
  BY <1>1, <1>2, <1>5 DEF ThreadsFollow, Home
<1>15. PlaceFollows(s)'
  BY <1>1, <1>3, <1>5 DEF PlaceFollows, Pathing
<1>16. PathFollows(s)'
  BY <1>1, <1>2, <1>3, <1>5 DEF PathFollows, Pathing
<1> QED
  BY <1>11, <1>12, <1>13, <1>14, <1>15, <1>16 DEF NotebookInv

\* Empties the file of the thread.
LEMMA OpenThreadFile_Inv ==
    ASSUME NEW s \in Visitors, Visitors = {s}, NotebookInv, OpenThreadFile(s)
    PROVE  NotebookInv'
<1> DEFINE w == [visit[s] EXCEPT !.phase = "writing"]
<1>1. /\ visit[s].phase = "saving"
      /\ current_node' = [current_node EXCEPT ![visit[s].thread] = CutFile]
      /\ visit' = [visit EXCEPT ![s] = w]
      /\ UNCHANGED <<dag, rows, failed, torn>>
  BY DEF OpenThreadFile
<1>2. /\ visit \in [Visitors -> VisitType \cup {Away}] /\ visit[s] \in VisitType
      /\ NotebookTypeOK /\ ThreadsFollow(s) /\ PlaceFollows(s) /\ PathFollows(s)
  BY <1>1, AtPhase
<1>3. /\ Works(s) /\ visit[s].dag \in FullGraph /\ dag \in FullGraph
      /\ Keeps(visit[s].dag, dag)
      /\ RowsOf(visit[s].dag) /\ (~failed => DOMAIN rows = Nodes(visit[s].dag))
      /\ ~torn => visit[s].current \in Nodes(visit[s].dag)
  BY <1>1, Stands
<1>4. /\ w \in VisitType /\ w.phase = "writing" /\ w.dag = visit[s].dag
      /\ w.current = visit[s].current /\ w.options = visit[s].options
  BY <1>2 DEF VisitType, VisitPhases
<1> HIDE DEF w
<1>5. /\ visit'[s].phase = "writing" /\ visit'[s].dag = visit[s].dag
      /\ visit'[s].current = visit[s].current /\ visit'[s].options = visit[s].options
      /\ visit' \in [Visitors -> VisitType \cup {Away}]
  BY <1>1, <1>2, <1>4
<1>11. NotebookTypeOK'
  BY <1>1, <1>2, <1>5 DEF NotebookTypeOK
<1>12. FilesFollow(s)'
  BY <1>1, <1>3, <1>5, FilesDiffer DEF FilesFollow, Opening, Works
<1>13. RowsFollow(s)'
  BY <1>1, <1>3, <1>5 DEF RowsFollow, Newest, RowsOf
<1>14. ThreadsFollow(s)'
  BY <1>1, <1>2, <1>3, <1>5 DEF ThreadsFollow, Home, NotebookTypeOK, Whole
<1>15. PlaceFollows(s)'
  BY <1>1, <1>3, <1>5 DEF PlaceFollows, Pathing
<1>16. PathFollows(s)'
  BY <1>1, <1>2, <1>3, <1>5 DEF PathFollows, Pathing
<1> QED
  BY <1>11, <1>12, <1>13, <1>14, <1>15, <1>16 DEF NotebookInv

\* Writes the place.
LEMMA WriteThreadFile_Inv ==
    ASSUME NEW s \in Visitors, Visitors = {s}, NotebookInv, WriteThreadFile(s)
    PROVE  NotebookInv'
<1> DEFINE w == [visit[s] EXCEPT !.phase = "saved"]
<1>1. /\ visit[s].phase = "writing"
      /\ current_node' = [current_node EXCEPT ![visit[s].thread] = visit[s].current]
      /\ visit' = [visit EXCEPT ![s] = w]
      /\ UNCHANGED <<dag, rows, failed, torn>>
  BY DEF WriteThreadFile
<1>2. /\ visit \in [Visitors -> VisitType \cup {Away}] /\ visit[s] \in VisitType
      /\ NotebookTypeOK /\ ThreadsFollow(s) /\ PlaceFollows(s) /\ PathFollows(s)
  BY <1>1, AtPhase
<1>3. /\ Works(s) /\ visit[s].dag \in FullGraph /\ dag \in FullGraph
      /\ Keeps(visit[s].dag, dag)
      /\ RowsOf(visit[s].dag) /\ (~failed => DOMAIN rows = Nodes(visit[s].dag))
      /\ ~torn => visit[s].current \in Nodes(visit[s].dag)
  BY <1>1, Stands
<1>4. /\ w \in VisitType /\ w.phase = "saved" /\ w.dag = visit[s].dag
      /\ w.current = visit[s].current /\ w.options = visit[s].options
      /\ visit[s].current \in Nat
  BY <1>2 DEF VisitType, VisitPhases
<1> HIDE DEF w
<1>5. /\ visit'[s].phase = "saved" /\ visit'[s].dag = visit[s].dag
      /\ visit'[s].current = visit[s].current /\ visit'[s].options = visit[s].options
      /\ visit' \in [Visitors -> VisitType \cup {Away}]
  BY <1>1, <1>2, <1>4
<1>6. Nodes(dag) \subseteq Nodes(visit[s].dag)
  BY <1>3, KeepsNodes
<1>11. NotebookTypeOK'
  BY <1>1, <1>2, <1>4, <1>5 DEF NotebookTypeOK
<1>12. FilesFollow(s)'
  BY <1>1, <1>3, <1>5, FilesDiffer DEF FilesFollow, Opening, Works
<1>13. RowsFollow(s)'
  BY <1>1, <1>3, <1>5 DEF RowsFollow, Newest, RowsOf
<1>14. ThreadsFollow(s)'
  <2>1. current_node \in [ThreadIds -> Nat \cup {NoFile, CutFile}]
    BY <1>2 DEF NotebookTypeOK
  <2>2. \A t \in ThreadIds : current_node'[t] = current_node[t] \/ current_node'[t] = visit[s].current
    BY <1>1, <2>1
  <2>3. ~torn => \A t \in ThreadIds : Whole(current_node[t]) => current_node[t] \in Nodes(dag)
    BY <1>1, <1>2 DEF ThreadsFollow, Home
  <2> QED
    BY <1>1, <1>3, <1>5, <1>6, <2>2, <2>3 DEF ThreadsFollow, Home
<1>15. PlaceFollows(s)'
  BY <1>1, <1>3, <1>5 DEF PlaceFollows, Pathing
<1>16. PathFollows(s)'
  BY <1>1, <1>2, <1>3, <1>5 DEF PathFollows, Pathing
<1> QED
  BY <1>11, <1>12, <1>13, <1>14, <1>15, <1>16 DEF NotebookInv

\* Empties the file of the graph.
LEMMA OpenGraph_Inv ==
    ASSUME NEW s \in Visitors, Visitors = {s}, NotebookInv, OpenGraph(s)
    PROVE  NotebookInv'
<1> DEFINE w == [visit[s] EXCEPT !.phase = "ending"]
<1>1. /\ visit[s].phase = "saved"
      /\ dag' = CutFile
      /\ visit' = [visit EXCEPT ![s] = w]
      /\ UNCHANGED <<rows, current_node, failed, torn>>
  BY DEF OpenGraph
<1>2. /\ visit \in [Visitors -> VisitType \cup {Away}] /\ visit[s] \in VisitType
      /\ NotebookTypeOK /\ ThreadsFollow(s) /\ PlaceFollows(s) /\ PathFollows(s)
  BY <1>1, AtPhase
<1>3. /\ Works(s) /\ visit[s].dag \in FullGraph
      /\ RowsOf(visit[s].dag) /\ (~failed => DOMAIN rows = Nodes(visit[s].dag))
      /\ ~torn => visit[s].current \in Nodes(visit[s].dag)
  BY <1>1, Stands
<1>4. /\ w \in VisitType /\ w.phase = "ending" /\ w.dag = visit[s].dag
      /\ w.current = visit[s].current /\ w.options = visit[s].options
  BY <1>2 DEF VisitType, VisitPhases
<1> HIDE DEF w
<1>5. /\ visit'[s].phase = "ending" /\ visit'[s].dag = visit[s].dag
      /\ visit'[s].current = visit[s].current /\ visit'[s].options = visit[s].options
      /\ visit' \in [Visitors -> VisitType \cup {Away}]
  BY <1>1, <1>2, <1>4
<1>11. NotebookTypeOK'
  BY <1>1, <1>2, <1>5 DEF NotebookTypeOK
<1>12. FilesFollow(s)'
  BY <1>1, <1>3, <1>5, FilesDiffer DEF FilesFollow, Opening, Works
<1>13. RowsFollow(s)'
  BY <1>1, <1>3, <1>5 DEF RowsFollow, Newest, RowsOf
<1>14. ThreadsFollow(s)'
  BY <1>1, <1>2, <1>5 DEF ThreadsFollow, Home
<1>15. PlaceFollows(s)'
  BY <1>1, <1>3, <1>5 DEF PlaceFollows, Pathing
<1>16. PathFollows(s)'
  BY <1>1, <1>2, <1>3, <1>5 DEF PathFollows, Pathing
<1> QED
  BY <1>11, <1>12, <1>13, <1>14, <1>15, <1>16 DEF NotebookInv

\* Writes the copy.
LEMMA WriteGraph_Inv ==
    ASSUME NEW s \in Visitors, Visitors = {s}, NotebookInv, WriteGraph(s)
    PROVE  NotebookInv'
<1>1. /\ visit[s].phase = "ending"
      /\ dag' = visit[s].dag
      /\ visit' = [visit EXCEPT ![s] = Away]
      /\ UNCHANGED <<rows, current_node, failed, torn>>
  BY DEF WriteGraph
<1>2. /\ visit \in [Visitors -> VisitType \cup {Away}] /\ NotebookTypeOK
      /\ FilesFollow(s) /\ RowsFollow(s) /\ ThreadsFollow(s)
  BY <1>1, AtPhase
<1>3. visit[s].dag \in FullGraph
  BY <1>1, <1>2 DEF FilesFollow, Works
<1>4. visit'[s].phase = "idle" /\ visit' \in [Visitors -> VisitType \cup {Away}]
  BY <1>1, <1>2 DEF Away
<1>11. NotebookTypeOK'
  BY <1>1, <1>2, <1>3, <1>4 DEF NotebookTypeOK
<1>12. FilesFollow(s)'
  BY <1>4 DEF FilesFollow, Opening, Works
<1>13. RowsFollow(s)'
  BY <1>1, <1>2, <1>4 DEF RowsFollow, Newest, RowsOf
<1>14. ThreadsFollow(s)'
  BY <1>1, <1>2, <1>4 DEF ThreadsFollow, Home
<1>15. PlaceFollows(s)' /\ PathFollows(s)'
  BY <1>4 DEF PlaceFollows, PathFollows, Works, Pathing
<1> QED
  BY <1>11, <1>12, <1>13, <1>14, <1>15 DEF NotebookInv

\* The request ends where it is.
LEMMA FailVisit_Inv ==
    ASSUME NEW s \in Visitors, Visitors = {s}, NotebookInv, FailVisit(s)
    PROVE  NotebookInv'
<1> DEFINE writes == visit[s].phase \in {"founding", "beginning", "writing", "saved", "ending"}
<1>1. /\ visit[s] # Away /\ visit' = [visit EXCEPT ![s] = Away]
      /\ failed' = TRUE /\ torn' = (torn \/ writes)
      /\ UNCHANGED <<dag, rows, current_node>>
  BY DEF FailVisit
<1>2. /\ visit \in [Visitors -> VisitType \cup {Away}] /\ NotebookTypeOK
      /\ FilesFollow(s) /\ RowsFollow(s) /\ ThreadsFollow(s)
  BY DEF NotebookInv, NotebookTypeOK
<1>3. visit[s].phase \in VisitPhases
  BY <1>1, <1>2 DEF VisitType
<1>4. visit'[s].phase = "idle" /\ visit' \in [Visitors -> VisitType \cup {Away}]
  BY <1>1, <1>2 DEF Away
<1>5. torn' \in BOOLEAN
  BY <1>1
<1>11. NotebookTypeOK'
  BY <1>1, <1>2, <1>4, <1>5 DEF NotebookTypeOK
<1>12. FilesFollow(s)'
  BY <1>4 DEF FilesFollow, Opening, Works
<1>13. RowsFollow(s)'
  <2> SUFFICES ASSUME dag \in FullGraph PROVE RowsOf(dag)
    BY <1>1, <1>4 DEF RowsFollow, Newest, RowsOf
  <2>1. CASE Works(s)
    <3>1. visit[s].dag \in FullGraph /\ Keeps(visit[s].dag, dag) /\ RowsOf(visit[s].dag)
      BY <1>2, <2>1 DEF FilesFollow, RowsFollow, Newest, Works
    <3> QED
      BY <3>1, KeepsNodes
  <2>2. CASE Opening(s)
    BY <1>2, <2>2 DEF FilesFollow, RowsFollow, Newest, Opening
  <2>3. CASE visit[s].phase = "founding"
    BY <1>2, <2>3, FilesDiffer DEF FilesFollow
  <2> QED
    BY <1>3, <2>1, <2>2, <2>3 DEF Works, Opening, VisitPhases
<1>14. ThreadsFollow(s)'
  <2>1. CASE writes
    BY <1>1, <2>1 DEF ThreadsFollow
  <2>2. CASE ~writes
    <3>1. torn' => torn
      BY <1>1, <2>2
    <3>2. torn => torn'
      BY <1>1
    <3> QED
      BY <1>1, <1>2, <1>4, <2>2, <3>1, <3>2 DEF ThreadsFollow, Home
  <2> QED
    BY <2>1, <2>2
<1>15. PlaceFollows(s)' /\ PathFollows(s)'
  BY <1>4 DEF PlaceFollows, PathFollows, Works, Pathing
<1> QED
  BY <1>11, <1>12, <1>13, <1>14, <1>15 DEF NotebookInv

(* What follows from the invariant *)
\* Every step keeps the invariant ...
LEMMA NotebookNext_Inv ==
    ASSUME NEW s, Visitors = {s}, made \in Nat, NotebookInv, NotebookNext
    PROVE  NotebookInv' /\ made' \in Nat
<1>1. PICK r \in Visitors :
        \/ \E t \in ThreadIds : BeginVisit(r, t)
        \/ Found(r) \/ OpenNewThread(r) \/ WriteNewThread(r)
        \/ \E goals \in SUBSET DOMAIN rows : Search(r, goals)
        \/ Asking(r) /\ \E i \in DOMAIN visit[r].options : ChoosePath(r, i)
        \/ OutOfRange(r) \/ Told(r) \/ JumpToRoot(r)
        \/ Asking(r) /\ \E b \in Nodes(visit[r].dag) : ConnectToNode(r, b)
        \/ \E k \in 0..MaxPath : CreateNewPath(r, k) \/ Retry(r, k)
        \/ \E kind \in {"intention", "tool"}, fails \in BOOLEAN : CreateNewNode(r, kind, fails)
        \/ WalkNewPath(r) \/ Undo(r)
        \/ Made(r) /\ \E e \in ToSet(visit[r].path) : WalkFails(r, e)
        \/ Answer(r) \/ OpenThreadFile(r) \/ WriteThreadFile(r) \/ OpenGraph(r) \/ WriteGraph(r)
        \/ FailVisit(r)
  BY DEF NotebookNext
<1>2. r = s /\ s \in Visitors
  BY <1>1
<1>3. CASE \E t \in ThreadIds : BeginVisit(s, t)
  BY <1>2, <1>3, BeginVisit_Inv DEF BeginVisit
<1>4. CASE Found(s)
  BY <1>2, <1>4, Found_Inv DEF Found
<1>5. CASE OpenNewThread(s)
  BY <1>2, <1>5, OpenNewThread_Inv DEF OpenNewThread
<1>6. CASE WriteNewThread(s)
  BY <1>2, <1>6, WriteNewThread_Inv DEF WriteNewThread
<1>7. CASE \E goals \in SUBSET DOMAIN rows : Search(s, goals)
  BY <1>2, <1>7, Search_Inv DEF Search
<1>8. CASE \E i \in DOMAIN visit[s].options : ChoosePath(s, i)
  BY <1>2, <1>8, ChoosePath_Inv DEF ChoosePath, Goes
<1>9. CASE OutOfRange(s)
  BY <1>2, <1>9, OutOfRange_Inv DEF OutOfRange, Goes
<1>10. CASE Told(s)
  BY <1>2, <1>10, Told_Inv DEF Told, Goes
<1>11. CASE JumpToRoot(s)
  BY <1>2, <1>11, JumpToRoot_Inv DEF JumpToRoot, Goes
<1>12. CASE \E b \in Nodes(visit[s].dag) : ConnectToNode(s, b)
  BY <1>2, <1>12, ConnectToNode_Inv DEF ConnectToNode, Goes
<1>13. CASE \E k \in 0..MaxPath : CreateNewPath(s, k) \/ Retry(s, k)
  <2>1. PICK k \in 0..MaxPath : CreateNewPath(s, k) \/ Retry(s, k)
    BY <1>13
  <2>2. k \in Nat /\ Making(s, k) /\ (Asking(s) \/ Undone(s))
    BY <2>1, NotebookAssumption DEF CreateNewPath, Retry
  <2>3. made' = made
    BY <2>2 DEF Making, Goes
  <2> QED
    BY <1>2, <2>2, <2>3, Making_Inv
<1>14. CASE \E kind \in {"intention", "tool"}, fails \in BOOLEAN : CreateNewNode(s, kind, fails)
  <2>1. PICK kind \in {"intention", "tool"}, fails \in BOOLEAN : CreateNewNode(s, kind, fails)
    BY <1>14
  <2>2. kind \in NodeKinds
    BY DEF NodeKinds
  <2>3. made' = made + 1
    BY <2>1 DEF CreateNewNode
  <2>4. CreateNewNode(s, kind, TRUE) \/ CreateNewNode(s, kind, FALSE)
    BY <2>1, Zenon
  <2>5. CASE CreateNewNode(s, kind, TRUE)
    <3>1. NotebookInv'
      BY <1>2, <2>5, NodeLost_Inv, Zenon
    <3> QED
      BY <2>3, <3>1
  <2>6. CASE CreateNewNode(s, kind, FALSE)
    <3>1. NotebookInv'
      BY <1>2, <2>2, <2>6, NodeMade_Inv, Zenon
    <3> QED
      BY <2>3, <3>1
  <2> QED
    BY <2>4, <2>5, <2>6
<1>15. CASE WalkNewPath(s)
  BY <1>2, <1>15, WalkNewPath_Inv DEF WalkNewPath
<1>16. CASE Undo(s)
  BY <1>2, <1>16, Undo_Inv DEF Undo
<1>17. CASE \E e \in ToSet(visit[s].path) : WalkFails(s, e)
  BY <1>2, <1>17, WalkFails_Inv DEF WalkFails
<1>18. CASE Answer(s)
  BY <1>2, <1>18, Answer_Inv DEF Answer
<1>19. CASE OpenThreadFile(s)
  BY <1>2, <1>19, OpenThreadFile_Inv DEF OpenThreadFile
<1>20. CASE WriteThreadFile(s)
  BY <1>2, <1>20, WriteThreadFile_Inv DEF WriteThreadFile
<1>21. CASE OpenGraph(s)
  BY <1>2, <1>21, OpenGraph_Inv DEF OpenGraph
<1>22. CASE WriteGraph(s)
  BY <1>2, <1>22, WriteGraph_Inv DEF WriteGraph
<1>23. CASE FailVisit(s)
  BY <1>2, <1>23, FailVisit_Inv DEF FailVisit
<1> QED
  BY <1>1, <1>2, <1>3, <1>4, <1>5, <1>6, <1>7, <1>8, <1>9, <1>10, <1>11, <1>12, <1>13,
     <1>14, <1>15, <1>16, <1>17, <1>18, <1>19, <1>20, <1>21, <1>22, <1>23

\* ... and so does none.
LEMMA NotebookStutter_Inv ==
    ASSUME NotebookInv, UNCHANGED notebookVars PROVE NotebookInv'
<1> USE DEF notebookVars
<1>1. NotebookTypeOK'
  BY DEF NotebookInv, NotebookTypeOK
<1> SUFFICES ASSUME NEW s \in Visitors
             PROVE  /\ FilesFollow(s)' /\ RowsFollow(s)' /\ ThreadsFollow(s)'
                    /\ PlaceFollows(s)' /\ PathFollows(s)'
  BY <1>1 DEF NotebookInv
<1>2. FilesFollow(s)'
  BY DEF NotebookInv, FilesFollow, Opening, Works
<1>3. RowsFollow(s)'
  BY DEF NotebookInv, RowsFollow, Newest, RowsOf
<1>4. ThreadsFollow(s)'
  BY DEF NotebookInv, ThreadsFollow, Home
<1>5. PlaceFollows(s)'
  BY DEF NotebookInv, PlaceFollows, Works, Pathing
<1>6. PathFollows(s)'
  BY DEF NotebookInv, PathFollows, Works, Pathing
<1> QED
  BY <1>2, <1>3, <1>4, <1>5, <1>6

\* The invariant holds as long as one request after another comes: the handler of
\* src/plugins/apps/nb-one/src/lib.rs with nobody else between its reads and writes.
THEOREM Notebook_Inv ==
    ASSUME NEW s, Visitors = {s}
    PROVE  NotebookSpec => [](NotebookInv /\ made \in Nat)
<1>1. NotebookInit => NotebookInv /\ made \in Nat
  <2>1. NotebookInit => made \in Nat
    BY DEF NotebookInit
  <2> QED
    BY <2>1, NotebookInit_Inv
<1>2. NotebookInv /\ made \in Nat /\ [NotebookNext]_notebookVars
        => NotebookInv' /\ (made \in Nat)'
  <2> SUFFICES ASSUME NotebookInv, made \in Nat, [NotebookNext]_notebookVars
               PROVE  NotebookInv' /\ (made \in Nat)'
    OBVIOUS
  <2>1. CASE NotebookNext
    BY <2>1, NotebookNext_Inv
  <2>2. CASE UNCHANGED notebookVars
    BY <2>2, NotebookStutter_Inv DEF notebookVars
  <2> QED
    BY <2>1, <2>2
<1> QED
  BY <1>1, <1>2, PTL DEF NotebookSpec

\* What the properties call a request at work.
LEMMA WorkOf ==
    ASSUME NotebookInv, NEW s \in Visitors
    PROVE  /\ s \in AtWork <=> Works(s)
           /\ visit[s].phase \in VisitPhases \cup {"idle"}
<1>1. visit[s] \in VisitType \cup {Away}
  BY DEF NotebookInv, NotebookTypeOK
<1>2. visit[s] # Away <=> visit[s].phase # "idle"
  BY <1>1 DEF VisitType, VisitPhases, Away
<1>3. visit[s].phase \in VisitPhases \cup {"idle"}
  BY <1>1 DEF VisitType, Away
<1> QED
  BY <1>2, <1>3 DEF AtWork, Works

\* The row of every saved node describes it.
THEOREM Notebook_RowsTellNodes ==
    ASSUME NEW s, Visitors = {s} PROVE NotebookSpec => []RowsTellNodes
<1>1. NotebookInv => RowsTellNodes
  <2> SUFFICES ASSUME NotebookInv, Whole(dag) PROVE
           /\ RowsOf(dag)
           /\ NobodyVisits /\ ~failed => DOMAIN rows = Nodes(dag)
    BY DEF RowsTellNodes, RowsOf
  <2>1. s \in Visitors /\ FilesFollow(s) /\ RowsFollow(s) /\ dag \in FullGraph
    BY DEF NotebookInv, NotebookTypeOK, Whole
  <2>2. NobodyVisits /\ ~failed => DOMAIN rows = Nodes(dag)
    BY <2>1 DEF NobodyVisits, Away, RowsFollow, Newest
  <2>3. CASE Works(s)
    <3>1. visit[s].dag \in FullGraph /\ Keeps(visit[s].dag, dag) /\ RowsOf(visit[s].dag)
      BY <2>1, <2>3 DEF FilesFollow, RowsFollow, Newest, Works
    <3> QED
      BY <2>1, <2>2, <3>1, KeepsNodes
  <2>4. CASE visit[s].phase \in {"idle", "founding"}
    BY <2>1, <2>2, <2>4 DEF RowsFollow, Newest
  <2>5. CASE Opening(s)
    BY <2>1, <2>2, <2>5 DEF FilesFollow, RowsFollow, Newest, Opening
  <2> QED
    BY <2>1, <2>3, <2>4, <2>5, WorkOf DEF Works, Opening, VisitPhases
<1> QED
  BY <1>1, Notebook_Inv, PTL

\* A path that could not be walked leaves no trace.
THEOREM Notebook_UndoneWhole ==
    ASSUME NEW s, Visitors = {s} PROVE NotebookSpec => []UndoneWhole
<1>1. NotebookInv => UndoneWhole
  BY UndoneIsBefore DEF UndoneWhole
<1> QED
  BY <1>1, Notebook_Inv, PTL

\* What a request is going to save keeps what is saved.
THEOREM Notebook_CopyExtends ==
    ASSUME NEW s, Visitors = {s} PROVE NotebookSpec => []CopyExtends
<1>1. NotebookInv => CopyExtends
  <2> SUFFICES ASSUME NotebookInv, Whole(dag), NEW r \in AtWork
               PROVE  /\ IsPrefix(dag.nodes, visit[r].dag.nodes)
                      /\ IsPrefix(dag.edges, visit[r].dag.edges)
    BY DEF CopyExtends
  <2>1. r \in Visitors /\ FilesFollow(r) /\ dag \in FullGraph
    BY DEF NotebookInv, NotebookTypeOK, Whole, AtWork
  <2>2. visit[r].dag \in FullGraph /\ Keeps(visit[r].dag, dag)
    BY <2>1, WorkOf DEF FilesFollow
  <2> QED
    BY <2>1, <2>2, KeepsPrefix
<1> QED
  BY <1>1, Notebook_Inv, PTL

\* A thread stands at a node of the graph that the next request loads with it.
THEOREM Notebook_ThreadsStandInGraph ==
    ASSUME NEW s, Visitors = {s} PROVE NotebookSpec => []ThreadsStandInGraph
<1>1. NotebookInv => ThreadsStandInGraph
  <2> SUFFICES ASSUME NotebookInv, ~torn PROVE
        /\ Whole(dag) /\ (\A r \in AtWork : visit[r].phase # "saved") =>
               \A t \in ThreadIds : Whole(current_node[t]) => current_node[t] \in Nodes(dag)
        /\ \A r \in AtWork : visit[r].current \in Nodes(visit[r].dag)
    BY DEF ThreadsStandInGraph
  <2>1. s \in Visitors /\ FilesFollow(s) /\ ThreadsFollow(s)
    BY DEF NotebookInv
  <2>2. \A r \in AtWork : visit[r].current \in Nodes(visit[r].dag)
    BY WorkOf DEF NotebookInv, PlaceFollows, AtWork
  <2>3. ASSUME Whole(dag), \A r \in AtWork : visit[r].phase # "saved", NEW t \in ThreadIds,
               Whole(current_node[t])
        PROVE  current_node[t] \in Nodes(dag)
    <3>1. dag \in FullGraph
      BY <2>3 DEF NotebookInv, NotebookTypeOK, Whole
    <3>2. visit[s].phase # "saved"
      BY <2>1, <2>3, WorkOf DEF Works
    <3>3. visit[s].phase # "ending"
      BY <2>1, <3>1, FilesDiffer DEF FilesFollow, Works
    <3> QED
      BY <2>1, <2>3, <3>2, <3>3 DEF ThreadsFollow, Home
  <2> QED
    BY <2>2, <2>3
<1> QED
  BY <1>1, Notebook_Inv, PTL

(* Whatever is made can be reached *)
\* No edge leads out of C.
Closed(g, C) == \A e \in 1..Len(g.edges) : g.edges[e][1] \in C => g.edges[e][2] \in C

\* No edge closes a circle.
Acyclic(g) == \A e \in 1..Len(g.edges) : g.edges[e][1] \notin Below(g, g.edges[e][2])
\* Every node but the first two lies below the top.
Reached(g) == Nodes(g) \ {0, 1} \subseteq Below(g, Top)

\* Only the edges of the first graph touch its first two nodes.
Rooted(g) ==
    /\ Len(g.edges) >= 2 /\ g.edges[1] = <<0, 1>> /\ g.edges[2] = <<1, 2>>
    /\ \A e \in 3..Len(g.edges) : g.edges[e][1] \notin {0, 1} /\ g.edges[e][2] \notin {0, 1}

\* What the properties say of a graph.
Sound(g) == Acyclic(g) /\ Reached(g) /\ Rooted(g)

\* One step onward adds what the edges lead to.
LEMMA OnwardIs ==
    ASSUME NEW g \in FullGraph, NEW S
    PROVE  /\ S \subseteq Onward(g, S)
           /\ \A C : Closed(g, C) /\ S \subseteq C => Onward(g, S) \subseteq C
           /\ Onward(g, S) = S <=> Closed(g, S)
<1>1. ToSet(g.edges) = { g.edges[e] : e \in 1..Len(g.edges) }
  BY FullGraphLens DEF ToSet
<1>2. \A x : x \in Onward(g, S) <=>
        x \in S \/ \E e \in 1..Len(g.edges) : g.edges[e][1] \in S /\ x = g.edges[e][2]
  BY <1>1 DEF Onward
<1>3. S \subseteq Onward(g, S)
  BY <1>2
<1>4. \A C : Closed(g, C) /\ S \subseteq C => Onward(g, S) \subseteq C
  BY <1>2 DEF Closed
<1>5. Onward(g, S) = S => Closed(g, S)
  BY <1>2 DEF Closed
<1> QED
  BY <1>3, <1>4, <1>5

\* What lies below is in every closed set that holds the beginning.
LEMMA BelowLeast ==
    ASSUME NEW g \in FullGraph, NEW a \in Nat, NEW C, a \in C, Closed(g, C)
    PROVE  Below(g, a) \subseteq C
<1> DEFINE k == Len(g.nodes)
<1>1. k \in Nat /\ g \in GraphType
  BY FullGraphLens, FullGraphParts
<1>2. PICK f : /\ f[0] = {a}
               /\ \A n \in 0..k - 1 : f[n + 1] = Onward(g, f[n])
               /\ Below(g, a) = f[k]
  BY <1>1, BelowSteps
<1> DEFINE P == { n \in Nat : n <= k => f[n] \subseteq C }
<1>3. 0 \in P
  BY <1>2
<1>4. ASSUME NEW n \in Nat, n \in P PROVE n + 1 \in P
  <2> SUFFICES ASSUME n + 1 <= k PROVE f[n + 1] \subseteq C
    OBVIOUS
  <2>1. f[n] \subseteq C /\ n \in 0..k - 1
    BY <1>1, <1>4
  <2>2. Onward(g, f[n]) \subseteq C
    BY <2>1, OnwardIs
  <2> QED
    BY <1>2, <2>1, <2>2
<1>5. Nat \subseteq P
  <2> HIDE DEF P
  <2> QED
    BY <1>3, <1>4, Numbers
<1> QED
  BY <1>1, <1>2, <1>5

\* The nodes are closed.
LEMMA NodesClosed ==
    ASSUME NEW g \in FullGraph PROVE Closed(g, Nodes(g))
BY FullGraphEnds, FullGraphLens DEF Closed

\* What can be reached is reached after as many steps as there are nodes.
LEMMA BelowClosed ==
    ASSUME NEW g \in FullGraph, NEW a \in Nodes(g)
    PROVE  /\ Closed(g, Below(g, a))
           /\ Below(g, a) \subseteq Nodes(g)
           /\ a \in Below(g, a)
<1> DEFINE k == Len(g.nodes)
           N == Nodes(g)
<1>1. k \in Nat /\ g \in GraphType /\ a \in Nat /\ N = 0..k - 1
  BY FullGraphLens, FullGraphParts
<1>2. PICK f : /\ f[0] = {a}
               /\ \A n \in 0..k - 1 : f[n + 1] = Onward(g, f[n])
               /\ Below(g, a) = f[k]
  BY <1>1, BelowSteps
<1>3. IsFiniteSet(N) /\ Cardinality(N) = k
  <2>1. k - 1 \in Int /\ 0 \in Int
    BY <1>1
  <2>2. IsFiniteSet(0..k - 1) /\ Cardinality(0..k - 1) = IF 0 > k - 1 THEN 0 ELSE (k - 1) - 0 + 1
    BY <2>1, FS_Interval
  <2> QED
    BY <1>1, <2>2
<1> HIDE DEF k, N
<1> DEFINE Big(S) == Cardinality(S)
           P == { n \in Nat : n <= k => f[n] \subseteq N /\ (Big(f[n]) >= n + 1 \/ Closed(g, f[n])) }
<1>4. 0 \in P
  <2>1. Cardinality({a}) = 1
    BY FS_Singleton
  <2>2. {a} \subseteq N
    BY DEF N
  <2> QED
    BY <1>2, <2>1, <2>2
<1>5. ASSUME NEW n \in Nat, n \in P PROVE n + 1 \in P
  <2> SUFFICES ASSUME n + 1 <= k
               PROVE  f[n + 1] \subseteq N /\ (Big(f[n + 1]) >= (n + 1) + 1 \/ Closed(g, f[n + 1]))
    OBVIOUS
  <2>1. f[n] \subseteq N /\ (Big(f[n]) >= n + 1 \/ Closed(g, f[n])) /\ n \in 0..k - 1
    BY <1>1, <1>5
  <2> DEFINE S == f[n]
             T == f[n + 1]
  <2>2. T = Onward(g, S)
    BY <1>2, <2>1
  <2> HIDE DEF S, T
  <2>3. S \subseteq T /\ T \subseteq N /\ (T = S <=> Closed(g, S))
    BY <2>1, <2>2, OnwardIs, NodesClosed DEF S, N
  <2>4. CASE Closed(g, S)
    BY <2>3, <2>4 DEF T
  <2>5. CASE ~Closed(g, S)
    <3>1. PICK x \in T : x \notin S
      BY <2>3, <2>5
    <3>2. IsFiniteSet(T) /\ IsFiniteSet(S) /\ S \cup {x} \subseteq T
      BY <1>3, <2>3, <3>1, FS_Subset
    <3>3. Cardinality(S \cup {x}) = Cardinality(S) + 1 /\ IsFiniteSet(S \cup {x})
      BY <3>1, <3>2, FS_AddElement
    <3>4. Cardinality(S \cup {x}) <= Cardinality(T)
      BY <3>2, FS_Subset
    <3>5. Cardinality(S) \in Nat /\ Cardinality(T) \in Nat
      BY <3>2, FS_CardinalityType
    <3>6. Cardinality(S) >= n + 1
      BY <2>1, <2>5 DEF S
    <3>7. Cardinality(T) >= (n + 1) + 1
      BY <3>3, <3>4, <3>5, <3>6
    <3> QED
      BY <2>3, <3>7 DEF T
  <2> QED
    BY <2>4, <2>5
<1>6. Nat \subseteq P
  <2> HIDE DEF P
  <2> QED
    BY <1>4, <1>5, Numbers
<1>7. f[k] \subseteq N /\ (Big(f[k]) >= k + 1 \/ Closed(g, f[k]))
  BY <1>1, <1>6
<1>8. Cardinality(f[k]) <= k /\ Cardinality(f[k]) \in Nat
  BY <1>3, <1>7, FS_Subset, FS_CardinalityType
<1>9. Closed(g, f[k])
  BY <1>1, <1>7, <1>8
<1> QED
  BY <1>1, <1>2, <1>7, <1>9, BelowSelf DEF k, N

\* What keeps a graph reaches what it reaches.
LEMMA BelowMore ==
    ASSUME NEW g \in FullGraph, NEW h \in FullGraph, Keeps(h, g), NEW a \in Nodes(g)
    PROVE  Below(g, a) \subseteq Below(h, a)
<1>1. a \in Nodes(h) /\ a \in Nat
  BY KeepsNodes, FullGraphLens
<1>2. Closed(h, Below(h, a)) /\ a \in Below(h, a)
  BY <1>1, BelowClosed
<1>3. Closed(g, Below(h, a))
  <2>1. \A e \in 1..Len(g.edges) : e \in 1..Len(h.edges) /\ h.edges[e] = g.edges[e]
    BY FullGraphLens DEF Keeps
  <2> QED
    BY <1>2, <2>1 DEF Closed
<1> QED
  BY <1>1, <1>2, <1>3, BelowLeast

\* The first graph is sound.
LEMMA FirstGraphSound == Sound(FirstGraph)
<1> DEFINE g == FirstGraph
<1>1. /\ Len(g.edges) = 2 /\ Len(g.nodes) = 3
      /\ g.edges[1] = <<0, 1>> /\ g.edges[2] = <<1, 2>>
  BY DEF FirstGraph
<1>2. g \in FullGraph
  BY FirstGraphFull
<1> HIDE DEF g
<1>3. \A e \in 1..Len(g.edges) : e = 1 \/ e = 2
  BY <1>1
<1>4. Closed(g, {1, 2}) /\ Closed(g, {2})
  BY <1>1, <1>3 DEF Closed
<1>5. Below(g, 1) \subseteq {1, 2} /\ Below(g, 2) \subseteq {2}
  BY <1>2, <1>4, BelowLeast
<1>6. Acyclic(g)
  BY <1>1, <1>3, <1>5 DEF Acyclic
<1>7. 2 \in Below(g, 2)
  <2>1. 2 \in Nat /\ g \in GraphType
    BY <1>2, FullGraphParts
  <2> QED
    BY <2>1, BelowSelf
<1>8. Reached(g)
  <2>1. Nodes(g) = 0..2
    BY <1>1 DEF Nodes
  <2> QED
    BY <1>7, <2>1 DEF Reached, Top
<1>9. Rooted(g)
  BY <1>1 DEF Rooted
<1> QED
  BY <1>6, <1>8, <1>9 DEF Sound, g

\* A path that does not begin at the root ends neither there nor below it.
LEMMA EndsAway ==
    ASSUME NEW g \in FullGraph, Rooted(g), NEW p \in PathsIn(g, NotRoot)
    PROVE  g.edges[Last(p)][2] \notin {0, 1}
<1> DEFINE n == Len(p)
           m == Len(g.edges)
<1>1. /\ p \in Seq(1..m) /\ n > 0 /\ g.edges[p[1]][1] # 0
      /\ \A i \in 1..n - 1 : g.edges[p[i]][2] = g.edges[p[i + 1]][1]
  BY DEF PathsIn, NotRoot
<1>2. n \in Nat /\ n > 0 /\ m \in Nat /\ p[n] \in 1..m /\ Last(p) = p[n]
  BY <1>1, FullGraphLens DEF Last
<1>3. /\ m >= 2 /\ g.edges[1] = <<0, 1>> /\ g.edges[2] = <<1, 2>>
      /\ \A e \in 3..m : g.edges[e][1] \notin {0, 1} /\ g.edges[e][2] \notin {0, 1}
  BY DEF Rooted
<1>4. \A e \in 1..m : e = 1 \/ e = 2 \/ e \in 3..m
  BY <1>2
<1>5. \A e \in 1..m : g.edges[e][2] # 0 /\ (g.edges[e][2] = 1 => e = 1)
  BY <1>3, <1>4
<1>6. g.edges[p[n]][2] # 1
  <2> SUFFICES ASSUME p[n] = 1 PROVE FALSE
    BY <1>2, <1>5
  <2>1. g.edges[p[n]][1] = 0
    BY <1>3
  <2>2. n # 1
    BY <1>1, <2>1
  <2> DEFINE i == n - 1
  <2>3. i \in 1..n - 1 /\ i + 1 = n
    <3>1. \A j \in Nat : j > 0 /\ j # 1 => j - 1 \in 1..j - 1 /\ (j - 1) + 1 = j
      OBVIOUS
    <3> HIDE DEF n
    <3> QED
      BY <1>2, <2>2, <3>1
  <2> HIDE DEF i
  <2>7. g.edges[p[i]][2] = g.edges[p[i + 1]][1]
    BY <1>1, <2>3
  <2>4. g.edges[p[i]][2] = g.edges[p[n]][1]
    BY <2>3, <2>7
  <2>5. i \in 1..n
    BY <1>2, <2>3
  <2>6. p[i] \in 1..m
    BY <1>1, <2>5
  <2> QED
    BY <1>5, <2>1, <2>4, <2>6
<1> QED
  BY <1>2, <1>5, <1>6

\* A sound graph that is given one more edge, to a node from which its start
\* cannot be reached or to a new node.
LEMMA SoundGrows ==
    ASSUME NEW g \in FullGraph, NEW h \in FullGraph, Sound(g), Keeps(h, g),
           Len(h.edges) = Len(g.edges) + 1,
           NEW a \in Nodes(g), a \notin {0, 1}, NEW b \in Nodes(h), b \notin {0, 1},
           h.edges[Len(g.edges) + 1] = <<a, b>>,
           Nodes(h) \subseteq Nodes(g) \cup {b},
           b \in Nodes(g) => a \notin Below(g, b)
    PROVE  Sound(h)
<1> DEFINE m == Len(g.edges)
<1>1. m \in Nat /\ Nodes(g) \subseteq Nodes(h)
      /\ \A e \in 1..m : h.edges[e] = g.edges[e]
  BY FullGraphLens, KeepsNodes DEF Keeps
<1>2. h.edges[m + 1][1] = a /\ h.edges[m + 1][2] = b
  OBVIOUS
<1>3. Len(h.edges) = m + 1 /\ \A e \in 1..m + 1 : e \in 1..m \/ e = m + 1
  BY <1>1
<1>4. Nodes(h) \subseteq Nat /\ Nodes(g) \subseteq Nat
  BY FullGraphLens
<1>20. \A e \in 1..m : g.edges[e][1] \in Nodes(g) /\ g.edges[e][2] \in Nodes(g)
  BY FullGraphEnds, FullGraphLens
<1> HIDE DEF m
\* A set that is closed in g is closed in h when the new edge does not leave it.
<1>5. ASSUME NEW C, Closed(g, C), a \in C => b \in C PROVE Closed(h, C)
  <2> SUFFICES ASSUME NEW e \in 1..m + 1, h.edges[e][1] \in C PROVE h.edges[e][2] \in C
    BY <1>3 DEF Closed
  <2>1. CASE e \in 1..m
    BY <1>1, <1>5, <2>1 DEF Closed, m
  <2>2. CASE e = m + 1
    BY <1>2, <1>5, <2>2
  <2> QED
    BY <1>3, <2>1, <2>2
<1> DEFINE B == IF b \in Nodes(g) THEN Below(g, b) ELSE {b}
<1>6. Closed(g, B) /\ b \in B /\ a \notin B
  <2>1. CASE b \in Nodes(g)
    BY <2>1, BelowClosed
  <2>2. CASE b \notin Nodes(g)
    BY <1>20, <2>2 DEF Closed, m
  <2> QED
    BY <2>1, <2>2
<1> HIDE DEF B
<1>7. ASSUME NEW y \in Nodes(g), y \in B PROVE Below(g, y) \subseteq B
  BY <1>4, <1>6, <1>7, BelowLeast
<1>8. Below(h, b) \subseteq B
  <2>1. Closed(h, B)
    BY <1>5, <1>6
  <2> QED
    BY <1>4, <1>6, <2>1, BelowLeast
<1>9. Acyclic(h)
  <2> SUFFICES ASSUME NEW e \in 1..m + 1 PROVE h.edges[e][1] \notin Below(h, h.edges[e][2])
    BY <1>3 DEF Acyclic
  <2>1. CASE e = m + 1
    BY <1>2, <1>6, <1>8, <2>1
  <2>2. CASE e \in 1..m
    <3> DEFINE x == g.edges[e][1]
               y == g.edges[e][2]
    <3>1. x \in Nodes(g) /\ y \in Nodes(g) /\ h.edges[e] = g.edges[e] /\ x \notin Below(g, y)
      BY <1>1, <1>20, <2>2 DEF Sound, Acyclic, m
    <3>2. x \in B => y \in B
      BY <1>6, <2>2 DEF Closed, m
    <3> HIDE DEF x, y
    <3>3. Closed(g, Below(g, y)) /\ y \in Below(g, y)
      BY <3>1, BelowClosed
    <3>4. y \in Nat
      BY <1>4, <3>1
    <3>5. CASE a \notin Below(g, y)
      <4>1. Closed(h, Below(g, y))
        BY <1>5, <3>3, <3>5
      <4>2. Below(h, y) \subseteq Below(g, y)
        BY <3>3, <3>4, <4>1, BelowLeast
      <4> QED
        BY <3>1, <4>2 DEF x, y
    <3>6. CASE a \in Below(g, y)
      <4> DEFINE C == Below(g, y) \cup B
      <4>1. Closed(g, C)
        BY <1>6, <3>3 DEF Closed
      <4>2. Closed(h, C)
        BY <1>5, <1>6, <4>1
      <4>3. y \in C
        BY <3>3
      <4> HIDE DEF C
      <4>4. Below(h, y) \subseteq C
        BY <3>4, <4>2, <4>3, BelowLeast
      <4>5. y \notin B
        BY <1>6, <1>7, <3>1, <3>6
      <4>6. x \notin C
        BY <3>1, <3>2, <4>5 DEF C
      <4> QED
        BY <3>1, <4>4, <4>6 DEF x, y
    <3> QED
      BY <3>5, <3>6
  <2> QED
    BY <1>3, <2>1, <2>2
<1>10. Reached(h)
  <2>1. Top \in Nodes(g) /\ Top \in Nodes(h)
    BY <1>1, FullGraphLens DEF Top
  <2>2. Below(g, Top) \subseteq Below(h, Top)
    BY <2>1, BelowMore
  <2>3. Closed(h, Below(h, Top))
    BY <2>1, BelowClosed
  <2>4. a \in Below(h, Top)
    BY <2>2 DEF Sound, Reached
  <2>5. b \in Below(h, Top)
    <3>1. m + 1 \in 1..Len(h.edges)
      BY <1>1, <1>3 DEF m
    <3> QED
      BY <1>2, <2>3, <2>4, <3>1 DEF Closed
  <2> QED
    BY <2>2, <2>5 DEF Sound, Reached
<1>11. Rooted(h)
  <2>1. m >= 2 /\ g.edges[1] = <<0, 1>> /\ g.edges[2] = <<1, 2>>
        /\ \A e \in 3..m : g.edges[e][1] \notin {0, 1} /\ g.edges[e][2] \notin {0, 1}
    BY DEF Sound, Rooted, m
  <2>2. m \in Nat /\ Len(h.edges) >= 2 /\ 1 \in 1..m /\ 2 \in 1..m
    BY <1>1, <1>3, <2>1 DEF m
  <2>3. \A e \in 3..Len(h.edges) : e \in 3..m \/ e = m + 1
    BY <1>3, <2>2
  <2>4. \A e \in 3..m : e \in 1..m
    OBVIOUS
  <2>5. \A e \in 3..m : h.edges[e] = g.edges[e]
    BY <1>1, <2>4 DEF m
  <2>6. h.edges[1] = g.edges[1] /\ h.edges[2] = g.edges[2]
    BY <1>1, <2>2 DEF m
  <2>7. \A e \in 3..Len(h.edges) : h.edges[e][1] \notin {0, 1} /\ h.edges[e][2] \notin {0, 1}
    BY <1>2, <2>1, <2>3, <2>5
  <2> QED
    BY <2>1, <2>2, <2>6, <2>7 DEF Rooted
<1> QED
  BY <1>9, <1>10, <1>11 DEF Sound

\* A sound graph whose last edge and the last node at its end are gone.
LEMMA SoundShrinks ==
    ASSUME NEW g \in FullGraph, NEW h \in FullGraph, Sound(g), Keeps(g, h),
           Len(h.nodes) = Len(g.nodes) - 1, Len(h.edges) = Len(g.edges) - 1,
           Len(h.edges) >= 2,
           g.edges[Len(g.edges)][2] = Len(g.nodes) - 1,
           \A e \in 1..Len(g.edges) - 1 : /\ g.edges[e][1] < Len(g.nodes) - 1
                                          /\ g.edges[e][2] < Len(g.nodes) - 1
    PROVE  Sound(h)
<1> DEFINE m == Len(g.edges)
           n == Len(g.nodes)
           C == Below(h, Top) \cup {n - 1}
<1>1. /\ m \in Nat /\ n \in Nat /\ Nodes(g) = 0..n - 1 /\ Nodes(h) = 0..n - 2
      /\ Top \in Nodes(h) /\ Top \in Nat
  <2>1. Len(h.nodes) \in Nat /\ Len(h.nodes) >= 3 /\ Nodes(h) = 0..Len(h.nodes) - 1
        /\ m \in Nat /\ n \in Nat /\ Nodes(g) = 0..n - 1
    BY FullGraphLens
  <2>2. Len(h.nodes) - 1 = n - 2
    BY <2>1
  <2> QED
    BY <2>1, <2>2 DEF Top
<1>2. Len(h.edges) = m - 1 /\ \A e \in 1..m - 1 : g.edges[e] = h.edges[e]
  BY DEF Keeps
<1>3. \A e \in 1..m : e \in 1..m - 1 \/ e = m
  BY <1>1
<1>4. \A e \in 1..m - 1 : /\ h.edges[e][1] \in Nodes(h) /\ h.edges[e][2] \in Nodes(h)
  BY <1>2, FullGraphEnds, FullGraphLens
<1>5. Closed(h, Below(h, Top)) /\ Top \in Below(h, Top)
  BY <1>1, BelowClosed
<1>6. Closed(g, C)
  <2> SUFFICES ASSUME NEW e \in 1..m, g.edges[e][1] \in C PROVE g.edges[e][2] \in C
    BY DEF Closed
  <2>1. CASE e = m
    BY <2>1
  <2>2. CASE e \in 1..m - 1
    <3>1. g.edges[e][1] # n - 1
      BY <1>1, <1>2, <1>4, <2>2
    <3>2. g.edges[e][1] \in Below(h, Top)
      BY <3>1
    <3> QED
      BY <1>2, <1>5, <2>2, <3>2 DEF Closed
  <2> QED
    BY <1>3, <2>1, <2>2
<1>7. Below(g, Top) \subseteq C
  BY <1>1, <1>5, <1>6, BelowLeast
<1>8. Reached(h)
  <2> SUFFICES ASSUME NEW x \in Nodes(h), x \notin {0, 1} PROVE x \in Below(h, Top)
    BY DEF Reached
  <2>1. x \in Nodes(g) /\ x # n - 1
    BY <1>1
  <2> QED
    BY <1>7, <2>1 DEF Sound, Reached
<1>9. Acyclic(h)
  <2> SUFFICES ASSUME NEW e \in 1..m - 1 PROVE h.edges[e][1] \notin Below(h, h.edges[e][2])
    BY <1>2 DEF Acyclic
  <2>1. Below(h, h.edges[e][2]) \subseteq Below(g, h.edges[e][2])
    BY <1>4, BelowMore
  <2>2. e \in 1..m /\ g.edges[e] = h.edges[e]
    BY <1>1, <1>2
  <2>3. g.edges[e][1] \notin Below(g, g.edges[e][2])
    BY <2>2 DEF Sound, Acyclic
  <2> QED
    BY <2>1, <2>2, <2>3
<1>10. Rooted(h)
  <2>1. g.edges[1] = <<0, 1>> /\ g.edges[2] = <<1, 2>>
        /\ \A e \in 3..m : g.edges[e][1] \notin {0, 1} /\ g.edges[e][2] \notin {0, 1}
    BY DEF Sound, Rooted
  <2>2. 1 \in 1..m - 1 /\ 2 \in 1..m - 1 /\ \A e \in 3..m - 1 : e \in 3..m /\ e \in 1..m - 1
    BY <1>1, <1>2
  <2>3. h.edges[1] = <<0, 1>> /\ h.edges[2] = <<1, 2>>
    BY <1>2, <2>1, <2>2
  <2>4. \A e \in 3..m - 1 : h.edges[e][1] \notin {0, 1} /\ h.edges[e][2] \notin {0, 1}
    BY <1>2, <2>1, <2>2
  <2> QED
    BY <1>2, <2>3, <2>4 DEF Rooted
<1> QED
  BY <1>8, <1>9, <1>10 DEF Sound

(* The steps of a request, again *)
\* The graphs are sound, and no request stands at the root or its only child.
ReachFollows(s) ==
    /\ dag \in FullGraph => Sound(dag)
    /\ Works(s) => Sound(visit[s].dag) /\ visit[s].current \notin {0, 1}
    /\ visit[s].phase = "making" => visit[s].at \notin {0, 1}
    /\ Pathing(s) => Sound(visit[s].before[1])
    /\ \A t \in ThreadIds : Whole(current_node[t]) => current_node[t] # 1

\* A request that stays where it is, in the graph it has.
LEMMA StaysSound ==
    ASSUME NEW s \in Visitors, NotebookInv, ReachFollows(s), Works(s), Works(s)',
           ~Pathing(s)', visit'[s].dag = visit[s].dag,
           visit'[s].current = visit[s].current,
           dag' = dag \/ dag' = CutFile,
           \A t \in ThreadIds : Whole(current_node'[t]) =>
               current_node'[t] = current_node[t] \/ current_node'[t] = visit[s].current
    PROVE  ReachFollows(s)'
<1>1. dag' \in FullGraph => Sound(dag')
  BY FilesDiffer DEF ReachFollows
<1>2. Sound(visit'[s].dag) /\ visit'[s].current \notin {0, 1}
  BY DEF ReachFollows
<1>3. \A t \in ThreadIds : Whole(current_node'[t]) => current_node'[t] # 1
  BY DEF ReachFollows, Whole
<1>4. visit'[s].phase # "making"
  BY DEF Pathing
<1> QED
  BY <1>1, <1>2, <1>3, <1>4 DEF ReachFollows

\* No graph yet.
LEMMA NotebookInit_Reach ==
    ASSUME NotebookInit, NEW s \in Visitors PROVE ReachFollows(s)
<1>1. visit[s].phase = "idle" /\ dag = NoFile /\ \A t \in ThreadIds : ~Whole(current_node[t])
  BY DEF NotebookInit, Away, Whole
<1> QED
  BY <1>1, FilesDiffer DEF ReachFollows, Works, Pathing

\* A request begins at the top, or where its thread was.
LEMMA Opening_Reach ==
    ASSUME NEW s \in Visitors, NotebookInv, ReachFollows(s),
           \/ \E t \in ThreadIds : BeginVisit(s, t)
           \/ Found(s) \/ OpenNewThread(s) \/ WriteNewThread(s)
    PROVE  ReachFollows(s)'
<1>1. CASE \E t \in ThreadIds : BeginVisit(s, t)
  <2>1. PICK t \in ThreadIds : BeginVisit(s, t)
    BY <1>1
  <2>2. visit \in [Visitors -> VisitType \cup {Away}]
    BY DEF NotebookInv, NotebookTypeOK
  <2>3. visit'[s].phase \in {"founding", "opening"}
    BY <2>1, <2>2 DEF BeginVisit
  <2>4. (dag' = dag \/ dag' = CutFile) /\ current_node' = current_node
    BY <2>1 DEF BeginVisit
  <2> QED
    BY <2>3, <2>4, FilesDiffer DEF ReachFollows, Works, Pathing
<1>2. CASE Found(s)
  <2>1. visit[s].phase # "idle"
    BY <1>2 DEF Found
  <2>2. visit'[s].phase = "opening"
    BY <1>2, <2>1, AtPhase DEF Found, VisitType
  <2>3. dag' = FirstGraph /\ current_node' = current_node
    BY <1>2 DEF Found
  <2> QED
    BY <2>2, <2>3, FirstGraphSound DEF ReachFollows, Works, Pathing
<1>3. CASE OpenNewThread(s)
  <2>1. visit[s].phase # "idle"
    BY <1>3 DEF OpenNewThread
  <2>2. visit'[s].phase = "beginning"
    BY <1>3, <2>1, AtPhase DEF OpenNewThread, VisitType
  <2>3. dag' = dag /\ \A t \in ThreadIds : Whole(current_node'[t]) => current_node'[t] = current_node[t]
    BY <1>3 DEF OpenNewThread, NotebookInv, NotebookTypeOK, Whole
  <2> QED
    BY <2>2, <2>3 DEF ReachFollows, Works, Pathing
<1>4. CASE WriteNewThread(s)
  <2>1. visit[s].phase # "idle"
    BY <1>4 DEF WriteNewThread
  <2>2. visit'[s].phase = "opening"
    BY <1>4, <2>1, AtPhase DEF WriteNewThread, VisitType
  <2>3. dag' = dag /\ \A t \in ThreadIds : current_node'[t] = current_node[t] \/ current_node'[t] = 0
    BY <1>4 DEF WriteNewThread, NotebookInv, NotebookTypeOK
  <2> QED
    BY <2>2, <2>3 DEF ReachFollows, Works, Pathing
<1> QED
  BY <1>1, <1>2, <1>3, <1>4

\* A search moves nobody.
LEMMA Search_Reach ==
    ASSUME NEW s \in Visitors, NotebookInv, ReachFollows(s), NEW goals, Search(s, goals)
    PROVE  ReachFollows(s)'
<1> DEFINE was == current_node[visit[s].thread]
           now == IF was = 0 THEN Top ELSE was
<1>1. visit[s].phase = "opening" /\ Whole(was) /\ UNCHANGED <<dag, current_node>>
  BY DEF Search, Whole
<1>2. /\ visit[s] \in VisitType /\ visit \in [Visitors -> VisitType \cup {Away}]
      /\ FilesFollow(s)
  BY <1>1, AtPhase
<1>3. dag \in FullGraph /\ visit[s].dag = dag
  BY <1>1, <1>2 DEF FilesFollow, Opening
<1>4. visit[s].thread \in ThreadIds
  BY <1>2 DEF VisitType
<1>5. now \notin {0, 1}
  BY <1>1, <1>4 DEF ReachFollows, Top
<1>6. visit'[s].phase = "asking" /\ visit'[s].dag = visit[s].dag /\ visit'[s].current = now
  BY <1>2 DEF Search, VisitType
<1> HIDE DEF was, now
<1> QED
  BY <1>1, <1>3, <1>5, <1>6 DEF ReachFollows, Works, Pathing

\* Paths that do not begin at the root do not end near it.
LEMMA Asking_Reach ==
    ASSUME NEW s \in Visitors, NotebookInv, ReachFollows(s),
           \/ \E i \in DOMAIN visit[s].options : ChoosePath(s, i)
           \/ OutOfRange(s) \/ Told(s) \/ JumpToRoot(s)
    PROVE  ReachFollows(s)'
<1> DEFINE g == visit[s].dag
<1>1. visit[s].phase = "asking"
  BY DEF ChoosePath, OutOfRange, Told, JumpToRoot, Asking
<1>2. /\ visit[s] \in VisitType /\ visit \in [Visitors -> VisitType \cup {Away}]
      /\ PathFollows(s) /\ Works(s) /\ g \in FullGraph /\ Sound(g)
      /\ visit[s].current \notin {0, 1}
  BY <1>1, AtPhase, Stands DEF ReachFollows
<1>3. UNCHANGED <<dag, current_node>> /\ visit'[s].phase = "asking" /\ visit'[s].dag = g
  <2>1. CASE \E i \in DOMAIN visit[s].options : ChoosePath(s, i)
    <3>1. PICK i \in DOMAIN visit[s].options : ChoosePath(s, i)
      BY <2>1
    <3> QED
      BY <1>1, <1>2, <3>1 DEF ChoosePath, Goes, VisitType
  <2>2. CASE OutOfRange(s)
    BY <1>1, <1>2, <2>2 DEF OutOfRange, Goes, VisitType
  <2>3. CASE Told(s)
    BY <1>1, <1>2, <2>3 DEF Told, Goes, VisitType
  <2>4. CASE JumpToRoot(s)
    BY <1>1, <1>2, <2>4 DEF JumpToRoot, Goes, VisitType
  <2> QED
    BY <2>1, <2>2, <2>3, <2>4
<1>4. visit'[s].current \notin {0, 1}
  <2>1. CASE \E i \in DOMAIN visit[s].options : ChoosePath(s, i)
    <3>1. PICK i \in DOMAIN visit[s].options : ChoosePath(s, i)
      BY <2>1
    <3> DEFINE path == visit[s].options[i]
               S == PathsIn(g, NotRoot)
    <3>2. visit'[s].current = g.edges[Last(path)][2]
      BY <1>1, <1>2, <3>1 DEF ChoosePath, Goes, VisitType
    <3> HIDE DEF S
    <3>3. visit[s].options \in Seq(S)
      BY <1>1, <1>2 DEF PathFollows, Pathing, S
    <3>4. path \in S
      BY <3>3
    <3> HIDE DEF g, path
    <3>5. path \in PathsIn(g, NotRoot)
      BY <3>4 DEF S
    <3> QED
      BY <1>2, <3>2, <3>5, EndsAway DEF Sound
  <2>2. CASE OutOfRange(s)
    BY <1>1, <1>2, <2>2 DEF OutOfRange, Goes, VisitType
  <2>3. CASE Told(s)
    BY <1>1, <1>2, <2>3 DEF Told, Goes, VisitType
  <2>4. CASE JumpToRoot(s)
    BY <1>1, <1>2, <2>4 DEF JumpToRoot, Goes, VisitType, JumpTarget, Top
  <2> QED
    BY <2>1, <2>2, <2>3, <2>4
<1> HIDE DEF g
<1> QED
  BY <1>2, <1>3, <1>4 DEF ReachFollows, Works, Pathing

\* The new edge closes no circle: its end does not lead to its beginning.
LEMMA ConnectToNode_Reach ==
    ASSUME NEW s \in Visitors, NotebookInv, ReachFollows(s), NEW b, ConnectToNode(s, b)
    PROVE  ReachFollows(s)'
<1> DEFINE g == visit[s].dag
           a == visit[s].current
           h == AddEdge(g, a, b)
<1>1. /\ visit[s].phase = "asking" /\ {a, b} \subseteq Nodes(g) /\ a \notin Below(g, b)
      /\ UNCHANGED <<dag, current_node>>
  BY DEF ConnectToNode, Goes, Asking, CanAddEdge
<1>2. /\ visit[s] \in VisitType /\ visit \in [Visitors -> VisitType \cup {Away}]
      /\ Works(s) /\ g \in FullGraph /\ Sound(g) /\ a \notin {0, 1}
  BY <1>1, AtPhase, Stands DEF ReachFollows
<1>3. visit'[s].phase = "asking" /\ visit'[s].dag = h /\ visit'[s].current = b
  BY <1>1, <1>2 DEF ConnectToNode, Goes, VisitType
<1> HIDE DEF g, a
<1>4. h \in FullGraph /\ Keeps(h, g) /\ h.nodes = g.nodes
  BY <1>1, <1>2, AddEdgeKeeps
<1>5. /\ Len(h.edges) = Len(g.edges) + 1 /\ h.edges[Len(g.edges) + 1] = <<a, b>>
  <2>1. g \in [nodes : Seq(NodeKinds \X Nat), edges : Seq(Nat \X Nat)]
    BY <1>2, FullGraphParts DEF GraphType
  <2> DEFINE edge == <<a, b>>
             es == Append(g.edges, edge)
  <2>2. h = [g EXCEPT !.edges = es]
    BY DEF AddEdge
  <2>3. edge \in Nat \X Nat
    BY <1>1, <1>2, FullGraphLens
  <2> HIDE DEF edge, h
  <2>4. h.edges = es
    <3> HIDE DEF es
    <3> QED
      BY <2>1, <2>2
  <2>5. Len(es) = Len(g.edges) + 1 /\ es[Len(g.edges) + 1] = edge
    BY <1>2, <2>3, FullGraphParts, AppendIs
  <2> HIDE DEF es
  <2> QED
    BY <2>4, <2>5 DEF edge
<1> HIDE DEF h
<1>6. b \notin {0, 1}
  <2>1. Rooted(g) /\ a \in Below(g, 2) /\ 2 \in Nodes(g) /\ 1 \in Nodes(g) /\ 0 \in Nodes(g)
    BY <1>1, <1>2, FullGraphLens DEF Sound, Reached, Top
  <2>2. 1 \in 1..Len(g.edges) /\ 2 \in 1..Len(g.edges)
    BY <1>2, <2>1, FullGraphLens DEF Rooted
  <2>3. 2 \in Below(g, 1)
    <3>1. Closed(g, Below(g, 1)) /\ 1 \in Below(g, 1)
      BY <1>2, <2>1, BelowClosed
    <3> QED
      BY <2>1, <2>2, <3>1 DEF Closed, Rooted
  <2>4. 2 \in Below(g, 0)
    <3>1. Closed(g, Below(g, 0)) /\ 0 \in Below(g, 0)
      BY <1>2, <2>1, BelowClosed
    <3>2. 1 \in Below(g, 0)
      BY <2>1, <2>2, <3>1 DEF Closed, Rooted
    <3> QED
      BY <2>1, <2>2, <3>1, <3>2 DEF Closed, Rooted
  <2>5. ASSUME b \in {0, 1} PROVE FALSE
    <3>1. Closed(g, Below(g, b)) /\ 2 \in Below(g, b)
      BY <1>2, <2>1, <2>3, <2>4, <2>5, BelowClosed
    <3>2. Below(g, 2) \subseteq Below(g, b)
      BY <1>2, <3>1, BelowLeast
    <3> QED
      BY <1>1, <2>1, <3>2
  <2> QED
    BY <2>5
<1>7. Nodes(h) = Nodes(g)
  BY <1>4 DEF Nodes
<1>8. Sound(h)
  BY <1>1, <1>2, <1>4, <1>5, <1>6, <1>7, SoundGrows
<1> QED
  BY <1>1, <1>3, <1>6, <1>8 DEF ReachFollows, Works, Pathing

\* The graph before the path is sound.
LEMMA Making_Reach ==
    ASSUME NEW s \in Visitors, NotebookInv, ReachFollows(s), NEW k \in Nat,
           Making(s, k), Asking(s) \/ Undone(s)
    PROVE  ReachFollows(s)'
<1> DEFINE g == visit[s].dag
           c == visit[s].current
<1>1. /\ visit[s].phase \in {"asking", "undoing"} /\ UNCHANGED <<dag, current_node>>
  BY DEF Making, Goes, Asking, Undone
<1>2. /\ visit[s] \in VisitType /\ visit \in [Visitors -> VisitType \cup {Away}]
      /\ Sound(g) /\ c \notin {0, 1}
  BY <1>1, AtPhase, Stands DEF ReachFollows
<1>3. /\ visit'[s].phase = "making" /\ visit'[s].dag = g /\ visit'[s].current = c
      /\ visit'[s].at = c /\ visit'[s].before = <<g, c>>
  BY <1>2 DEF Making, Goes, VisitType
<1> HIDE DEF g, c
<1>4. visit'[s].before[1] = g
  BY <1>3
<1> QED
  BY <1>1, <1>2, <1>3, <1>4 DEF ReachFollows, Works, Pathing

\* The graph stays as it was.
LEMMA NodeLost_Reach ==
    ASSUME NEW s \in Visitors, NotebookInv, ReachFollows(s),
           NEW kind, CreateNewNode(s, kind, TRUE)
    PROVE  ReachFollows(s)'
<1>1. /\ visit[s].phase = "making" /\ visit' = [visit EXCEPT ![s] = Away]
      /\ UNCHANGED <<dag, current_node>>
  BY DEF CreateNewNode
<1>2. visit \in [Visitors -> VisitType \cup {Away}]
  BY <1>1, AtPhase
<1>3. visit'[s].phase = "idle"
  BY <1>1, <1>2 DEF Away
<1> QED
  BY <1>1, <1>3 DEF ReachFollows, Works, Pathing

\* The new node lies below the one it hangs from.
LEMMA NodeMade_Reach ==
    ASSUME NEW s \in Visitors, NotebookInv, ReachFollows(s), made \in Nat,
           NEW kind \in NodeKinds, CreateNewNode(s, kind, FALSE)
    PROVE  ReachFollows(s)'
<1> DEFINE g == visit[s].dag
           a == visit[s].at
           new == Len(g.nodes)
           node == <<kind, made + 1>>
           grown == AddNode(g, node)
           h == AddEdge(grown, a, new)
           more == Append(visit[s].path, Len(grown.edges) + 1)
           w == [visit[s] EXCEPT !.dag = h, !.at = new, !.left = visit[s].left - 1,
                                 !.path = more]
<1>1. /\ visit[s].phase = "making"
      /\ CanAddEdge(grown, a, new)
      /\ UNCHANGED <<dag, current_node>>
  BY DEF CreateNewNode
<1>2. visit' = [visit EXCEPT ![s] = w]
  BY DEF CreateNewNode
<1>3. /\ visit[s] \in VisitType /\ visit \in [Visitors -> VisitType \cup {Away}]
      /\ Works(s) /\ Pathing(s) /\ g \in FullGraph /\ Sound(g) /\ visit[s].current \notin {0, 1}
      /\ a \notin {0, 1} /\ Sound(visit[s].before[1])
  BY <1>1, AtPhase, Stands DEF ReachFollows, Pathing
<1>4. a \in Nat
  BY <1>3 DEF VisitType
<1>5. node \in NodeKinds \X Nat
  OBVIOUS
<1>6. a \in Nodes(g)
  BY <1>1, <1>3, <1>4, <1>5, NewEdgeFrom
<1>7. /\ h \in FullGraph /\ Keeps(h, g)
      /\ Len(h.nodes) = new + 1
      /\ Len(h.edges) = Len(g.edges) + 1
      /\ h.edges[Len(g.edges) + 1] = <<a, new>>
  BY <1>3, <1>5, <1>6, AddBoth
<1> HIDE DEF h, more, node, grown
<1>8. /\ new \in Nat /\ new >= 3 /\ Nodes(g) = 0..new - 1 /\ Nodes(h) = 0..new
  <2>1. new \in Nat /\ new >= 3 /\ Nodes(g) = 0..new - 1 /\ Nodes(h) = 0..Len(h.nodes) - 1
    BY <1>3, <1>7, FullGraphLens
  <2> HIDE DEF new
  <2>2. Len(h.nodes) - 1 = new
    BY <1>7, <2>1
  <2> QED
    BY <2>1, <2>2
<1> HIDE DEF new
<1>9. new \in Nodes(h) /\ new \notin {0, 1} /\ Nodes(h) \subseteq Nodes(g) \cup {new}
      /\ new \notin Nodes(g)
  BY <1>8
<1>10. Sound(h)
  BY <1>3, <1>6, <1>7, <1>9, SoundGrows
<1>11. /\ w.phase = "making" /\ w.dag = h /\ w.at = new
       /\ w.current = visit[s].current /\ w.before = visit[s].before
  BY <1>1, <1>3 DEF VisitType
<1> HIDE DEF w
<1>12. visit'[s] = w
  BY <1>2, <1>3
<1> QED
  BY <1>1, <1>3, <1>9, <1>10, <1>11, <1>12 DEF ReachFollows, Works, Pathing

\* The end of the path is a new node.
LEMMA Walking_Reach ==
    ASSUME NEW s \in Visitors, NotebookInv, ReachFollows(s),
           WalkNewPath(s) \/ \E e \in ToSet(visit[s].path) : WalkFails(s, e)
    PROVE  ReachFollows(s)'
<1>1. visit[s].phase = "making" /\ UNCHANGED <<dag, current_node>>
  BY DEF WalkNewPath, WalkFails, Made
<1>2. /\ visit[s] \in VisitType /\ visit \in [Visitors -> VisitType \cup {Away}]
      /\ PathFollows(s) /\ Works(s) /\ Pathing(s) /\ Sound(visit[s].dag)
      /\ visit[s].current \notin {0, 1} /\ visit[s].at \notin {0, 1}
      /\ Sound(visit[s].before[1])
  BY <1>1, AtPhase, Stands DEF ReachFollows, Pathing
<1>3. CASE WalkNewPath(s)
  <2>1. visit'[s].phase = "asking" /\ visit'[s].dag = visit[s].dag
        /\ visit'[s].current = visit[s].at
    BY <1>2, <1>3 DEF WalkNewPath, VisitType
  <2> QED
    BY <1>1, <1>2, <2>1 DEF ReachFollows, Works, Pathing
<1>4. CASE \E e \in ToSet(visit[s].path) : WalkFails(s, e)
  <2>1. PICK e : WalkFails(s, e)
    BY <1>4
  <2>2. visit[s].before[2] = visit[s].current
    BY <1>2 DEF PathFollows
  <2> DEFINE c == visit[s].before[2]
             w == [visit[s] EXCEPT !.phase = "undoing", !.current = c]
  <2>3. visit' = [visit EXCEPT ![s] = w]
    BY <2>1 DEF WalkFails, Restored
  <2>4. w.phase = "undoing" /\ w.dag = visit[s].dag /\ w.current = c
        /\ w.before = visit[s].before
    BY <1>2 DEF VisitType
  <2> HIDE DEF w
  <2>5. visit'[s] = w
    BY <1>2, <2>3
  <2> QED
    BY <1>1, <1>2, <2>2, <2>4, <2>5 DEF ReachFollows, Works, Pathing
<1> QED
  BY <1>3, <1>4

\* The node that goes is a leaf.
LEMMA Undo_Reach ==
    ASSUME NEW s \in Visitors, NotebookInv, ReachFollows(s), Undo(s)
    PROVE  ReachFollows(s)'
<1> DEFINE g == visit[s].dag
           f == visit[s].before[1]
           path == visit[s].path
           h == Without(g, Last(path))
           w == [visit[s] EXCEPT !.dag = h, !.path = Front(path)]
<1>1. /\ visit[s].phase = "undoing" /\ path # <<>> /\ UNCHANGED <<dag, current_node>>
      /\ visit' = [visit EXCEPT ![s] = w]
  BY DEF Undo, Undoing
<1>2. /\ visit[s] \in VisitType /\ visit \in [Visitors -> VisitType \cup {Away}]
      /\ PathFollows(s) /\ Works(s) /\ Pathing(s) /\ g \in FullGraph /\ Sound(g)
      /\ visit[s].current \notin {0, 1} /\ Sound(f)
  BY <1>1, AtPhase, Stands DEF ReachFollows, Pathing
<1>3. path \in Seq(Nat)
  BY <1>2 DEF VisitType
<1>4. f \in FullGraph /\ KeepsAndHas(g, f, path)
  BY <1>2 DEF PathFollows
<1>5. w.phase = "undoing" /\ w.dag = h /\ w.current = visit[s].current
      /\ w.before = visit[s].before
  BY <1>1, <1>2 DEF VisitType
<1> HIDE DEF w
<1>6. visit'[s] = w
  BY <1>1, <1>2
<1> HIDE DEF g, f, path
<1>7. /\ Last(path) = Len(g.edges)
      /\ g.edges[Last(path)][2] = Len(g.nodes) - 1
      /\ h \in FullGraph /\ Keeps(g, h) /\ Keeps(h, f)
      /\ Len(h.nodes) = Len(g.nodes) - 1
      /\ Len(h.edges) = Len(g.edges) - 1
      /\ \A e \in 1..Len(g.edges) - 1 : /\ g.edges[e][1] < Len(g.nodes) - 1
                                        /\ g.edges[e][2] < Len(g.nodes) - 1
  BY <1>1, <1>2, <1>3, <1>4, PathShrinks
<1> HIDE DEF h
<1>8. Len(h.edges) >= 2
  <2>1. Len(f.edges) \in Nat /\ Len(h.edges) \in Nat /\ Len(f.edges) <= Len(h.edges)
    BY <1>4, <1>7, FullGraphLens DEF Keeps
  <2>2. Len(f.edges) >= 2
    BY <1>2 DEF Sound, Rooted
  <2> QED
    BY <2>1, <2>2
<1>9. Sound(h)
  BY <1>2, <1>7, <1>8, SoundShrinks
<1> QED
  BY <1>1, <1>2, <1>5, <1>6, <1>9 DEF ReachFollows, Works, Pathing, f

\* Files get what the request has ...
LEMMA Saving_Reach ==
    ASSUME NEW s \in Visitors, NotebookInv, ReachFollows(s),
           Answer(s) \/ OpenThreadFile(s) \/ WriteThreadFile(s) \/ OpenGraph(s)
    PROVE  ReachFollows(s)'
<1>1. visit[s].phase \in {"asking", "saving", "writing", "saved"}
  BY DEF Answer, OpenThreadFile, WriteThreadFile, OpenGraph, Asking
<1>2. /\ visit[s] \in VisitType /\ visit \in [Visitors -> VisitType \cup {Away}] /\ Works(s)
      /\ current_node \in [ThreadIds -> Nat \cup {NoFile, CutFile}]
  BY <1>1, AtPhase, Stands DEF NotebookTypeOK
<1>3. /\ visit'[s].phase \in {"saving", "writing", "saved", "ending"}
      /\ visit'[s].dag = visit[s].dag /\ visit'[s].current = visit[s].current
  <2>1. CASE Answer(s)
    BY <1>2, <2>1 DEF Answer, VisitType
  <2>2. CASE OpenThreadFile(s)
    BY <1>2, <2>2 DEF OpenThreadFile, VisitType
  <2>3. CASE WriteThreadFile(s)
    BY <1>2, <2>3 DEF WriteThreadFile, VisitType
  <2>4. CASE OpenGraph(s)
    BY <1>2, <2>4 DEF OpenGraph, VisitType
  <2> QED
    BY <2>1, <2>2, <2>3, <2>4
<1>4. dag' = dag \/ dag' = CutFile
  BY DEF Answer, OpenThreadFile, WriteThreadFile, OpenGraph
<1>5. \A t \in ThreadIds : Whole(current_node'[t]) =>
          current_node'[t] = current_node[t] \/ current_node'[t] = visit[s].current
  BY <1>2 DEF Answer, OpenThreadFile, WriteThreadFile, OpenGraph, Whole
<1> QED
  BY <1>2, <1>3, <1>4, <1>5, StaysSound DEF Works, Pathing

\* ... or stay as they are.
LEMMA Ending_Reach ==
    ASSUME NEW s \in Visitors, NotebookInv, ReachFollows(s), WriteGraph(s) \/ FailVisit(s)
    PROVE  ReachFollows(s)'
<1>1. visit' = [visit EXCEPT ![s] = Away] /\ UNCHANGED current_node
  BY DEF WriteGraph, FailVisit
<1>2. visit \in [Visitors -> VisitType \cup {Away}]
  BY DEF NotebookInv, NotebookTypeOK
<1>3. visit'[s].phase = "idle"
  BY <1>1, <1>2 DEF Away
<1>4. dag' \in FullGraph => Sound(dag')
  BY DEF WriteGraph, FailVisit, ReachFollows, Works
<1> QED
  BY <1>1, <1>3, <1>4 DEF ReachFollows, Works, Pathing

\* Every step keeps the graphs sound.
LEMMA NotebookNext_Reach ==
    ASSUME NEW s, Visitors = {s}, made \in Nat, NotebookInv, ReachFollows(s), NotebookNext
    PROVE  ReachFollows(s)'
<1>1. PICK r \in Visitors :
        \/ \E t \in ThreadIds : BeginVisit(r, t)
        \/ Found(r) \/ OpenNewThread(r) \/ WriteNewThread(r)
        \/ \E goals \in SUBSET DOMAIN rows : Search(r, goals)
        \/ Asking(r) /\ \E i \in DOMAIN visit[r].options : ChoosePath(r, i)
        \/ OutOfRange(r) \/ Told(r) \/ JumpToRoot(r)
        \/ Asking(r) /\ \E b \in Nodes(visit[r].dag) : ConnectToNode(r, b)
        \/ \E k \in 0..MaxPath : CreateNewPath(r, k) \/ Retry(r, k)
        \/ \E kind \in {"intention", "tool"}, fails \in BOOLEAN : CreateNewNode(r, kind, fails)
        \/ WalkNewPath(r) \/ Undo(r)
        \/ Made(r) /\ \E e \in ToSet(visit[r].path) : WalkFails(r, e)
        \/ Answer(r) \/ OpenThreadFile(r) \/ WriteThreadFile(r) \/ OpenGraph(r) \/ WriteGraph(r)
        \/ FailVisit(r)
  BY DEF NotebookNext
<1>2. r = s /\ s \in Visitors
  BY <1>1
<1>3. CASE \/ \E t \in ThreadIds : BeginVisit(s, t)
           \/ Found(s) \/ OpenNewThread(s) \/ WriteNewThread(s)
  BY <1>2, <1>3, Opening_Reach
<1>4. CASE \E goals \in SUBSET DOMAIN rows : Search(s, goals)
  BY <1>2, <1>4, Search_Reach
<1>5. CASE \/ \E i \in DOMAIN visit[s].options : ChoosePath(s, i)
           \/ OutOfRange(s) \/ Told(s) \/ JumpToRoot(s)
  BY <1>2, <1>5, Asking_Reach
<1>6. CASE \E b \in Nodes(visit[s].dag) : ConnectToNode(s, b)
  BY <1>2, <1>6, ConnectToNode_Reach
<1>7. CASE \E k \in 0..MaxPath : CreateNewPath(s, k) \/ Retry(s, k)
  <2>1. PICK k \in 0..MaxPath : CreateNewPath(s, k) \/ Retry(s, k)
    BY <1>7
  <2>2. k \in Nat /\ Making(s, k) /\ (Asking(s) \/ Undone(s))
    BY <2>1, NotebookAssumption DEF CreateNewPath, Retry
  <2> QED
    BY <1>2, <2>2, Making_Reach
<1>8. CASE \E kind \in {"intention", "tool"}, fails \in BOOLEAN : CreateNewNode(s, kind, fails)
  <2>1. PICK kind \in {"intention", "tool"}, fails \in BOOLEAN : CreateNewNode(s, kind, fails)
    BY <1>8
  <2>2. kind \in NodeKinds
    BY DEF NodeKinds
  <2>3. CreateNewNode(s, kind, TRUE) \/ CreateNewNode(s, kind, FALSE)
    BY <2>1, Zenon
  <2>4. CASE CreateNewNode(s, kind, TRUE)
    BY <1>2, <2>4, NodeLost_Reach, Zenon
  <2>5. CASE CreateNewNode(s, kind, FALSE)
    BY <1>2, <2>2, <2>5, NodeMade_Reach, Zenon
  <2> QED
    BY <2>3, <2>4, <2>5
<1>9. CASE WalkNewPath(s) \/ \E e \in ToSet(visit[s].path) : WalkFails(s, e)
  BY <1>2, <1>9, Walking_Reach
<1>10. CASE Undo(s)
  BY <1>2, <1>10, Undo_Reach
<1>11. CASE Answer(s) \/ OpenThreadFile(s) \/ WriteThreadFile(s) \/ OpenGraph(s)
  BY <1>2, <1>11, Saving_Reach
<1>12. CASE WriteGraph(s) \/ FailVisit(s)
  BY <1>2, <1>12, Ending_Reach
<1> QED
  BY <1>1, <1>2, <1>3, <1>4, <1>5, <1>6, <1>7, <1>8, <1>9, <1>10, <1>11, <1>12

\* As above, for every request.
ReachInv == \A s \in Visitors : ReachFollows(s)

\* The graphs stay sound, whatever one request after another does.
THEOREM Notebook_Reach ==
    ASSUME NEW s, Visitors = {s}
    PROVE  NotebookSpec => [](NotebookInv /\ ReachInv)
<1>1. NotebookInit => ReachInv
  BY NotebookInit_Reach DEF ReachInv
<1>2. NotebookInv /\ made \in Nat /\ ReachInv /\ [NotebookNext]_notebookVars => ReachInv'
  <2> SUFFICES ASSUME NotebookInv, made \in Nat, ReachInv, [NotebookNext]_notebookVars
               PROVE  ReachFollows(s)'
    BY DEF ReachInv
  <2>1. ReachFollows(s)
    BY DEF ReachInv
  <2>2. CASE NotebookNext
    BY <2>1, <2>2, NotebookNext_Reach
  <2>3. CASE UNCHANGED notebookVars
    BY <2>1, <2>3 DEF notebookVars, ReachFollows, Works, Pathing
  <2> QED
    BY <2>2, <2>3
<1> QED
  BY <1>1, <1>2, Notebook_Inv, PTL DEF NotebookSpec

THEOREM Notebook_MadeIsReachable ==
    ASSUME NEW s, Visitors = {s} PROVE NotebookSpec => []MadeIsReachable
<1>1. NotebookInv /\ ReachInv => MadeIsReachable
  <2> SUFFICES ASSUME NotebookInv, ReachInv, NEW g \in Graphs
               PROVE  /\ \A e \in ToSet(g.edges) : e[1] \notin Below(g, e[2])
                      /\ Nodes(g) \ {0, 1} \subseteq Below(g, Top)
    BY DEF MadeIsReachable
  <2>1. g \in FullGraph /\ Sound(g)
    <3>1. s \in Visitors /\ FilesFollow(s) /\ ReachFollows(s)
      BY DEF NotebookInv, ReachInv
    <3>2. CASE Whole(dag) /\ g = dag
      BY <3>1, <3>2 DEF NotebookInv, NotebookTypeOK, Whole, ReachFollows
    <3>3. CASE \E r \in AtWork : g = visit[r].dag
      <4>1. PICK r \in AtWork : g = visit[r].dag
        BY <3>3
      <4>2. r = s /\ Works(s)
        BY <4>1, WorkOf DEF AtWork
      <4> QED
        BY <3>1, <4>1, <4>2 DEF FilesFollow, ReachFollows
    <3> QED
      BY <3>2, <3>3 DEF Graphs
  <2>2. ToSet(g.edges) = { g.edges[e] : e \in 1..Len(g.edges) }
    BY <2>1, FullGraphLens DEF ToSet
  <2> QED
    BY <2>1, <2>2 DEF Sound, Acyclic, Reached
<1> QED
  BY <1>1, Notebook_Reach, PTL

------------------------------------------------------------------------------
(* The messages of a conversation *)
\* What stands in a sequence from place a + 1 on is kept by these places.
LEMMA KeptInARow ==
    ASSUME NEW s, NEW t, IsSeq(t), NEW a \in Nat, \A i \in 1..Len(t) : s[a + i] = t[i]
    PROVE  Kept(s, a + 1..a + Len(t)) = t
<1> DEFINE n == Len(t)
           K == a + 1..a + n
<1>1. n \in Nat /\ t = [i \in 1..n |-> t[i]]
  BY DEF IsSeq
<1> HIDE DEF n
<1>2. IsFiniteSet(K) /\ K \subseteq Nat /\ Cardinality(K) = n
  <2>1. a + 1 \in Int /\ a + n \in Int
    BY <1>1
  <2> DEFINE lo == a + 1
             hi == a + n
  <2> HIDE DEF lo, hi
  <2>a. lo \in Int /\ hi \in Int
    BY <2>1 DEF lo, hi
  <2>b. IsFiniteSet(lo..hi) /\ Cardinality(lo..hi) = (IF lo > hi THEN 0 ELSE hi - lo + 1)
    BY <2>a, FS_Interval
  <2>2. (IF lo > hi THEN 0 ELSE hi - lo + 1) = n
    BY <1>1 DEF lo, hi
  <2>3. K = lo..hi /\ K \subseteq Nat
    BY <1>1 DEF lo, hi
  <2> HIDE DEF K
  <2> QED
    BY <2>b, <2>2, <2>3
<1>3. ASSUME NEW i \in 1..n PROVE Nth(K, i) = a + i
  <2>1. UpTo(K, a + i) = a + 1..a + i
    BY <1>1 DEF UpTo
  <2>2. a + 1 \in Int /\ a + i \in Int /\ a + i \in K
    BY <1>1
  <2>3. Cardinality(a + 1..a + i) = i
    <3>1. Cardinality(a + 1..a + i) = IF a + 1 > a + i THEN 0 ELSE a + i - (a + 1) + 1
      BY <2>2, FS_Interval
    <3> QED
      BY <1>1, <3>1
  <2> HIDE DEF K
  <2>4. Nth(K, Cardinality(UpTo(K, a + i))) = a + i
    BY <1>2, <2>2, NthUnique
  <2> QED
    BY <2>1, <2>3, <2>4
<1> HIDE DEF K
<1>4. Kept(s, K) = [i \in 1..n |-> t[i]]
  BY <1>2, <1>3 DEF Kept, n
<1> QED
  BY <1>1, <1>4 DEF K, n

IsMessage(m) ==
    /\ m \in [role : {m.role}, text : {m.text}, w : {m.w}, calls : {m.calls}, for : {m.for}]
    /\ IsSeq(m.calls) /\ \A k \in DOMAIN m.calls : IsToolCall(m.calls[k])
    /\ IsSystem(m) => m.calls = <<>>
IsMessages(ms) == IsSeq(ms) /\ \A i \in DOMAIN ms : IsMessage(ms[i])
AreSystems(ms) == IsMessages(ms) /\ \A i \in DOMAIN ms : IsSystem(ms[i])
AreRegular(ms) == IsMessages(ms) /\ \A i \in DOMAIN ms : ~IsSystem(ms[i])

\* The system messages stand before all others.
IsTalk(ms) ==
    AreSystems(Systems(ms)) /\ AreRegular(Regular(ms)) /\ ms = Systems(ms) \o Regular(ms)

LEMMA TalkOf ==
    ASSUME NEW S, NEW R, AreSystems(S), AreRegular(R)
    PROVE  Systems(S \o R) = S /\ Regular(S \o R) = R /\ IsTalk(S \o R)
<1> DEFINE ms == S \o R
           m == Len(S)
           n == Len(R)
<1>1. IsSeq(S) /\ IsSeq(R) /\ DOMAIN S = 1..m /\ DOMAIN R = 1..n
  BY SeqIs DEF AreSystems, AreRegular, IsMessages
<1>2. /\ IsSeq(ms) /\ m \in Nat /\ n \in Nat /\ Len(ms) = m + n
      /\ \A i \in 1..m : ms[i] = S[i]
      /\ \A i \in 1..n : ms[m + i] = R[i]
  BY <1>1, ConcatIs
<1>3. DOMAIN ms = 1..m + n
  BY <1>2, SeqIs
<1> HIDE DEF ms, m, n
<1>4. /\ \A i \in 1..m : IsSystem(ms[i])
      /\ \A i \in 1..n : ~IsSystem(ms[m + i])
  BY <1>1, <1>2 DEF AreSystems, AreRegular
<1>5. { i \in DOMAIN ms : IsSystem(ms[i]) } = 0 + 1..0 + m
  <2>1. ASSUME NEW i \in 1..m + n, ~(i <= m) PROVE ~IsSystem(ms[i])
    <3>1. i - m \in 1..n /\ m + (i - m) = i
      BY <1>2, <2>1
    <3> QED
      BY <1>4, <3>1
  <2>2. \A i \in 1..m + n : IsSystem(ms[i]) <=> i \in 1..m
    BY <1>2, <1>4, <2>1
  <2>3. 1..m \subseteq 1..m + n /\ 0 + 1..0 + m = 1..m
    BY <1>2
  <2> QED
    BY <1>3, <2>2, <2>3
<1>6. { i \in DOMAIN ms : ~IsSystem(ms[i]) } = m + 1..m + n
  <2>1. ASSUME NEW i \in m + 1..m + n PROVE ~IsSystem(ms[i])
    <3>1. i - m \in 1..n /\ m + (i - m) = i
      BY <1>2, <2>1
    <3> QED
      BY <1>4, <3>1
  <2>2. \A i \in 1..m + n : ~IsSystem(ms[i]) <=> i \in m + 1..m + n
    BY <1>2, <1>4, <2>1
  <2>3. m + 1..m + n \subseteq 1..m + n
    BY <1>2
  <2> QED
    BY <1>3, <2>2, <2>3
<1>7. Systems(ms) = S
  <2>1. \A i \in 1..Len(S) : ms[0 + i] = S[i]
    BY <1>2 DEF m
  <2>2. Kept(ms, 0 + 1..0 + m) = S
    BY <1>1, <2>1, KeptInARow DEF m
  <2> QED
    BY <1>5, <2>2 DEF Systems
<1>8. Regular(ms) = R
  <2>1. \A i \in 1..Len(R) : ms[m + i] = R[i]
    BY <1>2 DEF n
  <2>2. Kept(ms, m + 1..m + n) = R
    BY <1>1, <1>2, <2>1, KeptInARow DEF n
  <2> QED
    BY <1>6, <2>2 DEF Regular
<1> QED
  BY <1>7, <1>8 DEF IsTalk, ms

LEMMA MessageIs ==
    ASSUME NEW role, NEW text, NEW w, NEW cs, NEW for, IsSeq(cs),
           \A k \in DOMAIN cs : IsToolCall(cs[k]), role = "system" => cs = <<>>
    PROVE  LET m == Message(role, text, w, cs, for)
           IN  /\ IsMessage(m) /\ (IsSystem(m) <=> role = "system")
               /\ m.role = role /\ m.text = text /\ m.calls = cs /\ m.for = for
BY DEF Message, IsMessage, IsSystem

\* A message without calls.
LEMMA PlainIs ==
    ASSUME NEW role, NEW text, NEW w, NEW for
    PROVE  LET m == Message(role, text, w, <<>>, for)
           IN  /\ IsMessage(m) /\ (IsSystem(m) <=> role = "system")
               /\ m.role = role /\ m.text = text /\ m.calls = <<>> /\ m.for = for
<1>1. IsSeq(<<>>) /\ DOMAIN <<>> = {}
  BY EmptyIs
<1> QED
  BY <1>1, MessageIs

LEMMA NoMessages == AreSystems(<<>>) /\ AreRegular(<<>>)
BY EmptyIs, SeqIs DEF AreSystems, AreRegular, IsMessages

LEMMA OneMessage ==
    ASSUME NEW m, IsMessage(m)
    PROVE  /\ IsSystem(m) => AreSystems(<<m>>)
           /\ ~IsSystem(m) => AreRegular(<<m>>)
BY SingleIs DEF AreSystems, AreRegular, IsMessages

LEMMA TwoMessages ==
    ASSUME NEW a, NEW b
    PROVE  /\ AreSystems(a) /\ AreSystems(b) => AreSystems(a \o b)
           /\ AreRegular(a) /\ AreRegular(b) => AreRegular(a \o b)
<1>1. ASSUME IsMessages(a), IsMessages(b), NEW i \in DOMAIN (a \o b)
      PROVE  \/ \E j \in DOMAIN a : (a \o b)[i] = a[j]
             \/ \E j \in DOMAIN b : (a \o b)[i] = b[j]
  <2>1. /\ IsSeq(a \o b) /\ Len(a) \in Nat /\ Len(b) \in Nat /\ Len(a \o b) = Len(a) + Len(b)
        /\ \A j \in 1..Len(a) : (a \o b)[j] = a[j]
        /\ \A j \in 1..Len(b) : (a \o b)[Len(a) + j] = b[j]
    BY <1>1, ConcatIs DEF IsMessages
  <2>2. DOMAIN a = 1..Len(a) /\ DOMAIN b = 1..Len(b) /\ DOMAIN (a \o b) = 1..Len(a) + Len(b)
    BY <1>1, <2>1, SeqIs DEF IsMessages
  <2>3. CASE i <= Len(a)
    BY <1>1, <2>1, <2>2, <2>3
  <2>4. CASE ~(i <= Len(a))
    <3> DEFINE j == i - Len(a)
    <3>1. j \in 1..Len(b) /\ i = Len(a) + j
      BY <1>1, <2>1, <2>2, <2>4
    <3> QED
      BY <2>1, <2>2, <3>1
  <2> QED
    BY <2>3, <2>4
<1>2. ASSUME IsMessages(a), IsMessages(b) PROVE IsSeq(a \o b)
  BY <1>2, ConcatIs DEF IsMessages
<1> QED
  BY <1>1, <1>2 DEF AreSystems, AreRegular, IsMessages

\* An end of messages.
LEMMA EndOfRegular ==
    ASSUME NEW R, AreRegular(R), NEW k \in 1..Len(R) + 1
    PROVE  AreRegular(SubSeq(R, k, Len(R)))
<1> DEFINE E == SubSeq(R, k, Len(R))
<1>1. /\ IsSeq(E)
      /\ \A i \in 1..Len(E) : E[i] = R[k + i - 1] /\ k + i - 1 \in DOMAIN R
  BY EndIs DEF AreRegular, IsMessages
<1> HIDE DEF E
<1>2. DOMAIN E = 1..Len(E)
  BY <1>1, SeqIs
<1>3. AreRegular(E)
  BY <1>1, <1>2 DEF AreRegular, IsMessages
<1> QED
  BY <1>3 DEF E

\* What is trimmed is the beginning of the others.
LEMMA TrimmedIs ==
    ASSUME NEW ms, IsTalk(ms)
    PROVE  /\ ~TooLong(ms) => Trimmed(ms) = ms
           /\ TooLong(ms) => \E k \in 1..Len(Regular(ms)) + 1 :
                 Trimmed(ms) = Systems(ms) \o SubSeq(Regular(ms), k, Len(Regular(ms)))
<1> DEFINE R == Regular(ms)
           room == Limit - Weight(Systems(ms))
           fits == { k \in 1..Len(R) : Weight(SubSeq(R, k, Len(R))) <= room } \cup {Len(R) + 1}
           first == CHOOSE k \in fits : \A j \in fits : k <= j
<1>1. Len(R) \in Nat
  BY SeqIs DEF IsTalk, AreRegular, IsMessages
<1>2. LastThatFit(R, room) = SubSeq(R, first, Len(R))
  BY DEF LastThatFit
<1>3. first \in 1..Len(R) + 1
  <2>1. fits \subseteq 1..Len(R) + 1 /\ Len(R) + 1 \in fits
    BY <1>1
  <2> HIDE DEF fits
  <2>2. fits \subseteq Nat /\ fits # {}
    BY <1>1, <2>1
  <2>3. \E k \in fits : \A j \in fits : k <= j
    BY <2>2, Least
  <2> QED
    BY <2>1, <2>3
<1> HIDE DEF first
<1>4. TooLong(ms) => Trimmed(ms) = Systems(ms) \o SubSeq(R, first, Len(R))
  BY <1>2 DEF Trimmed
<1>5. ~TooLong(ms) => Trimmed(ms) = ms
  BY DEF Trimmed
<1> QED
  BY <1>3, <1>4, <1>5

\* The places of the calls of a message.
LEMMA CallPlaces ==
    ASSUME NEW m, IsMessage(m), NEW k \in DOMAIN m.calls
    PROVE  k \in Nat /\ 1 <= k /\ 1..k \subseteq DOMAIN m.calls
<1>1. DOMAIN m.calls = 1..Len(m.calls) /\ Len(m.calls) \in Nat
  BY SeqIs DEF IsMessage
<1> QED
  BY <1>1

\* b is a, but for the arguments of its calls.
Alike(a, b) ==
    /\ IsMessage(b)
    /\ b.role = a.role /\ b.text = a.text /\ b.w = a.w /\ b.for = a.for
    /\ DOMAIN b.calls = DOMAIN a.calls
    /\ \A k \in DOMAIN a.calls : b.calls[k].id = a.calls[k].id

\* What a service sees of a message's place.
SameShape(a, b) ==
    /\ Len(a) = Len(b)
    /\ \A i \in 1..Len(a) : /\ a[i].role = b[i].role /\ a[i].for = b[i].for
                            /\ DOMAIN a[i].calls = DOMAIN b[i].calls
                            /\ \A k \in DOMAIN a[i].calls : b[i].calls[k].id = a[i].calls[k].id

LEMMA ShapeKeeps ==
    ASSUME NEW a, NEW b, IsMessages(a), IsMessages(b), SameShape(a, b), WellFormed(a)
    PROVE  WellFormed(b)
<1> DEFINE n == Len(a)
<1>1. n \in Nat /\ DOMAIN a = 1..n /\ DOMAIN b = 1..n /\ Len(b) = n
  BY SeqIs DEF IsMessages, SameShape
<1> SUFFICES ASSUME NEW i \in 1..n PROVE Answered1(b, i) /\ StandsWell(b, i)
  BY <1>1 DEF WellFormed
<1>2. Answered1(a, i) /\ StandsWell(a, i) /\ IsMessage(a[i])
  BY <1>1 DEF WellFormed, IsMessages
<1>3. Answered1(b, i)
  <2> SUFFICES ASSUME NEW k \in DOMAIN b[i].calls
               PROVE  i + k <= n /\ b[i + k].role = "tool" /\ b[i + k].for = b[i].calls[k].id
    BY <1>1 DEF Answered1
  <2>1. k \in DOMAIN a[i].calls /\ b[i].calls[k].id = a[i].calls[k].id
    BY DEF SameShape
  <2>2. k \in Nat /\ 1 <= k
    BY <1>2, <2>1, CallPlaces
  <2>3. i + k <= n /\ a[i + k].role = "tool" /\ a[i + k].for = a[i].calls[k].id
    BY <1>2, <2>1 DEF Answered1
  <2>4. i + k \in 1..n
    BY <1>1, <2>2, <2>3
  <2> QED
    BY <2>1, <2>3, <2>4 DEF SameShape
<1>4. StandsWell(b, i)
  <2>1. \A c \in 1..i - 1 : c \in 1..n
    BY <1>1
  <2>2. \A c \in 1..i : c \in 1..n
    BY <1>1
  <2>3. \A c \in 1..n : a[c].role = b[c].role /\ DOMAIN a[c].calls = DOMAIN b[c].calls
    BY DEF SameShape
  <2> QED
    BY <1>2, <2>1, <2>2, <2>3 DEF StandsWell
<1> QED
  BY <1>3, <1>4

\* Messages of the system before the others.
LEMMA WellAfterSystems ==
    ASSUME NEW S, NEW R, AreSystems(S), AreRegular(R), WellFormed(R)
    PROVE  WellFormed(S \o R)
<1> DEFINE ms == S \o R
           m == Len(S)
           n == Len(R)
<1>1. IsSeq(S) /\ IsSeq(R) /\ DOMAIN S = 1..m /\ DOMAIN R = 1..n
  BY SeqIs DEF AreSystems, AreRegular, IsMessages
<1>2. /\ IsSeq(ms) /\ m \in Nat /\ n \in Nat /\ Len(ms) = m + n
      /\ \A i \in 1..m : ms[i] = S[i]
      /\ \A i \in 1..n : ms[m + i] = R[i]
  BY <1>1, ConcatIs
<1>3. DOMAIN ms = 1..m + n
  BY <1>2, SeqIs
<1> HIDE DEF ms, m, n
<1>4. ASSUME NEW i \in 1..m PROVE ms[i].role = "system" /\ DOMAIN ms[i].calls = {}
  <2>1. ms[i] = S[i] /\ IsMessage(S[i]) /\ IsSystem(S[i])
    BY <1>1, <1>2 DEF AreSystems, IsMessages
  <2>2. S[i].calls = <<>>
    BY <2>1 DEF IsMessage
  <2> QED
    BY <2>1, <2>2 DEF IsSystem
<1>5. ASSUME NEW i \in 1..n PROVE Answered1(ms, m + i) /\ StandsWell(ms, m + i)
  <2>1. Answered1(R, i) /\ StandsWell(R, i) /\ IsMessage(R[i]) /\ ms[m + i] = R[i]
    BY <1>1, <1>2 DEF WellFormed, AreRegular, IsMessages
  <2>2. ASSUME NEW k \in DOMAIN R[i].calls
        PROVE  /\ (m + i) + k <= m + n
               /\ ms[(m + i) + k].role = "tool"
               /\ ms[(m + i) + k].for = R[i].calls[k].id
    <3>1. k \in Nat /\ 1 <= k
      BY <2>1, CallPlaces
    <3>2. i + k <= n /\ R[i + k].role = "tool" /\ R[i + k].for = R[i].calls[k].id
      BY <2>1 DEF Answered1, n
    <3>3. i + k \in 1..n /\ m + (i + k) = (m + i) + k /\ (m + i) + k <= m + n
      BY <1>2, <3>1, <3>2
    <3> QED
      BY <1>2, <3>2, <3>3
  <2>3. Answered1(ms, m + i)
    BY <1>2, <2>1, <2>2 DEF Answered1
  <2>4. ASSUME R[i].role = "tool"
        PROVE  \/ \E c \in 1..(m + i) - 1 : (m + i) - c \in DOMAIN ms[c].calls
               \/ \A j \in 1..m + i : ms[j].role \in {"system", "tool"}
    <3>1. CASE \E c \in 1..i - 1 : i - c \in DOMAIN R[c].calls
      <4>1. PICK c \in 1..i - 1 : i - c \in DOMAIN R[c].calls
        BY <3>1
      <4>2. m + c \in 1..(m + i) - 1 /\ (m + i) - (m + c) = i - c /\ c \in 1..n
        BY <1>2
      <4> QED
        BY <1>2, <4>1, <4>2
    <3>2. CASE \A j \in 1..i : R[j].role \in {"system", "tool"}
      <4> SUFFICES ASSUME NEW j \in 1..m + i PROVE ms[j].role \in {"system", "tool"}
        OBVIOUS
      <4>1. CASE j <= m
        BY <1>2, <1>4, <4>1
      <4>2. CASE ~(j <= m)
        <5>1. j - m \in 1..i /\ j - m \in 1..n /\ m + (j - m) = j
          BY <1>2, <4>2
        <5> QED
          BY <1>2, <3>2, <5>1
      <4> QED
        BY <4>1, <4>2
    <3> QED
      BY <2>1, <2>4, <3>1, <3>2 DEF StandsWell
  <2>5. StandsWell(ms, m + i)
    BY <2>1, <2>4 DEF StandsWell
  <2> QED
    BY <2>3, <2>5
<1>6. ASSUME NEW i \in 1..m + n PROVE Answered1(ms, i) /\ StandsWell(ms, i)
  <2>1. CASE i <= m
    <3>1. i \in 1..m
      BY <1>2, <2>1
    <3> QED
      BY <1>4, <3>1 DEF Answered1, StandsWell
  <2>2. CASE ~(i <= m)
    <3>1. i - m \in 1..n /\ m + (i - m) = i
      BY <1>2, <2>2
    <3> QED
      BY <1>5, <3>1
  <2> QED
    BY <2>1, <2>2
<1>7. WellFormed(ms)
  BY <1>3, <1>6 DEF WellFormed
<1> QED
  BY <1>7 DEF ms

\* What a trim leaves of the others.
LEMMA WellEnd ==
    ASSUME NEW R, AreRegular(R), WellFormed(R), NEW a \in 1..Len(R) + 1
    PROVE  WellFormed(SubSeq(R, a, Len(R)))
<1> DEFINE E == SubSeq(R, a, Len(R))
           n == Len(R)
           b == a - 1
<1>1. IsSeq(R) /\ n \in Nat /\ DOMAIN R = 1..n
  BY SeqIs DEF AreRegular, IsMessages
<1>2. /\ IsSeq(E) /\ Len(E) = n + 1 - a
      /\ \A i \in 1..Len(E) : E[i] = R[a + i - 1] /\ a + i - 1 \in 1..n
  BY <1>1, EndIs
<1> DEFINE l == Len(E)
<1> HIDE DEF E, n
<1>3. b \in Nat /\ l \in Nat /\ b + l = n /\ DOMAIN E = 1..l
  <2>1. DOMAIN E = 1..l /\ l \in Nat
    BY <1>2, SeqIs
  <2> QED
    BY <1>1, <1>2, <2>1 DEF n
<1>4. \A i \in 1..l : E[i] = R[b + i] /\ b + i \in 1..n
  <2>1. \A i \in 1..l : a + i - 1 = b + i
    BY <1>3
  <2> QED
    BY <1>2, <2>1
<1> HIDE DEF b, l
<1> SUFFICES ASSUME NEW i \in 1..l PROVE Answered1(E, i) /\ StandsWell(E, i)
  BY <1>3 DEF WellFormed, E, n
<1>5. /\ Answered1(R, b + i) /\ StandsWell(R, b + i) /\ IsMessage(R[b + i])
      /\ E[i] = R[b + i]
  BY <1>1, <1>4 DEF WellFormed, AreRegular, IsMessages
<1>6. ASSUME NEW k \in DOMAIN R[b + i].calls
      PROVE  i + k <= l /\ E[i + k].role = "tool" /\ E[i + k].for = R[b + i].calls[k].id
  <2>1. k \in Nat /\ 1 <= k
    BY <1>5, CallPlaces
  <2>2. /\ (b + i) + k <= n
        /\ R[(b + i) + k].role = "tool" /\ R[(b + i) + k].for = R[b + i].calls[k].id
    BY <1>5 DEF Answered1, n
  <2>3. i + k \in 1..l /\ b + (i + k) = (b + i) + k
    BY <1>3, <2>1, <2>2
  <2> QED
    BY <1>4, <2>2, <2>3
<1>7. Answered1(E, i)
  BY <1>5, <1>6 DEF Answered1, l
<1>8. ASSUME R[b + i].role = "tool"
      PROVE  \/ \E c \in 1..i - 1 : i - c \in DOMAIN E[c].calls
             \/ \A j \in 1..i : E[j].role \in {"system", "tool"}
  <2>1. CASE \A j \in 1..b + i : R[j].role \in {"system", "tool"}
    <3>1. \A j \in 1..i : b + j \in 1..b + i /\ j \in 1..l
      BY <1>3
    <3> QED
      BY <1>4, <2>1, <3>1
  <2>2. CASE \E c \in 1..(b + i) - 1 : (b + i) - c \in DOMAIN R[c].calls
    <3>1. PICK c \in 1..(b + i) - 1 : (b + i) - c \in DOMAIN R[c].calls
      BY <2>2
    <3>2. CASE ~(c <= b)
      <4>1. c - b \in 1..i - 1 /\ i - (c - b) = (b + i) - c /\ b + (c - b) = c /\ c - b \in 1..l
        BY <1>3, <3>2
      <4>2. E[c - b] = R[c]
        BY <1>4, <4>1
      <4>3. i - (c - b) \in DOMAIN E[c - b].calls
        BY <3>1, <4>1, <4>2
      <4> QED
        BY <4>1, <4>3
    <3>3. CASE c <= b
      <4> SUFFICES ASSUME NEW j \in 1..i PROVE E[j].role \in {"system", "tool"}
        OBVIOUS
      <4> DEFINE k == (b + j) - c
      <4>1. c \in 1..n /\ k \in 1..(b + i) - c /\ c + k = b + j /\ j \in 1..l
        BY <1>3, <1>4, <3>3
      <4>2. Answered1(R, c) /\ IsMessage(R[c])
        BY <1>1, <4>1 DEF WellFormed, AreRegular, IsMessages
      <4>3. k \in DOMAIN R[c].calls
        BY <3>1, <4>1, <4>2, CallPlaces
      <4> HIDE DEF k
      <4>4. R[c + k].role = "tool"
        BY <4>2, <4>3 DEF Answered1
      <4> QED
        BY <1>4, <4>1, <4>4
    <3> QED
      BY <3>2, <3>3
  <2> QED
    BY <1>5, <1>8, <2>1, <2>2 DEF StandsWell
<1>9. StandsWell(E, i)
  BY <1>5, <1>8 DEF StandsWell
<1> QED
  BY <1>7, <1>9

LEMMA ConcatAll ==
    ASSUME NEW a, NEW b, NEW c, IsSeq(a), IsSeq(b), IsSeq(c)
    PROVE  a \o (b \o c) = (a \o b) \o c
<1> DEFINE S == ToSet(a) \cup ToSet(b) \cup ToSet(c)
<1>1. a \in Seq(ToSet(a)) /\ b \in Seq(ToSet(b)) /\ c \in Seq(ToSet(c))
  BY DEF IsSeq
<1>2. a \in Seq(S) /\ b \in Seq(S) /\ c \in Seq(S)
  BY <1>1, SeqMore
<1> HIDE DEF S
<1> QED
  BY <1>2

LEMMA ConcatMessages ==
    ASSUME NEW a, NEW b, IsMessages(a), IsMessages(b)
    PROVE  IsMessages(a \o b)
<1>1. /\ IsSeq(a \o b) /\ Len(a) \in Nat /\ Len(b) \in Nat /\ Len(a \o b) = Len(a) + Len(b)
      /\ \A j \in 1..Len(a) : (a \o b)[j] = a[j]
      /\ \A j \in 1..Len(b) : (a \o b)[Len(a) + j] = b[j]
  BY ConcatIs DEF IsMessages
<1>2. DOMAIN a = 1..Len(a) /\ DOMAIN b = 1..Len(b) /\ DOMAIN (a \o b) = 1..Len(a) + Len(b)
  BY <1>1, SeqIs DEF IsMessages
<1> SUFFICES ASSUME NEW i \in 1..Len(a) + Len(b) PROVE IsMessage((a \o b)[i])
  BY <1>1, <1>2 DEF IsMessages
<1>3. CASE i <= Len(a)
  <2>1. i \in 1..Len(a)
    BY <1>1, <1>3
  <2> QED
    BY <1>1, <1>2, <2>1 DEF IsMessages
<1>4. CASE ~(i <= Len(a))
  <2> DEFINE j == i - Len(a)
  <2>1. j \in 1..Len(b) /\ i = Len(a) + j
    BY <1>1, <1>4
  <2> HIDE DEF j
  <2> QED
    BY <1>1, <1>2, <2>1 DEF IsMessages
<1> QED
  BY <1>3, <1>4

\* What is well formed stays so before a message and the answers to its calls.
LEMMA WellMore ==
    ASSUME NEW a, NEW b, IsMessages(a), IsMessages(b), WellFormed(a), Len(b) > 0,
           b[1].role # "tool",
           \A k \in DOMAIN b[1].calls : 1 + k <= Len(b) /\ b[1 + k].for = b[1].calls[k].id,
           \A i \in 2..Len(b) : b[i].role = "tool" /\ b[i].calls = <<>>
                                /\ i - 1 \in DOMAIN b[1].calls
    PROVE  WellFormed(a \o b)
<1> DEFINE ms == a \o b
           m == Len(a)
           n == Len(b)
<1>1. IsSeq(a) /\ IsSeq(b) /\ DOMAIN a = 1..m /\ DOMAIN b = 1..n
  BY SeqIs DEF IsMessages
<1>2. /\ IsSeq(ms) /\ m \in Nat /\ n \in Nat /\ Len(ms) = m + n
      /\ \A i \in 1..m : ms[i] = a[i]
      /\ \A i \in 1..n : ms[m + i] = b[i]
  BY <1>1, ConcatIs
<1>3. DOMAIN ms = 1..m + n
  BY <1>2, SeqIs
<1> HIDE DEF ms, m, n
<1>4. ASSUME NEW i \in 1..m PROVE Answered1(ms, i) /\ StandsWell(ms, i)
  <2>1. Answered1(a, i) /\ StandsWell(a, i) /\ IsMessage(a[i]) /\ ms[i] = a[i]
    BY <1>1, <1>2 DEF WellFormed, IsMessages
  <2>2. ASSUME NEW k \in DOMAIN a[i].calls
        PROVE  i + k <= m + n /\ ms[i + k].role = "tool" /\ ms[i + k].for = a[i].calls[k].id
    <3>1. k \in Nat /\ 1 <= k
      BY <2>1, CallPlaces
    <3>2. i + k <= m /\ a[i + k].role = "tool" /\ a[i + k].for = a[i].calls[k].id
      BY <2>1 DEF Answered1, m
    <3>3. i + k \in 1..m /\ i + k <= m + n
      BY <1>2, <3>1, <3>2
    <3> QED
      BY <1>2, <3>2, <3>3
  <2>3. Answered1(ms, i)
    BY <1>2, <2>1, <2>2 DEF Answered1
  <2>4. 1..i \subseteq 1..m /\ 1..i - 1 \subseteq 1..m
    BY <1>2
  <2>5. \A c \in 1..m : ms[c] = a[c]
    BY <1>2
  <2>6. StandsWell(ms, i)
    BY <2>1, <2>4, <2>5 DEF StandsWell
  <2> QED
    BY <2>3, <2>6
<1>5. ms[m + 1] = b[1] /\ IsMessage(b[1])
  <2>1. 1 \in 1..n
    BY <1>2 DEF n
  <2> QED
    BY <1>1, <1>2, <2>1 DEF IsMessages
<1>6. Answered1(ms, m + 1) /\ StandsWell(ms, m + 1)
  <2>1. ASSUME NEW k \in DOMAIN b[1].calls
        PROVE  /\ (m + 1) + k <= m + n
               /\ ms[(m + 1) + k].role = "tool" /\ ms[(m + 1) + k].for = b[1].calls[k].id
    <3>1. k \in Nat /\ 1 <= k
      BY <1>5, CallPlaces
    <3>2. 1 + k <= n /\ b[1 + k].for = b[1].calls[k].id
      BY DEF n
    <3>3. 1 + k \in 1..n /\ 1 + k \in 2..n /\ m + (1 + k) = (m + 1) + k /\ (m + 1) + k <= m + n
      BY <1>2, <3>1, <3>2
    <3>4. b[1 + k].role = "tool"
      BY <3>3 DEF n
    <3> QED
      BY <1>2, <3>2, <3>3, <3>4
  <2>2. Answered1(ms, m + 1)
    BY <1>2, <1>5, <2>1 DEF Answered1
  <2> QED
    BY <1>5, <2>2 DEF StandsWell
<1>7. ASSUME NEW i \in 2..n PROVE Answered1(ms, m + i) /\ StandsWell(ms, m + i)
  <2>1. b[i].role = "tool" /\ b[i].calls = <<>> /\ i - 1 \in DOMAIN b[1].calls
    BY DEF n
  <2>2. ms[m + i] = b[i]
    BY <1>2
  <2>3. m + 1 \in 1..(m + i) - 1 /\ (m + i) - (m + 1) = i - 1
    BY <1>2
  <2>4. (m + i) - (m + 1) \in DOMAIN ms[m + 1].calls
    BY <1>5, <2>1, <2>3
  <2>5. StandsWell(ms, m + i)
    BY <2>3, <2>4 DEF StandsWell
  <2>6. DOMAIN ms[m + i].calls = {}
    BY <2>1, <2>2
  <2> QED
    BY <2>5, <2>6 DEF Answered1
<1>8. ASSUME NEW i \in 1..m + n PROVE Answered1(ms, i) /\ StandsWell(ms, i)
  <2>1. CASE i <= m
    <3>1. i \in 1..m
      BY <1>2, <2>1
    <3> QED
      BY <1>4, <3>1
  <2>2. CASE i = m + 1
    BY <1>6, <2>2
  <2>3. CASE ~(i <= m) /\ i # m + 1
    <3>1. i - m \in 2..n /\ m + (i - m) = i
      BY <1>2, <2>3
    <3> QED
      BY <1>7, <3>1
  <2> QED
    BY <2>1, <2>2, <2>3
<1>9. WellFormed(ms)
  BY <1>3, <1>8 DEF WellFormed
<1> QED
  BY <1>9 DEF ms

\* A message that calls nothing and answers nothing.
LEMMA WellAppend ==
    ASSUME NEW ms, IsMessages(ms), WellFormed(ms),
           NEW m, IsMessage(m), m.calls = <<>>, m.role # "tool"
    PROVE  IsMessages(Append(ms, m)) /\ WellFormed(Append(ms, m))
<1>1. Append(ms, m) = ms \o <<m>>
  BY AppendConcat DEF IsMessages
<1>2. IsMessages(<<m>>) /\ Len(<<m>>) = 1 /\ <<m>>[1] = m
  BY SingleIs DEF IsMessages
<1> DEFINE b == <<m>>
<1> HIDE DEF b
<1>3. DOMAIN m.calls = {} /\ 2..Len(b) = {}
  BY <1>2 DEF b
<1>4. WellFormed(ms \o b)
  BY <1>2, <1>3, WellMore DEF b
<1> QED
  BY <1>1, <1>2, <1>4, ConcatMessages DEF b

\* The answers that are still to come.
Answers(cs) == [k \in DOMAIN cs |-> ToolAnswer(cs[k], 1)]

LEMMA AnswersAre ==
    ASSUME NEW cs, IsSeq(cs)
    PROVE  LET b == Answers(cs)
           IN  /\ AreRegular(b) /\ Len(b) = Len(cs) /\ Len(cs) \in Nat
               /\ \A k \in DOMAIN cs : b[k].role = "tool" /\ b[k].calls = <<>>
                                       /\ b[k].for = cs[k].id
<1> DEFINE b == Answers(cs)
<1>1. DOMAIN cs = 1..Len(cs) /\ Len(cs) \in Nat
  BY SeqIs
<1>2. b = [k \in 1..Len(cs) |-> b[k]]
  BY <1>1 DEF Answers
<1>3. \A k \in DOMAIN cs : b[k] = Message("tool", <<"answer">>, 1, <<>>, cs[k].id)
  BY DEF Answers, ToolAnswer
<1> HIDE DEF b
<1>4. IsSeq(b) /\ Len(b) = Len(cs) /\ DOMAIN b = DOMAIN cs
  BY <1>1, <1>2, IsSeqFunction
<1>5. ASSUME NEW k \in DOMAIN cs
      PROVE  /\ IsMessage(b[k]) /\ ~IsSystem(b[k])
             /\ b[k].role = "tool" /\ b[k].calls = <<>> /\ b[k].for = cs[k].id
  BY <1>3, PlainIs
<1> QED
  BY <1>1, <1>4, <1>5 DEF AreRegular, IsMessages, b

\* A sequence after one element.
LEMMA FirstAndRest ==
    ASSUME NEW m, NEW t, IsSeq(t)
    PROVE  LET b == <<m>> \o t
           IN  /\ IsSeq(b) /\ Len(t) \in Nat /\ Len(b) = 1 + Len(t) /\ b[1] = m
               /\ \A k \in 1..Len(t) : b[1 + k] = t[k]
<1> DEFINE one == <<m>>
<1>a. IsSeq(one)
  BY SingleIs
<1>1. Len(one) = 1 /\ one[1] = m
  BY SingleIs
<1> HIDE DEF one
<1>2. /\ IsSeq(one \o t)
      /\ Len(t) \in Nat /\ Len(one \o t) = Len(one) + Len(t)
      /\ \A i \in 1..Len(one) : (one \o t)[i] = one[i]
      /\ \A i \in 1..Len(t) : (one \o t)[Len(one) + i] = t[i]
  BY <1>a, ConcatIs
<1> DEFINE b == one \o t
<1>3. /\ IsSeq(b) /\ Len(t) \in Nat /\ Len(b) = 1 + Len(t) /\ b[1] = m
      /\ \A k \in 1..Len(t) : b[1 + k] = t[k]
  BY <1>1, <1>2
<1> QED
  BY <1>3 DEF one

\* A message with its calls and their answers.
LEMMA WellCalled ==
    ASSUME NEW R, AreRegular(R), WellFormed(R),
           NEW m, IsMessage(m), ~IsSystem(m), m.role # "tool"
    PROVE  /\ AreRegular(R \o <<m>>)
           /\ WellFormed((R \o <<m>>) \o Answers(m.calls))
<1> DEFINE A == Answers(m.calls)
           one == <<m>>
           b == one \o A
           c == Len(m.calls)
<1>1. IsSeq(m.calls) /\ DOMAIN m.calls = 1..c
  BY SeqIs DEF IsMessage
<1>2. /\ AreRegular(A) /\ Len(A) = c /\ c \in Nat
      /\ \A k \in 1..c : A[k].role = "tool" /\ A[k].calls = <<>> /\ A[k].for = m.calls[k].id
  BY <1>1, AnswersAre
<1>3. AreRegular(one) /\ IsSeq(one) /\ Len(one) = 1 /\ one[1] = m
  BY OneMessage, SingleIs
<1>4. IsSeq(R) /\ IsSeq(A)
  BY <1>2 DEF AreRegular, IsMessages
<1> HIDE DEF A, one, c
<1>5. /\ AreRegular(b) /\ Len(b) = 1 + c /\ b[1] = m
      /\ \A k \in 1..c : b[1 + k] = A[k]
  <2>1. AreRegular(b)
    BY <1>2, <1>3, TwoMessages
  <2>2. /\ Len(b) = 1 + Len(A) /\ b[1] = m
        /\ \A k \in 1..Len(A) : b[1 + k] = A[k]
    BY <1>4, FirstAndRest DEF one
  <2> HIDE DEF b
  <2> QED
    BY <1>2, <2>1, <2>2
<1> HIDE DEF b
<1>6. ASSUME NEW i \in 2..Len(b)
      PROVE  b[i].role = "tool" /\ b[i].calls = <<>> /\ i - 1 \in DOMAIN b[1].calls
  <2>1. i - 1 \in 1..c /\ 1 + (i - 1) = i
    BY <1>2, <1>5
  <2> QED
    BY <1>1, <1>2, <1>5, <2>1
<1>7. ASSUME NEW k \in DOMAIN b[1].calls
      PROVE  1 + k <= Len(b) /\ b[1 + k].for = b[1].calls[k].id
  BY <1>1, <1>2, <1>5
<1>8. WellFormed(R \o b)
  <2>1. IsMessages(R) /\ IsMessages(b) /\ Len(b) > 0 /\ b[1].role # "tool"
    BY <1>2, <1>5 DEF AreRegular
  <2> QED
    BY <1>6, <1>7, <2>1, WellMore
<1>9. R \o b = (R \o one) \o A
  BY <1>3, <1>4, ConcatAll DEF b
<1> QED
  BY <1>3, <1>8, <1>9, TwoMessages DEF one, A

AllAlike(a, b) == Len(b) = Len(a) /\ \A i \in 1..Len(a) : Alike(a[i], b[i])

\* A fix changes arguments and nothing else.
LEMMA CallFixed ==
    ASSUME NEW m, IsMessage(m), NEW id
    PROVE  LET fix(c) == IF c.id = id THEN [c EXCEPT !.args = "fixed"] ELSE c
               f == [m EXCEPT !.calls = [k \in DOMAIN @ |-> fix(@[k])]]
           IN  Alike(m, f) /\ (IsSystem(m) => f = m)
<1> DEFINE fix(c) == IF c.id = id THEN [c EXCEPT !.args = "fixed"] ELSE c
           cs == [k \in DOMAIN m.calls |-> fix(m.calls[k])]
           f == [m EXCEPT !.calls = cs]
<1>1. DOMAIN m.calls = 1..Len(m.calls) /\ Len(m.calls) \in Nat
  BY SeqIs DEF IsMessage
<1>2. ASSUME NEW c, IsToolCall(c) PROVE IsToolCall(fix(c)) /\ fix(c).id = c.id
  BY <1>2 DEF IsToolCall
<1> HIDE DEF fix
<1>3. \A k \in DOMAIN m.calls : cs[k] = fix(m.calls[k])
  OBVIOUS
<1>4. cs = [k \in 1..Len(m.calls) |-> cs[k]] /\ DOMAIN cs = DOMAIN m.calls
  BY <1>1
<1>5. IsSeq(cs)
  BY <1>1, <1>4, IsSeqFunction
<1>6. \A k \in DOMAIN m.calls : IsToolCall(cs[k]) /\ cs[k].id = m.calls[k].id
  BY <1>2, <1>3 DEF IsMessage
<1>7. IsSystem(m) => cs = m.calls
  <2>1. ASSUME IsSystem(m) PROVE m.calls = <<>>
    BY <2>1 DEF IsMessage
  <2>2. ASSUME IsSystem(m) PROVE Len(cs) = 0
    BY <1>1, <1>4, <1>5, <2>1, <2>2, SeqIs, EmptyIs, IsSeqFunction
  <2> HIDE DEF cs
  <2> QED
    BY <1>5, <2>1, <2>2, NoneIsEmpty
<1> HIDE DEF cs
<1>8. /\ f \in [role : {f.role}, text : {f.text}, w : {f.w}, calls : {f.calls}, for : {f.for}]
      /\ f.role = m.role /\ f.text = m.text /\ f.w = m.w /\ f.for = m.for /\ f.calls = cs
  BY DEF IsMessage
<1>9. IsSystem(m) => f = m
  BY <1>7, <1>8 DEF IsMessage
<1> HIDE DEF f
<1>10. Alike(m, f)
  BY <1>4, <1>5, <1>6, <1>7, <1>8 DEF Alike, IsMessage, IsSystem
<1> QED
  BY <1>9, <1>10 DEF f, cs, fix

LEMMA AlikeSelf == ASSUME NEW m, IsMessage(m) PROVE Alike(m, m)
BY DEF Alike

LEMMA FixIs ==
    ASSUME NEW ms, IsMessages(ms), NEW id
    PROVE  LET f == WithFixedCall(ms, id)
           IN  /\ IsMessages(f) /\ AllAlike(ms, f)
               /\ \A i \in DOMAIN ms : IsSystem(ms[i]) => f[i] = ms[i]
<1> DEFINE f == WithFixedCall(ms, id)
           has == { i \in DOMAIN ms : \E c \in ToSet(ms[i].calls) : c.id = id }
           at == CHOOSE i \in has : \A j \in has : j <= i
           fix(c) == IF c.id = id THEN [c EXCEPT !.args = "fixed"] ELSE c
           F(m) == [m EXCEPT !.calls = [k \in DOMAIN @ |-> fix(@[k])]]
<1>1. IsSeq(ms) /\ DOMAIN ms = 1..Len(ms) /\ Len(ms) \in Nat
      /\ \A i \in DOMAIN ms : IsMessage(ms[i])
  BY SeqIs DEF IsMessages
<1>2. f = IF has = {} THEN ms ELSE [ms EXCEPT ![at].calls = [k \in DOMAIN @ |-> fix(@[k])]]
  BY DEF WithFixedCall
<1>3. \A m : IsMessage(m) => Alike(m, F(m)) /\ (IsSystem(m) => F(m) = m)
  BY CallFixed
<1>4. ms = [i \in 1..Len(ms) |-> ms[i]]
  BY <1>1 DEF IsSeq
<1>5. \/ f = ms
      \/ f = [i \in 1..Len(ms) |-> IF i = at THEN F(ms[i]) ELSE ms[i]]
  <2>1. CASE has = {}
    BY <1>2, <2>1
  <2>2. CASE has # {}
    <3>1. f = [ms EXCEPT ![at] = F(ms[at])]
      BY <1>2, <2>2
    <3> HIDE DEF at, F, f, has
    <3>2. f = [i \in 1..Len(ms) |-> IF i = at THEN F(ms[i]) ELSE ms[i]]
      BY <1>1, <3>1
    <3> QED
      BY <3>2
  <2> QED
    BY <2>1, <2>2
<1> HIDE DEF at, F, f, has
<1>6. /\ f = [i \in 1..Len(ms) |-> f[i]]
      /\ \A i \in 1..Len(ms) : f[i] = ms[i] \/ f[i] = F(ms[i])
  BY <1>4, <1>5
<1>7. IsSeq(f) /\ Len(f) = Len(ms) /\ DOMAIN f = 1..Len(ms)
  BY <1>1, <1>6, IsSeqFunction
<1>8. ASSUME NEW i \in 1..Len(ms)
      PROVE  Alike(ms[i], f[i]) /\ IsMessage(f[i]) /\ (IsSystem(ms[i]) => f[i] = ms[i])
  BY <1>1, <1>3, <1>6, AlikeSelf DEF Alike
<1> QED
  BY <1>1, <1>7, <1>8 DEF IsMessages, AllAlike, f

LEMMA AlikeShape ==
    ASSUME NEW a, NEW b, AllAlike(a, b)
    PROVE  SameShape(a, b)
BY DEF AllAlike, SameShape, Alike

\* The system messages are no part of a fix.
LEMMA FixOfTalk ==
    ASSUME NEW ms, IsTalk(ms), NEW id
    PROVE  LET f == WithFixedCall(ms, id)
           IN  /\ IsTalk(f) /\ Systems(f) = Systems(ms)
               /\ AllAlike(Regular(ms), Regular(f)) /\ AllAlike(ms, f)
<1> DEFINE f == WithFixedCall(ms, id)
           S == Systems(ms)
           R == Regular(ms)
           m == Len(S)
           n == Len(R)
           F == [i \in 1..n |-> f[m + i]]
<1>1. AreSystems(S) /\ AreRegular(R) /\ ms = S \o R
  BY DEF IsTalk
<1>2. IsSeq(S) /\ DOMAIN S = 1..m
  BY <1>1, SeqIs DEF AreSystems, IsMessages
<1>3. IsSeq(R) /\ DOMAIN R = 1..n
  BY <1>1, SeqIs DEF AreRegular, IsMessages
<1> HIDE DEF S, R
<1>4. /\ IsSeq(S \o R)
      /\ m \in Nat /\ n \in Nat /\ Len(S \o R) = m + n
      /\ \A i \in 1..m : (S \o R)[i] = S[i]
      /\ \A i \in 1..n : (S \o R)[m + i] = R[i]
  BY <1>2, <1>3, ConcatIs
<1>5. IsMessages(ms) /\ DOMAIN ms = 1..m + n
  <2>1. IsMessages(S) /\ IsMessages(R)
    BY <1>1 DEF AreSystems, AreRegular
  <2>2. IsMessages(S \o R)
    BY <2>1, ConcatMessages
  <2>3. DOMAIN (S \o R) = 1..m + n
    BY <1>4, SeqIs
  <2> QED
    BY <1>1, <2>2, <2>3
<1>6. /\ IsMessages(f) /\ AllAlike(ms, f)
      /\ \A i \in DOMAIN ms : IsSystem(ms[i]) => f[i] = ms[i]
  BY <1>5, FixIs
<1> HIDE DEF f, m, n
<1>7. Len(f) = m + n /\ Len(ms) = m + n
  BY <1>1, <1>4, <1>6 DEF AllAlike
<1>8. \A i \in 1..m : f[i] = S[i]
  <2>1. \A i \in 1..m : i \in 1..m + n /\ IsSystem(S[i]) /\ ms[i] = S[i]
    BY <1>1, <1>2, <1>4 DEF AreSystems
  <2> QED
    BY <1>5, <1>6, <2>1
<1>9. \A i \in 1..n : f[m + i] = F[i] /\ Alike(R[i], F[i])
  <2>1. \A i \in 1..n : m + i \in 1..m + n /\ ms[m + i] = R[i]
    <3>1. \A i \in 1..n : m + i \in 1..m + n
      BY <1>4
    <3>2. \A i \in 1..n : (S \o R)[m + i] = R[i]
      BY <1>4
    <3> QED
      BY <1>1, <3>1, <3>2
  <2>2. \A i \in 1..m + n : Alike(ms[i], f[i])
    BY <1>6, <1>7 DEF AllAlike
  <2>3. \A i \in 1..n : f[m + i] = F[i]
    OBVIOUS
  <2> HIDE DEF F
  <2> QED
    BY <2>1, <2>2, <2>3
<1>10. F = [i \in 1..n |-> F[i]]
  OBVIOUS
<1> HIDE DEF F
<1>11. IsSeq(F) /\ Len(F) = n /\ DOMAIN F = 1..n
  BY <1>4, <1>10, IsSeqFunction
<1>12. AreRegular(F)
  <2>1. \A i \in 1..n : IsMessage(F[i]) /\ ~IsSystem(F[i])
    BY <1>1, <1>3, <1>9 DEF AreRegular, Alike, IsSystem
  <2> QED
    BY <1>11, <2>1 DEF AreRegular, IsMessages
<1>13. f = S \o F
  <2>1. /\ IsSeq(S \o F)
        /\ Len(S) \in Nat /\ Len(F) \in Nat /\ Len(S \o F) = Len(S) + Len(F)
        /\ \A i \in 1..Len(S) : (S \o F)[i] = S[i]
        /\ \A i \in 1..Len(F) : (S \o F)[Len(S) + i] = F[i]
    BY <1>2, <1>11, ConcatIs
  <2> DEFINE g == S \o F
  <2> HIDE DEF g
  <2>2. /\ IsSeq(g) /\ Len(g) = m + n
        /\ \A i \in 1..m : g[i] = S[i]
        /\ \A i \in 1..n : g[m + i] = F[i]
    BY <1>11, <2>1 DEF g, m
  <2>3. ASSUME NEW i \in 1..m + n PROVE f[i] = g[i]
    <3>1. CASE i <= m
      <4>1. i \in 1..m
        BY <1>4, <3>1
      <4> QED
        BY <1>8, <2>2, <4>1
    <3>2. CASE ~(i <= m)
      <4>1. i - m \in 1..n /\ m + (i - m) = i
        BY <1>4, <3>2
      <4> QED
        BY <1>9, <2>2, <4>1
    <3> QED
      BY <3>1, <3>2
  <2>4. IsSeq(f)
    BY <1>6 DEF IsMessages
  <2>5. f = g
    BY <1>7, <2>2, <2>3, <2>4, SameSeq
  <2> QED
    BY <2>5 DEF g
<1>14. Systems(f) = S /\ Regular(f) = F /\ IsTalk(f)
  BY <1>1, <1>12, <1>13, TalkOf
<1>15. AllAlike(R, F)
  BY <1>9, <1>11 DEF AllAlike, n
<1> QED
  BY <1>6, <1>14, <1>15 DEF f, S, R

(* The beginning of a conversation *)
\* The first k messages are well formed by themselves.
WellUpTo(ms, k) == k \in 1..Len(ms) /\ WellFormed(SubSeq(ms, 1, k))

LEMMA BeginningMessages ==
    ASSUME NEW ms, IsMessages(ms), NEW k \in 0..Len(ms)
    PROVE  LET b == SubSeq(ms, 1, k)
           IN  IsMessages(b) /\ Len(b) = k /\ \A i \in 1..k : b[i] = ms[i] /\ i \in 1..Len(ms)
<1> DEFINE b == SubSeq(ms, 1, k)
<1>1. DOMAIN ms = 1..Len(ms) /\ Len(ms) \in Nat
  BY SeqIs DEF IsMessages
<1>2. IsSeq(b) /\ Len(b) = k /\ \A i \in 1..k : b[i] = ms[i] /\ i \in DOMAIN ms
  BY BeginningIs DEF IsMessages
<1> HIDE DEF b
<1>3. DOMAIN b = 1..k
  BY <1>2, SeqIs
<1> QED
  BY <1>1, <1>2, <1>3 DEF IsMessages, b

LEMMA WellAll ==
    ASSUME NEW ms, IsMessages(ms), WellFormed(ms), Len(ms) > 0
    PROVE  WellUpTo(ms, Len(ms))
<1> DEFINE n == Len(ms)
           b == SubSeq(ms, 1, n)
<1>1. IsSeq(ms) /\ n \in Nat
  BY SeqIs DEF IsMessages
<1>2. IsSeq(b) /\ Len(b) = n /\ \A i \in 1..n : b[i] = ms[i]
  <2>1. n \in 0..Len(ms)
    BY <1>1
  <2> QED
    BY <1>1, <2>1, BeginningIs
<1> HIDE DEF b
<1>3. b = ms
  BY <1>1, <1>2, SameSeq
<1>4. WellFormed(b) /\ n \in 1..Len(ms)
  BY <1>1, <1>3
<1> QED
  BY <1>4, Zenon DEF WellUpTo, b

LEMMA WellLonger ==
    ASSUME NEW ms, IsMessages(ms), NEW more, IsMessages(more), NEW k, WellUpTo(ms, k)
    PROVE  WellUpTo(ms \o more, k)
<1> DEFINE all == ms \o more
           a == SubSeq(ms, 1, k)
           b == SubSeq(all, 1, k)
<1>1. IsSeq(ms) /\ IsSeq(more) /\ k \in 1..Len(ms)
  BY DEF IsMessages, WellUpTo
<1>2. /\ IsSeq(all)
      /\ Len(ms) \in Nat /\ Len(more) \in Nat /\ Len(all) = Len(ms) + Len(more)
      /\ \A i \in 1..Len(ms) : all[i] = ms[i]
  BY <1>1, ConcatIs
<1> HIDE DEF all
<1>3. k \in 0..Len(ms) /\ k \in 0..Len(all) /\ k \in 1..Len(all)
  BY <1>1, <1>2
<1>4. IsSeq(a) /\ Len(a) = k /\ \A i \in 1..k : a[i] = ms[i]
  BY <1>1, <1>3, BeginningIs
<1>5. IsSeq(b) /\ Len(b) = k /\ \A i \in 1..k : b[i] = all[i]
  BY <1>2, <1>3, BeginningIs
<1>6. \A i \in 1..k : i \in 1..Len(ms)
  BY <1>1, <1>2
<1> HIDE DEF a, b
<1>7. \A i \in 1..Len(a) : a[i] = b[i]
  BY <1>2, <1>4, <1>5, <1>6
<1>8. a = b
  BY <1>4, <1>5, <1>7, SameSeq
<1> QED
  BY <1>3, <1>8 DEF WellUpTo, a, b, all

LEMMA WellAlike ==
    ASSUME NEW ms, IsMessages(ms), NEW f, IsMessages(f), AllAlike(ms, f), NEW k, WellUpTo(ms, k)
    PROVE  WellUpTo(f, k)
<1> DEFINE a == SubSeq(ms, 1, k)
           b == SubSeq(f, 1, k)
<1>1. Len(f) = Len(ms) /\ Len(ms) \in Nat /\ k \in 1..Len(ms)
  BY SeqIs DEF IsMessages, AllAlike, WellUpTo
<1>2. k \in 0..Len(ms) /\ k \in 0..Len(f) /\ k \in 1..Len(f)
  BY <1>1
<1>3. IsMessages(a) /\ Len(a) = k /\ \A i \in 1..k : a[i] = ms[i] /\ i \in 1..Len(ms)
  BY <1>2, BeginningMessages
<1>4. IsMessages(b) /\ Len(b) = k /\ \A i \in 1..k : b[i] = f[i] /\ i \in 1..Len(f)
  BY <1>2, BeginningMessages
<1> HIDE DEF a, b
<1>5. AllAlike(a, b)
  BY <1>3, <1>4 DEF AllAlike
<1>6. WellFormed(a)
  BY DEF WellUpTo, a
<1>7. WellFormed(b)
  BY <1>3, <1>4, <1>5, <1>6, AlikeShape, ShapeKeeps
<1> QED
  BY <1>2, <1>7 DEF WellUpTo, b

(* The messages but for their arguments *)
OutlineOf(m) == [m EXCEPT !.calls = [k \in DOMAIN @ |-> @[k].id]]

LEMMA OutlineIs ==
    ASSUME NEW ms, IsSeq(ms)
    PROVE  /\ IsSeq(Outline(ms)) /\ Len(Outline(ms)) = Len(ms)
           /\ \A i \in 1..Len(ms) : Outline(ms)[i] = OutlineOf(ms[i])
<1> DEFINE o == Outline(ms)
<1>1. DOMAIN ms = 1..Len(ms) /\ Len(ms) \in Nat
  BY SeqIs
<1>2. o = [i \in 1..Len(ms) |-> OutlineOf(ms[i])]
  BY <1>1 DEF Outline, OutlineOf
<1> HIDE DEF o
<1>3. o = [i \in 1..Len(ms) |-> o[i]] /\ \A i \in 1..Len(ms) : o[i] = OutlineOf(ms[i])
  BY <1>2
<1>4. IsSeq(o) /\ Len(o) = Len(ms)
  BY <1>1, <1>3, IsSeqFunction
<1> QED
  BY <1>3, <1>4 DEF o

LEMMA OutlineConcat ==
    ASSUME NEW a, NEW b, IsSeq(a), IsSeq(b)
    PROVE  Outline(a \o b) = Outline(a) \o Outline(b)
<1> DEFINE ab == a \o b
           oa == Outline(a)
           ob == Outline(b)
           o == Outline(ab)
           oab == oa \o ob
           m == Len(a)
           n == Len(b)
<1>1. /\ IsSeq(ab) /\ m \in Nat /\ n \in Nat /\ Len(ab) = m + n
      /\ \A i \in 1..m : ab[i] = a[i]
      /\ \A i \in 1..n : ab[m + i] = b[i]
  BY ConcatIs
<1>2. IsSeq(oa) /\ Len(oa) = m /\ \A i \in 1..m : oa[i] = OutlineOf(a[i])
  BY OutlineIs
<1>3. IsSeq(ob) /\ Len(ob) = n /\ \A i \in 1..n : ob[i] = OutlineOf(b[i])
  BY OutlineIs
<1> HIDE DEF ab, oa, ob
<1>4. IsSeq(o) /\ Len(o) = Len(ab) /\ \A i \in 1..Len(ab) : o[i] = OutlineOf(ab[i])
  BY <1>1, OutlineIs
<1>a. IsSeq(oa) /\ IsSeq(ob)
  BY <1>2, <1>3
<1>5. /\ IsSeq(oab)
      /\ Len(oa) \in Nat /\ Len(ob) \in Nat /\ Len(oab) = Len(oa) + Len(ob)
      /\ \A i \in 1..Len(oa) : oab[i] = oa[i]
      /\ \A i \in 1..Len(ob) : oab[Len(oa) + i] = ob[i]
  BY <1>a, ConcatIs
<1> HIDE DEF o, oab, m, n
<1>6. /\ Len(oab) = m + n
      /\ \A i \in 1..m : oab[i] = OutlineOf(a[i])
      /\ \A i \in 1..n : oab[m + i] = OutlineOf(b[i])
  BY <1>2, <1>3, <1>5
<1>7. ASSUME NEW i \in 1..m + n PROVE o[i] = oab[i]
  <2>1. o[i] = OutlineOf(ab[i])
    BY <1>1, <1>4
  <2>2. CASE i <= m
    <3>1. i \in 1..m
      BY <1>1, <2>2
    <3> QED
      BY <1>1, <1>6, <2>1, <3>1
  <2>3. CASE ~(i <= m)
    <3>1. i - m \in 1..n /\ m + (i - m) = i
      BY <1>1, <2>3
    <3> QED
      BY <1>1, <1>6, <2>1, <3>1
  <2> QED
    BY <2>2, <2>3
<1>8. o = oab
  BY <1>1, <1>4, <1>5, <1>6, <1>7, SameSeq
<1> QED
  BY <1>8 DEF o, ab, oab, oa, ob

LEMMA OutlineAlike ==
    ASSUME NEW a, NEW b, IsMessages(a), IsMessages(b), AllAlike(a, b)
    PROVE  Outline(a) = Outline(b)
<1> DEFINE n == Len(a)
           oa == Outline(a)
           ob == Outline(b)
<1>1. IsSeq(oa) /\ Len(oa) = n /\ \A i \in 1..n : oa[i] = OutlineOf(a[i])
  BY OutlineIs DEF IsMessages
<1>2. IsSeq(ob) /\ Len(ob) = n /\ \A i \in 1..n : ob[i] = OutlineOf(b[i])
  BY OutlineIs DEF IsMessages, AllAlike
<1>3. ASSUME NEW i \in 1..n PROVE OutlineOf(a[i]) = OutlineOf(b[i])
  <2> DEFINE x == a[i]
             y == b[i]
             X == [k \in DOMAIN x.calls |-> x.calls[k].id]
             Y == [k \in DOMAIN y.calls |-> y.calls[k].id]
  <2>1. n = Len(b) /\ DOMAIN a = 1..n /\ DOMAIN b = 1..n
    BY SeqIs DEF IsMessages, AllAlike
  <2>2. IsMessage(x) /\ IsMessage(y) /\ Alike(x, y)
    BY <2>1 DEF IsMessages, AllAlike
  <2> HIDE DEF x, y
  <2>3. X = Y
    BY <2>2 DEF Alike
  <2>4. OutlineOf(x) = [x EXCEPT !.calls = X] /\ OutlineOf(y) = [y EXCEPT !.calls = Y]
    BY DEF OutlineOf
  <2> HIDE DEF X, Y
  <2>5. OutlineOf(x) = OutlineOf(y)
    <3>1. x.role = y.role /\ x.text = y.text /\ x.w = y.w /\ x.for = y.for
      BY <2>2 DEF Alike
    <3>2. [x EXCEPT !.calls = X]
            = [role |-> x.role, text |-> x.text, w |-> x.w, calls |-> X, for |-> x.for]
      BY <2>2 DEF IsMessage
    <3>3. [y EXCEPT !.calls = Y]
            = [role |-> y.role, text |-> y.text, w |-> y.w, calls |-> Y, for |-> y.for]
      BY <2>2 DEF IsMessage
    <3> QED
      BY <2>3, <2>4, <3>1, <3>2, <3>3
  <2> QED
    BY <2>5 DEF x, y
<1> HIDE DEF oa, ob
<1>4. oa = ob
  BY <1>1, <1>2, <1>3, SameSeq
<1> QED
  BY <1>4 DEF oa, ob

(* The contexts of a conversation *)
OnboardingMessage == SystemMessage(<<"onboarding">>)
TellsContext(S, c) ==
    S \in {NewContext(c), <<OnboardingMessage>> \o NewContext(c), <<SystemMessage(<<c>>)>>}

LEMMA ContextsAreSystems ==
    ASSUME NEW S, NEW c, TellsContext(S, c)
    PROVE  AreSystems(S)
<1>1. ASSUME NEW text PROVE AreSystems(<<SystemMessage(text)>>)
  <2>1. SystemMessage(text) = Message("system", text, 1, <<>>, 0)
    BY DEF SystemMessage
  <2>2. IsMessage(SystemMessage(text)) /\ IsSystem(SystemMessage(text))
    BY <2>1, PlainIs
  <2> QED
    BY <2>2, OneMessage
<1>2. AreSystems(NewContext(c))
  BY <1>1, NoMessages DEF NewContext
<1>3. AreSystems(<<OnboardingMessage>> \o NewContext(c))
  BY <1>1, <1>2, TwoMessages DEF OnboardingMessage
<1> QED
  BY <1>1, <1>2, <1>3 DEF TellsContext

LEMMA NewContextIs ==
    ASSUME NEW c
    PROVE  AreSystems(NewContext(c)) /\ IsSeq(NewContext(c))
<1>1. TellsContext(NewContext(c), c)
  BY DEF TellsContext
<1>2. AreSystems(NewContext(c))
  BY <1>1, ContextsAreSystems
<1> QED
  BY <1>2 DEF AreSystems, IsMessages

LEMMA ContextStands ==
    ASSUME NEW c \in Contexts, c # NoContext, NEW S, TellsContext(S, c)
    PROVE  LET contexts == { i \in DOMAIN S : Head(S[i].text) # "onboarding" }
           IN  \E i \in contexts : contexts = {i} /\ Head(S[i].text) = c
<1>1. c # "onboarding"
  BY ThreadsAssumption
<1>2. ASSUME NEW text, Head(text) = c, S = <<SystemMessage(text)>>
      PROVE  DOMAIN S = 1..1 /\ Head(S[1].text) = c
  BY <1>2, SingleIs DEF SystemMessage, Message
<1>3. ASSUME NEW text, Head(text) = c, S = <<OnboardingMessage>> \o <<SystemMessage(text)>>
      PROVE  DOMAIN S = 1..2 /\ Head(S[1].text) = "onboarding" /\ Head(S[2].text) = c
  <2> DEFINE m == SystemMessage(text)
  <2>1. m.text = text /\ OnboardingMessage.text = <<"onboarding">>
    BY DEF SystemMessage, Message, OnboardingMessage
  <2>2. IsSeq(<<m>>) /\ Len(<<m>>) = 1 /\ <<m>>[1] = m
    BY SingleIs
  <2>3. /\ IsSeq(S) /\ Len(S) = 1 + 1 /\ S[1] = OnboardingMessage
        /\ S[1 + 1] = m
    <3> DEFINE one == <<m>>
    <3>1. IsSeq(one)
      BY <2>2
    <3>2. /\ IsSeq(S) /\ Len(S) = 1 + Len(one) /\ S[1] = OnboardingMessage
          /\ \A k \in 1..Len(one) : S[1 + k] = one[k]
      <4> HIDE DEF one
      <4>1. S = <<OnboardingMessage>> \o one
        BY <1>3 DEF one
      <4> QED
        BY <3>1, <4>1, FirstAndRest
    <3>3. Len(one) = 1 /\ one[1] = m
      BY <2>2
    <3> HIDE DEF one, m
    <3> QED
      BY <3>2, <3>3
  <2> HIDE DEF m
  <2>4. DOMAIN S = 1..2 /\ S[2] = m
    BY <2>3, SeqIs
  <2>5. Head(<<"onboarding">>) = "onboarding"
    OBVIOUS
  <2> QED
    BY <1>3, <2>1, <2>3, <2>4, <2>5
<1>4. Head(<<c, "memories", "time">>) = c /\ Head(<<c>>) = c
  OBVIOUS
<1>5. NewContext(c) = <<SystemMessage(<<c, "memories", "time">>)>>
  BY DEF NewContext
<1>6. \/ DOMAIN S = 1..1 /\ Head(S[1].text) = c
      \/ DOMAIN S = 1..2 /\ Head(S[1].text) = "onboarding" /\ Head(S[2].text) = c
  BY <1>2, <1>3, <1>4, <1>5 DEF TellsContext
<1>7. CASE DOMAIN S = 1..1 /\ Head(S[1].text) = c
  BY <1>1, <1>7
<1>8. CASE DOMAIN S = 1..2 /\ Head(S[1].text) = "onboarding" /\ Head(S[2].text) = c
  BY <1>1, <1>8
<1> QED
  BY <1>6, <1>7, <1>8

\* A file that has this very context has no other.
LEMMA SameContext ==
    ASSUME NEW c \in Contexts, NEW d, NEW S, TellsContext(S, d), S # <<>>,
           Head(S).text = <<c>>
    PROVE  TellsContext(S, c)
<1>1. c # "onboarding"
  BY ThreadsAssumption
<1>2. \A text : SystemMessage(text).text = text
  BY DEF SystemMessage, Message
<1>3. \A m : Head(<<m>>) = m
  OBVIOUS
<1>4. <<c>> # <<"onboarding">> /\ <<c>> # <<d, "memories", "time">>
  <2>1. <<c>>[1] = c /\ <<"onboarding">>[1] = "onboarding"
    OBVIOUS
  <2>2. Len(<<c>>) = 1 /\ Len(<<d, "memories", "time">>) = 3
    OBVIOUS
  <2>3. <<c>> # <<"onboarding">>
    BY <1>1, <2>1
  <2>4. <<c>> # <<d, "memories", "time">>
    BY <2>2
  <2> QED
    BY <2>3, <2>4
<1>5. S # <<OnboardingMessage>> \o NewContext(d)
  <2> SUFFICES ASSUME S = <<OnboardingMessage>> \o NewContext(d) PROVE FALSE
    OBVIOUS
  <2>2. IsSeq(NewContext(d))
    BY NewContextIs
  <2>3. S[1] = OnboardingMessage
    BY <2>2, FirstAndRest
  <2>4. Head(S).text = <<"onboarding">>
    <3>1. Head(S) = S[1]
      OBVIOUS
    <3> QED
      BY <1>2, <2>3, <3>1 DEF OnboardingMessage
  <2> QED
    BY <1>4, <2>4
<1>6. S # NewContext(d)
  BY <1>2, <1>3, <1>4 DEF NewContext
<1>7. S = <<SystemMessage(<<d>>)>>
  BY <1>5, <1>6 DEF TellsContext
<1>8. <<d>> = <<c>>
  BY <1>2, <1>3, <1>7
<1> QED
  BY <1>7, <1>8 DEF TellsContext

\* What is in the file of a thread.
FileFollows(ms) ==
    /\ IsTalk(ms) /\ WellFormed(Regular(ms))
    /\ \E d \in Contexts : TellsContext(Systems(ms), d)

LEMMA LoadedIs ==
    ASSUME NEW file, FileFollows(file.messages), NEW ctx \in Contexts
    PROVE  LET ms == Loaded(file, ctx).messages
           IN  /\ FileFollows(ms) /\ Regular(ms) = Regular(file.messages)
               /\ ctx # NoContext => TellsContext(Systems(ms), ctx)
<1> DEFINE old == Systems(file.messages)
           R == Regular(file.messages)
           same == ctx = NoContext \/ (old # <<>> /\ Head(old).text = <<ctx>>)
           ms == Loaded(file, ctx).messages
           one == <<SystemMessage(<<ctx>>)>>
<1>1. ms = IF same THEN file.messages ELSE one \o R
  BY DEF Loaded, NewSession
<1>2. CASE same
  BY <1>1, <1>2, SameContext DEF FileFollows
<1>3. CASE ~same
  <2>1. TellsContext(one, ctx)
    BY DEF TellsContext
  <2>2. AreSystems(one) /\ AreRegular(R)
    BY <2>1, ContextsAreSystems DEF FileFollows, IsTalk
  <2> HIDE DEF one, R
  <2>3. Systems(one \o R) = one /\ Regular(one \o R) = R /\ IsTalk(one \o R)
    BY <2>2, TalkOf
  <2>4. WellFormed(R)
    BY DEF FileFollows, R
  <2> QED
    BY <1>1, <1>3, <2>1, <2>3, <2>4 DEF FileFollows, R
<1> QED
  BY <1>2, <1>3

\* The messages of a new thread.
LEMMA NewIs ==
    ASSUME NEW ctx \in Contexts
    PROVE  LET ms == <<>> \o (Onboarding \o NewContext(ctx))
           IN  /\ FileFollows(ms) /\ Regular(ms) = <<>> /\ TellsContext(Systems(ms), ctx)
<1> DEFINE S == Onboarding \o NewContext(ctx)
           none == <<>>
<1>1. TellsContext(S, ctx)
  <2>1. IsSeq(NewContext(ctx))
    BY NewContextIs
  <2>2. <<>> \o NewContext(ctx) = NewContext(ctx)
    BY <2>1 DEF IsSeq
  <2> QED
    BY <2>2 DEF Onboarding, OnboardingMessage, TellsContext
<1>2. AreSystems(S)
  BY <1>1, ContextsAreSystems
<1> HIDE DEF S
<1>3. none \o S = S /\ S \o none = S
  BY <1>2 DEF AreSystems, IsMessages, IsSeq
<1>4. AreRegular(none)
  BY NoMessages
<1>5. WellFormed(none)
  BY DEF WellFormed
<1> HIDE DEF none
<1>6. Systems(S) = S /\ Regular(S) = none /\ IsTalk(S)
  <2>1. Systems(S \o none) = S /\ Regular(S \o none) = none /\ IsTalk(S \o none)
    BY <1>2, <1>4, TalkOf
  <2> QED
    BY <1>3, <2>1
<1>7. FileFollows(none \o S) /\ Regular(none \o S) = none /\ TellsContext(Systems(none \o S), ctx)
  BY <1>1, <1>3, <1>5, <1>6 DEF FileFollows
<1> QED
  BY <1>7 DEF S, none

\* What is added to a conversation is added to its others.
LEMMA Added ==
    ASSUME NEW ms, IsTalk(ms), NEW A, AreRegular(A)
    PROVE  LET f == ms \o A
           IN  /\ IsTalk(f) /\ Systems(f) = Systems(ms) /\ Regular(f) = Regular(ms) \o A
               /\ AreRegular(Regular(ms) \o A)
<1> DEFINE S == Systems(ms)
           R == Regular(ms)
<1>1. AreSystems(S) /\ AreRegular(R) /\ ms = S \o R
  BY DEF IsTalk
<1> HIDE DEF S, R
<1>2. AreRegular(R \o A)
  BY <1>1, TwoMessages
<1>3. ms \o A = S \o (R \o A)
  <2>1. IsSeq(S) /\ IsSeq(R) /\ IsSeq(A)
    BY <1>1 DEF AreSystems, AreRegular, IsMessages
  <2> QED
    BY <1>1, <2>1, ConcatAll
<1>4. Systems(ms \o A) = S /\ Regular(ms \o A) = R \o A /\ IsTalk(ms \o A)
  BY <1>1, <1>2, <1>3, TalkOf
<1> QED
  BY <1>2, <1>4 DEF S, R

LEMMA AddedOne ==
    ASSUME NEW ms, IsTalk(ms), NEW m, IsMessage(m), ~IsSystem(m)
    PROVE  LET f == Append(ms, m)
           IN  /\ f = ms \o <<m>> /\ AreRegular(<<m>>)
               /\ IsTalk(f) /\ Systems(f) = Systems(ms) /\ Regular(f) = Regular(ms) \o <<m>>
<1>1. AreRegular(<<m>>)
  BY OneMessage
<1>2. Append(ms, m) = ms \o <<m>>
  <2>1. IsSeq(ms)
    <3>1. AreSystems(Systems(ms)) /\ AreRegular(Regular(ms)) /\ ms = Systems(ms) \o Regular(ms)
      BY DEF IsTalk
    <3> QED
      BY <3>1, ConcatIs DEF AreSystems, AreRegular, IsMessages
  <2> QED
    BY <2>1, AppendConcat
<1> DEFINE A == <<m>>
<1> HIDE DEF A
<1>3. AreRegular(A)
  BY <1>1 DEF A
<1>4. IsTalk(ms \o A) /\ Systems(ms \o A) = Systems(ms) /\ Regular(ms \o A) = Regular(ms) \o A
  BY <1>3, Added
<1> QED
  BY <1>1, <1>2, <1>4 DEF A

\* A conversation is messages, and stands as well as its others.
LEMMA TalkIsMessages ==
    ASSUME NEW ms, IsTalk(ms)
    PROVE  IsMessages(ms) /\ IsMessages(Regular(ms)) /\ IsSeq(Regular(ms)) /\ IsSeq(ms)
<1>1. AreSystems(Systems(ms)) /\ AreRegular(Regular(ms)) /\ ms = Systems(ms) \o Regular(ms)
  BY DEF IsTalk
<1>2. IsMessages(Systems(ms)) /\ IsMessages(Regular(ms))
  BY <1>1 DEF AreSystems, AreRegular
<1>3. IsMessages(Systems(ms) \o Regular(ms))
  BY <1>2, ConcatMessages
<1> QED
  BY <1>1, <1>2, <1>3 DEF IsMessages

LEMMA WellTalk ==
    ASSUME NEW ms, IsTalk(ms), WellFormed(Regular(ms))
    PROVE  WellFormed(ms)
<1>1. AreSystems(Systems(ms)) /\ AreRegular(Regular(ms)) /\ ms = Systems(ms) \o Regular(ms)
  BY DEF IsTalk
<1>2. WellFormed(Systems(ms) \o Regular(ms))
  BY <1>1, WellAfterSystems
<1> QED
  BY <1>1, <1>2

\* What a trim leaves of a conversation.
LEMMA TrimKeeps ==
    ASSUME NEW ms, IsTalk(ms), WellFormed(Regular(ms))
    PROVE  LET f == Trimmed(ms)
               R == Regular(ms)
           IN  /\ IsTalk(f) /\ Systems(f) = Systems(ms) /\ WellFormed(Regular(f))
               /\ ~TooLong(ms) => f = ms
               /\ TooLong(ms) => \E k \in 1..Len(R) + 1 : Regular(f) = SubSeq(R, k, Len(R))
<1>1. CASE ~TooLong(ms)
  BY <1>1, TrimmedIs
<1>2. CASE TooLong(ms)
  <2> DEFINE S == Systems(ms)
             R == Regular(ms)
             f == Trimmed(ms)
  <2>1. AreSystems(S) /\ AreRegular(R)
    BY DEF IsTalk
  <2>2. PICK k \in 1..Len(R) + 1 : f = S \o SubSeq(R, k, Len(R))
    BY <1>2, TrimmedIs
  <2> DEFINE E == SubSeq(R, k, Len(R))
  <2>3. AreRegular(E) /\ WellFormed(E)
    <3> HIDE DEF R
    <3>1. WellFormed(R)
      BY DEF R
    <3> QED
      BY <2>1, <3>1, EndOfRegular, WellEnd
  <2> HIDE DEF S, E, f
  <2>4. Systems(S \o E) = S /\ Regular(S \o E) = E /\ IsTalk(S \o E)
    BY <2>1, <2>3, TalkOf
  <2>5. f = S \o E
    BY <2>2 DEF E
  <2>6. IsTalk(f) /\ Systems(f) = S /\ Regular(f) = E
    BY <2>4, <2>5
  <2> QED
    BY <1>2, <2>3, <2>6 DEF S, E, f
<1> QED
  BY <1>1, <1>2

\* Shapes side by side.
LEMMA ShapeConcat ==
    ASSUME NEW a, NEW b, NEW c, NEW d, IsSeq(a), IsSeq(b), IsSeq(c), IsSeq(d),
           SameShape(a, b), SameShape(c, d)
    PROVE  SameShape(a \o c, b \o d)
<1> DEFINE m == Len(a)
           n == Len(c)
           x == a \o c
           y == b \o d
<1>1. /\ m \in Nat /\ n \in Nat /\ Len(x) = m + n
      /\ \A i \in 1..m : x[i] = a[i]
      /\ \A i \in 1..n : x[m + i] = c[i]
  BY ConcatIs
<1>2. /\ Len(y) = m + n
      /\ \A i \in 1..m : y[i] = b[i]
      /\ \A i \in 1..n : y[m + i] = d[i]
  <2>1. Len(b) = m /\ Len(d) = n
    BY DEF SameShape
  <2> QED
    BY <2>1, ConcatIs
<1> HIDE DEF x, y
<1>3. \A i \in 1..m : /\ a[i].role = b[i].role /\ a[i].for = b[i].for
                      /\ DOMAIN a[i].calls = DOMAIN b[i].calls
                      /\ \A k \in DOMAIN a[i].calls : b[i].calls[k].id = a[i].calls[k].id
  BY DEF SameShape
<1>4. \A i \in 1..n : /\ c[i].role = d[i].role /\ c[i].for = d[i].for
                      /\ DOMAIN c[i].calls = DOMAIN d[i].calls
                      /\ \A k \in DOMAIN c[i].calls : d[i].calls[k].id = c[i].calls[k].id
  BY DEF SameShape
<1> HIDE DEF m, n
<1>5. ASSUME NEW i \in 1..m + n
      PROVE  /\ x[i].role = y[i].role /\ x[i].for = y[i].for
             /\ DOMAIN x[i].calls = DOMAIN y[i].calls
             /\ \A k \in DOMAIN x[i].calls : y[i].calls[k].id = x[i].calls[k].id
  <2>1. CASE i <= m
    <3>1. i \in 1..m
      BY <1>1, <2>1
    <3>2. x[i] = a[i] /\ y[i] = b[i]
      BY <1>1, <1>2, <3>1
    <3> QED
      BY <1>3, <3>1, <3>2
  <2>2. CASE ~(i <= m)
    <3> DEFINE j == i - m
    <3>1. j \in 1..n /\ m + j = i
      BY <1>1, <2>2
    <3> HIDE DEF j
    <3>2. x[i] = c[j] /\ y[i] = d[j]
      BY <1>1, <1>2, <3>1
    <3> QED
      BY <1>4, <3>1, <3>2
  <2> QED
    BY <2>1, <2>2
<1>6. SameShape(x, y)
  BY <1>1, <1>2, <1>5 DEF SameShape
<1> QED
  BY <1>6 DEF x, y

\* A sequence is its first element and the rest.
LEMMA RestIs ==
    ASSUME NEW s, IsSeq(s), s # <<>>
    PROVE  /\ IsSeq(Tail(s)) /\ s = <<Head(s)>> \o Tail(s)
           /\ Head(s) = s[1] /\ 1 \in DOMAIN s /\ Len(s) \in Nat /\ Len(Tail(s)) = Len(s) - 1
           /\ \A k \in 1..Len(s) - 1 : Tail(s)[k] = s[k + 1]
<1>1. s \in Seq(ToSet(s))
  BY DEF IsSeq
<1>2. /\ Len(s) \in Nat /\ Len(s) > 0 /\ Tail(s) \in Seq(ToSet(s)) /\ Len(Tail(s)) = Len(s) - 1
      /\ \A k \in 1..Len(s) - 1 : Tail(s)[k] = s[k + 1]
  BY <1>1
<1>3. IsSeq(Tail(s)) /\ Head(s) = s[1] /\ 1 \in DOMAIN s
  <2>1. IsSeq(Tail(s))
    BY <1>2, IsSeqOf
  <2>2. 1 \in DOMAIN s
    BY <1>2, SeqIs
  <2>3. Head(s) = s[1]
    BY <1>1
  <2> QED
    BY <2>1, <2>2, <2>3
<1> DEFINE t == Tail(s)
           m == Head(s)
           b == <<m>> \o t
<1>4. /\ IsSeq(b) /\ Len(t) \in Nat /\ Len(b) = 1 + Len(t) /\ b[1] = m
      /\ \A k \in 1..Len(t) : b[1 + k] = t[k]
  BY <1>3, FirstAndRest
<1>5. Len(b) = Len(s) /\ \A k \in 1..Len(t) : b[1 + k] = s[1 + k]
  BY <1>2, <1>4
<1> HIDE DEF t, m, b
<1>6. ASSUME NEW i \in 1..Len(s) PROVE s[i] = b[i]
  <2>1. CASE i = 1
    BY <1>3, <1>4, <2>1 DEF m
  <2>2. CASE i # 1
    <3>1. i - 1 \in 1..Len(t) /\ 1 + (i - 1) = i
      BY <1>2, <2>2 DEF t
    <3> QED
      BY <1>5, <3>1
  <2> QED
    BY <2>1, <2>2
<1>7. s = b
  BY <1>4, <1>5, <1>6, SameSeq
<1> QED
  BY <1>2, <1>3, <1>7 DEF b, t, m

\* The answer to the first call takes the place kept for it.
LEMMA AnswerTakesPlace ==
    ASSUME NEW R, IsMessages(R), NEW F, IsMessages(F), AllAlike(R, F),
           NEW todo, IsSeq(todo), todo # <<>>, WellFormed(R \o Answers(todo)), NEW w
    PROVE  WellFormed((F \o <<ToolAnswer(Head(todo), w)>>) \o Answers(Tail(todo)))
<1> DEFINE m == ToolAnswer(Head(todo), w)
           one == <<m>>
           rest == Answers(Tail(todo))
           A == Answers(todo)
           B == one \o rest
<1>1. IsSeq(Tail(todo)) /\ Head(todo) = todo[1] /\ DOMAIN todo = 1..Len(todo) /\ 1 \in DOMAIN todo
      /\ Len(todo) \in Nat /\ Len(Tail(todo)) = Len(todo) - 1
      /\ \A k \in 1..Len(todo) - 1 : Tail(todo)[k] = todo[k + 1]
  BY RestIs, SeqIs
<1>2. /\ IsMessages(A) /\ Len(A) = Len(todo)
      /\ \A k \in DOMAIN todo : A[k].role = "tool" /\ A[k].calls = <<>> /\ A[k].for = todo[k].id
  BY AnswersAre DEF AreRegular
<1>3. /\ IsMessages(rest) /\ Len(rest) = Len(todo) - 1
      /\ \A k \in DOMAIN Tail(todo) : rest[k].role = "tool" /\ rest[k].calls = <<>>
                                      /\ rest[k].for = Tail(todo)[k].id
  BY <1>1, AnswersAre DEF AreRegular
<1>4. DOMAIN Tail(todo) = 1..Len(todo) - 1
  BY <1>1, SeqIs
<1>5. /\ IsMessage(m) /\ ~IsSystem(m) /\ m.role = "tool" /\ m.calls = <<>> /\ m.for = todo[1].id
  BY <1>1, PlainIs DEF ToolAnswer
<1> HIDE DEF m, A, rest
<1>6. IsMessages(one)
  BY <1>5, SingleIs DEF IsMessages
<1>7. /\ Len(B) = 1 + Len(rest) /\ B[1] = m
      /\ \A k \in 1..Len(rest) : B[1 + k] = rest[k]
  BY <1>3, FirstAndRest DEF IsMessages
<1>8. IsMessages(B)
  BY <1>3, <1>6, ConcatMessages
<1> HIDE DEF B
<1>9. ASSUME NEW i \in 1..Len(todo)
      PROVE  A[i].role = B[i].role /\ A[i].for = B[i].for /\ A[i].calls = B[i].calls
             /\ A[i].calls = <<>>
  <2>1. CASE i = 1
    BY <1>1, <1>2, <1>5, <1>7, <2>1
  <2>2. CASE i # 1
    <3> DEFINE j == i - 1
    <3>1. j \in 1..Len(todo) - 1 /\ 1 + j = i /\ j + 1 = i
      BY <1>1, <2>2
    <3> HIDE DEF j
    <3>2. B[i] = rest[j] /\ Tail(todo)[j] = todo[i]
      BY <1>1, <1>3, <1>7, <3>1
    <3> QED
      BY <1>1, <1>2, <1>3, <1>4, <3>1, <3>2
  <2> QED
    BY <2>1, <2>2
<1>10. SameShape(A, B)
  <2>1. DOMAIN <<>> = {}
    BY EmptyIs
  <2>2. Len(A) = Len(B) /\ Len(A) = Len(todo)
    BY <1>1, <1>2, <1>3, <1>7
  <2> QED
    BY <1>9, <2>1, <2>2 DEF SameShape
<1>11. SameShape(R, F)
  BY AlikeShape
<1>12. SameShape(R \o A, F \o B)
  BY <1>2, <1>8, <1>10, <1>11, ShapeConcat DEF IsMessages
<1>13. WellFormed(F \o B)
  <2>1. IsMessages(R \o A) /\ IsMessages(F \o B) /\ WellFormed(R \o A)
    BY <1>2, <1>8, ConcatMessages DEF A
  <2> QED
    BY <1>12, <2>1, ShapeKeeps
<1>14. F \o B = (F \o one) \o rest
  BY <1>3, <1>6, ConcatAll DEF B, IsMessages
<1> QED
  BY <1>13, <1>14 DEF rest, m

------------------------------------------------------------------------------
(* The conversations: what a browser is told and what the list tells *)
\* x has the fields of a session, q those of a request, whatever they hold.
IsSession(x) ==
    x \in [messages : {x.messages}, tools : {x.tools}, tool_choice : {x.tool_choice},
           schema : {x.schema}, streaming : {x.streaming},
           generate_title : {x.generate_title}, title : {x.title}]
IsRequest(q) ==
    q \in [phase : {q.phase}, thread : {q.thread}, context : {q.context},
           session : {q.session}, idx : {q.idx}, todo : {q.todo}, trimmed : {q.trimmed},
           sse : {q.sse}, by : {q.by}, seen : {q.seen}, turn : {q.turn}]

LEMMA MessagesChanged ==
    ASSUME NEW x, IsSession(x), NEW ms
    PROVE  LET y == [x EXCEPT !.messages = ms]
           IN  /\ IsSession(y) /\ y.streaming = x.streaming /\ y.title = x.title
               /\ y.messages = ms
BY DEF IsSession

LEMMA ToolsChanged ==
    ASSUME NEW x, IsSession(x), NEW ms
    PROVE  LET y == [x EXCEPT !.tools = ms]
           IN  /\ IsSession(y) /\ y.streaming = x.streaming /\ y.title = x.title
               /\ y.messages = x.messages
BY DEF IsSession

LEMMA TitleChanged ==
    ASSUME NEW x, IsSession(x), NEW title, NEW reply
    PROVE  LET y == Received(x, title, reply)
           IN  /\ IsSession(y) /\ y.streaming = x.streaming /\ y.title = title
               /\ y.messages = x.messages \o ReplyMessages(reply)
BY DEF IsSession, Received

LEMMA NewHasFields ==
    ASSUME NEW g
    PROVE  LET x == NewSession({}, TRUE, g)
           IN  IsSession(x) /\ x.streaming = TRUE /\ x.messages = <<>>
BY DEF IsSession, NewSession

Talking == {"slash", "asking", "sending", "calling", "fixing"}
Saving == {"saving", "writing", "reading", "listing", "ending"}

IsLive(q) ==
    /\ IsRequest(q) /\ IsSession(q.session) /\ q.session.streaming = TRUE
    /\ q.phase \in Phases
    /\ q.thread \in Threads

\* Every slot is idle or holds a request with all its fields.
ChatInv ==
    /\ req = [s \in Slots |-> req[s]]
    /\ threads = [t \in Threads |-> threads[t]]
    /\ \A s \in Slots : req[s] = Idle \/ IsLive(req[s])

\* n is what q becomes; the browser is told nothing.
Becoming(q, n) ==
    IsLive(n) /\ n.thread = q.thread /\ n.sse = q.sse /\ n.by = q.by

LEMMA NotIdle ==
    ASSUME ChatInv, NEW s \in Slots, req[s].phase \in Phases
    PROVE  IsLive(req[s])
<1>1. Idle.phase \notin Phases
  BY DEF Idle, Phases
<1> QED
  BY <1>1 DEF ChatInv

\* What else a trim, an answer and an added message make of a request.
AsTrimmed(q, n, ms, idx, added) ==
    /\ n.session.messages = Trimmed(ms)
    /\ n.idx = IF idx = 0 THEN Len(Trimmed(ms)) ELSE idx
    /\ n.trimmed <=> q.trimmed \/ TooLong(ms)
    /\ n.turn = q.turn \o added
    /\ n.todo = q.todo /\ n.context = q.context

AsAnswered(q, n, ms, w) ==
    LET answer == ToolAnswer(Head(q.todo), w)
    IN  /\ n.session.messages = Append(ms, answer)
        /\ n.turn = Append(q.turn, answer)
        /\ n.todo = Tail(q.todo)
        /\ n.idx = q.idx /\ n.trimmed = q.trimmed /\ n.context = q.context

AsSlashed(q, n) ==
    /\ n.session.messages = Append(q.session.messages, UserMessage("slash"))
    /\ n.turn = <<UserMessage("slash")>>
    /\ n.todo = q.todo /\ n.idx = q.idx /\ n.trimmed = q.trimmed /\ n.context = q.context

SameTalk(q, n) ==
    /\ n.session.messages = q.session.messages /\ n.turn = q.turn
    /\ n.todo = q.todo /\ n.idx = q.idx /\ n.trimmed = q.trimmed /\ n.context = q.context

LEMMA Trims ==
    ASSUME NEW s \in Slots, IsLive(req[s]), ChatInv,
           NEW session, IsSession(session), session.streaming = TRUE, NEW idx, NEW added,
           SendsTrimmed(s, session, idx, added)
    PROVE  /\ req' = [req EXCEPT ![s] = req'[s]]
           /\ Becoming(req[s], req'[s])
           /\ req'[s].phase = "sending"
           /\ AsTrimmed(req[s], req'[s], session.messages, idx, added)
<1> DEFINE ms == Trimmed(session.messages)
           q == req[s]
           n == [q EXCEPT !.phase = "sending", !.session = SetMessages(session, ms),
                    !.idx = IF idx = 0 THEN Len(ms) ELSE idx,
                    !.trimmed = @ \/ TooLong(session.messages),
                    !.turn = @ \o added]
<1>1. req' = [req EXCEPT ![s] = n]
  BY DEF SendsTrimmed, Becomes, Changes
<1>2. req'[s] = n
  BY <1>1 DEF ChatInv
<1>3. /\ IsSession(SetMessages(session, ms)) /\ SetMessages(session, ms).streaming = TRUE
      /\ SetMessages(session, ms).messages = ms
  BY MessagesChanged DEF SetMessages
<1>4. /\ IsRequest(n) /\ n.phase = "sending" /\ n.session = SetMessages(session, ms)
      /\ n.thread = q.thread /\ n.sse = q.sse /\ n.by = q.by
      /\ n.idx = (IF idx = 0 THEN Len(ms) ELSE idx)
      /\ n.trimmed = (q.trimmed \/ TooLong(session.messages))
      /\ n.turn = q.turn \o added /\ n.todo = q.todo /\ n.context = q.context
  <2> HIDE DEF ms
  <2> QED
    BY DEF IsRequest, IsLive
<1> HIDE DEF n
<1>5. AsTrimmed(q, n, session.messages, idx, added)
  BY <1>3, <1>4 DEF AsTrimmed
<1> QED
  BY <1>1, <1>2, <1>3, <1>4, <1>5 DEF Becoming, IsLive, Phases

LEMMA AnswersOne ==
    ASSUME NEW s \in Slots, IsLive(req[s]), ChatInv,
           NEW session, IsSession(session), session.streaming = TRUE, NEW w,
           AnswersCall(s, session, w)
    PROVE  /\ req' = [req EXCEPT ![s] = req'[s]]
           /\ Becoming(req[s], req'[s])
           /\ req'[s].phase = "calling"
           /\ AsAnswered(req[s], req'[s], session.messages, w)
<1> DEFINE q == req[s]
           answer == ToolAnswer(Head(q.todo), w)
           n == [q EXCEPT !.phase = "calling", !.todo = Tail(@),
                    !.turn = Append(@, answer), !.session = AddMessage(session, answer)]
<1>1. req' = [req EXCEPT ![s] = n]
  BY DEF AnswersCall, Becomes, Changes
<1>2. req'[s] = n
  BY <1>1 DEF ChatInv
<1>3. /\ IsSession(AddMessage(session, answer)) /\ AddMessage(session, answer).streaming = TRUE
      /\ AddMessage(session, answer).messages = Append(session.messages, answer)
  BY MessagesChanged DEF AddMessage
<1>4. /\ IsRequest(n) /\ n.phase = "calling" /\ n.session = AddMessage(session, answer)
      /\ n.thread = q.thread /\ n.sse = q.sse /\ n.by = q.by
      /\ n.turn = Append(q.turn, answer) /\ n.todo = Tail(q.todo)
      /\ n.idx = q.idx /\ n.trimmed = q.trimmed /\ n.context = q.context
  <2> HIDE DEF answer
  <2> QED
    BY DEF IsRequest, IsLive
<1> HIDE DEF n
<1>5. AsAnswered(q, n, session.messages, w)
  BY <1>3, <1>4 DEF AsAnswered
<1> QED
  BY <1>1, <1>2, <1>3, <1>4, <1>5 DEF Becoming, IsLive, Phases

\* The steps of a request between the answers of the model.
HasWork(s) ==
    \/ SlashCommand(s) \/ Ask(s)
    \/ GetTools(s) \/ CallTool(s) \/ CallNeedsFix(s) \/ FixTool(s) \/ SendAnswers(s)

Worked(q, n) ==
    LET ms == q.session.messages
        question == UserMessage("question")
    IN  \/ q.phase = "slash" /\ n.phase = "asking" /\ AsSlashed(q, n)
        \/ q.phase = "asking" /\ n.phase = "sending"
           /\ AsTrimmed(q, n, Append(ms, question), 0, <<question>>)
        \/ /\ q.phase \in {"calling", "fixing"} /\ n.phase = "calling"
           /\ q.phase = "calling" => q.todo # <<>>
           /\ \E w, id : \E f \in {ms, WithFixedCall(ms, id)} : AsAnswered(q, n, f, w)
        \/ q.phase = "calling" /\ q.todo # <<>> /\ n.phase = "fixing" /\ SameTalk(q, n)
        \/ q.phase = "calling" /\ q.todo = <<>> /\ n.phase = "sending"
           /\ AsTrimmed(q, n, ms, q.idx, <<>>)

LEMMA WorkGoesOn ==
    ASSUME ChatInv, NEW s \in Slots, HasWork(s)
    PROVE  /\ req' = [req EXCEPT ![s] = req'[s]]
           /\ Becoming(req[s], req'[s])
           /\ req[s].phase \in Talking /\ req'[s].phase \in Talking
           /\ UNCHANGED <<threads, summary, memories, asked, rounds, kept, broken>>
           /\ Worked(req[s], req'[s])
<1>1. /\ req[s].phase \in Talking
      /\ UNCHANGED <<threads, summary, memories, asked, rounds, kept, broken>>
  BY DEF HasWork, Talking, SlashCommand, Ask, GetTools, CallTool, CallNeedsFix, FixTool,
         SendAnswers, Calling, SendsTrimmed, AnswersCall, Becomes, Changes
<1>2. IsLive(req[s])
  BY <1>1, NotIdle DEF Talking, Phases
<1> DEFINE q == req[s]
<1>3. IsSession(q.session) /\ q.session.streaming = TRUE
  BY <1>2 DEF IsLive
<1>4. \A m : /\ IsSession(AddMessage(q.session, m)) /\ AddMessage(q.session, m).streaming = TRUE
            /\ AddMessage(q.session, m).messages = Append(q.session.messages, m)
  BY <1>3, MessagesChanged DEF AddMessage
<1>a. ASSUME NEW x, IsSession(x), x.streaming = TRUE, NEW w, NEW id, AnswersCall(s, x, w),
             x.messages \in {q.session.messages, WithFixedCall(q.session.messages, id)},
             (q.phase = "calling" /\ q.todo # <<>>) \/ q.phase = "fixing"
      PROVE  /\ req' = [req EXCEPT ![s] = req'[s]]
             /\ Becoming(q, req'[s]) /\ req'[s].phase \in Talking
             /\ Worked(q, req'[s])
  <2>1. /\ req' = [req EXCEPT ![s] = req'[s]]
        /\ Becoming(q, req'[s]) /\ req'[s].phase = "calling"
        /\ AsAnswered(q, req'[s], x.messages, w)
    BY <1>2, <1>a, AnswersOne
  <2>2. Worked(q, req'[s])
    BY <1>a, <2>1 DEF Worked
  <2> QED
    BY <2>1, <2>2 DEF Talking
<1>5. CASE SlashCommand(s)
  <2> DEFINE n == [q EXCEPT !.phase = "asking", !.turn = <<UserMessage("slash")>>,
                        !.session = AddMessage(@, UserMessage("slash"))]
  <2>1. req' = [req EXCEPT ![s] = n]
    BY <1>5 DEF SlashCommand, Becomes, Changes
  <2>2. req'[s] = n
    BY <2>1 DEF ChatInv
  <2>3. /\ IsRequest(n) /\ n.phase = "asking" /\ n.session = AddMessage(q.session, UserMessage("slash"))
        /\ n.thread = q.thread /\ n.sse = q.sse /\ n.by = q.by
        /\ n.turn = <<UserMessage("slash")>>
        /\ n.todo = q.todo /\ n.idx = q.idx /\ n.trimmed = q.trimmed /\ n.context = q.context
    BY <1>2 DEF IsRequest, IsLive
  <2>4. q.phase = "slash"
    BY <1>5 DEF SlashCommand
  <2> HIDE DEF n
  <2>5. Worked(q, n)
    BY <1>4, <2>3, <2>4 DEF Worked, AsSlashed
  <2> QED
    BY <1>1, <1>2, <1>4, <2>1, <2>2, <2>3, <2>5 DEF Becoming, IsLive, Phases, Talking
<1>6. CASE Ask(s)
  <2>1. SendsTrimmed(s, AddMessage(q.session, UserMessage("question")), 0,
                     <<UserMessage("question")>>)
    BY <1>6 DEF Ask
  <2>2. q.phase = "asking"
    BY <1>6 DEF Ask
  <2> DEFINE m == UserMessage("question")
             x == AddMessage(q.session, m)
  <2>3. IsSession(x) /\ x.streaming = TRUE /\ x.messages = Append(q.session.messages, m)
    BY <1>4
  <2>4. SendsTrimmed(s, x, 0, <<m>>)
    BY <2>1
  <2> HIDE DEF x
  <2>5. /\ req' = [req EXCEPT ![s] = req'[s]]
        /\ Becoming(q, req'[s]) /\ req'[s].phase = "sending"
        /\ AsTrimmed(q, req'[s], x.messages, 0, <<m>>)
    BY <1>2, <2>3, <2>4, Trims
  <2>6. Worked(q, req'[s])
    BY <2>2, <2>3, <2>5 DEF Worked
  <2> QED
    BY <1>1, <2>5, <2>6 DEF Talking
<1>7. CASE GetTools(s)
  <2>1. AnswersCall(s, AddTool(q.session, "plugin"), 1)
    BY <1>7 DEF GetTools
  <2> DEFINE x == AddTool(q.session, "plugin")
  <2>2. IsSession(x) /\ x.streaming = TRUE /\ x.messages = q.session.messages
    BY <1>3, ToolsChanged DEF AddTool
  <2>3. q.phase = "calling" /\ q.todo # <<>>
    BY <1>7 DEF GetTools, Calling
  <2> HIDE DEF x
  <2> QED
    BY <1>1, <1>2, <1>a, <2>1, <2>2, <2>3 DEF x
<1>8. CASE CallTool(s)
  <2>1. PICK w \in AnswerSizes : AnswersCall(s, q.session, w)
    BY <1>8 DEF CallTool
  <2>2. q.phase = "calling" /\ q.todo # <<>>
    BY <1>8 DEF CallTool, Calling
  <2> QED
    BY <1>1, <1>3, <1>a, <2>1, <2>2
<1>9. CASE CallNeedsFix(s)
  <2> DEFINE n == [q EXCEPT !.phase = "fixing"]
  <2>1. req' = [req EXCEPT ![s] = n]
    BY <1>9 DEF CallNeedsFix, Becomes, Changes
  <2>2. req'[s] = n
    BY <2>1 DEF ChatInv
  <2>3. /\ IsRequest(n) /\ n.phase = "fixing" /\ n.session = q.session
        /\ n.thread = q.thread /\ n.sse = q.sse /\ n.by = q.by
        /\ n.turn = q.turn
        /\ n.todo = q.todo /\ n.idx = q.idx /\ n.trimmed = q.trimmed /\ n.context = q.context
    BY <1>2 DEF IsRequest, IsLive
  <2>4. q.phase = "calling" /\ q.todo # <<>>
    BY <1>9 DEF CallNeedsFix, Calling
  <2> HIDE DEF n
  <2>5. Worked(q, n)
    BY <2>3, <2>4 DEF Worked, SameTalk
  <2> QED
    BY <1>1, <1>2, <1>3, <2>1, <2>2, <2>3, <2>5 DEF Becoming, IsLive, Phases, Talking
<1>10. CASE FixTool(s)
  <2> DEFINE fixed == SetMessages(q.session,
                          WithFixedCall(q.session.messages, Head(q.todo).id))
  <2>1. PICK w \in AnswerSizes : AnswersCall(s, fixed, w)
    BY <1>10 DEF FixTool
  <2>2. /\ IsSession(fixed) /\ fixed.streaming = TRUE
        /\ fixed.messages = WithFixedCall(q.session.messages, Head(q.todo).id)
    BY <1>3, MessagesChanged DEF SetMessages
  <2>3. q.phase = "fixing"
    BY <1>10 DEF FixTool
  <2> HIDE DEF fixed
  <2> QED
    BY <1>1, <1>a, <2>1, <2>2, <2>3
<1>11. CASE SendAnswers(s)
  <2>1. SendsTrimmed(s, q.session, q.idx, <<>>)
    BY <1>11 DEF SendAnswers
  <2>2. q.phase = "calling" /\ q.todo = <<>>
    BY <1>11 DEF SendAnswers
  <2>3. /\ req' = [req EXCEPT ![s] = req'[s]]
        /\ Becoming(q, req'[s]) /\ req'[s].phase = "sending"
        /\ AsTrimmed(q, req'[s], q.session.messages, q.idx, <<>>)
    BY <1>2, <1>3, <2>1, Trims
  <2>4. Worked(q, req'[s])
    BY <2>2, <2>3 DEF Worked
  <2> QED
    BY <1>1, <2>3, <2>4 DEF Talking
<1> QED
  BY <1>5, <1>6, <1>7, <1>8, <1>9, <1>10, <1>11 DEF HasWork

LEMMA GoesOn ==
    ASSUME ChatInv, NEW s \in Slots, req' = [req EXCEPT ![s] = req'[s]],
           IsLive(req'[s]) \/ req'[s] = Idle,
           threads' = [t \in Threads |-> threads'[t]]
    PROVE  /\ ChatInv'
           /\ \A o \in Slots : o # s => req'[o] = req[o]
<1>1. \A o \in Slots : o # s => req'[o] = req[o]
  BY DEF ChatInv
<1>2. req' = [o \in Slots |-> req'[o]]
  BY DEF ChatInv
<1>3. ASSUME NEW o \in Slots PROVE req'[o] = Idle \/ IsLive(req'[o])
  BY <1>1 DEF ChatInv
<1> QED
  BY <1>1, <1>2, <1>3 DEF ChatInv, IsLive

\* What a request begins with.
AsBegun(n, file, ctx) ==
    /\ n.session.messages =
           IF file = Absent THEN <<>> \o (Onboarding \o NewContext(ctx))
           ELSE Loaded(file, ctx).messages \o (Onboarding \o <<>>)
    /\ n.phase \in {"slash", "asking"}
    /\ n.turn = <<>> /\ n.trimmed = FALSE /\ n.context = ctx

LEMMA BegunIsLive ==
    ASSUME ChatInv, NEW s \in Slots, NEW t \in Threads, NEW ctx, NEW given, NEW slash,
           Begin(s, t, given, ctx, slash)
    PROVE  /\ req' = [req EXCEPT ![s] = req'[s]]
           /\ IsLive(req'[s]) /\ req'[s].phase \in Talking /\ req'[s].thread = t
           /\ req'[s].sse = NoEvents
           /\ req[s] = Idle /\ threads[t] # Cut
           /\ UNCHANGED <<threads, summary, rounds, kept, broken>>
           /\ memories' = TRUE
           /\ AsBegun(req'[s], threads[t], ctx)
<1> DEFINE new == threads[t] = Absent
           base == IF new THEN NewSession({}, TRUE, TRUE) ELSE Loaded(threads[t], ctx)
           added == Onboarding \o IF new THEN NewContext(ctx) ELSE <<>>
           session == [base EXCEPT !.messages = @ \o added]
           n == [phase |-> IF slash THEN "slash" ELSE "asking", thread |-> t,
                 context |-> ctx, session |-> session,
                 idx |-> 0, todo |-> <<>>, trimmed |-> FALSE,
                 sse |-> NoEvents, by |-> "none", seen |-> <<>>, turn |-> <<>>]
<1>1. /\ req' = [req EXCEPT ![s] = n]
      /\ req[s] = Idle /\ threads[t] # Cut /\ memories' = TRUE
      /\ UNCHANGED <<threads, summary, rounds, kept, broken>>
  BY DEF Begin
<1>2. /\ IsSession(base) /\ base.streaming = TRUE
      /\ base.messages = IF new THEN <<>> ELSE Loaded(threads[t], ctx).messages
  <2>1. \A ms : LET x == [NewSession({}, TRUE, threads[t].title = NoTitle) EXCEPT !.messages = ms]
                IN  IsSession(x) /\ x.streaming = TRUE
    <3> DEFINE y == NewSession({}, TRUE, threads[t].title = NoTitle)
    <3>1. IsSession(y) /\ y.streaming = TRUE
      BY NewHasFields
    <3> HIDE DEF y
    <3>2. \A ms : LET x == [y EXCEPT !.messages = ms] IN IsSession(x) /\ x.streaming = TRUE
      BY <3>1, MessagesChanged
    <3> QED
      BY <3>2 DEF y
  <2>2. IsSession(Loaded(threads[t], ctx)) /\ Loaded(threads[t], ctx).streaming = TRUE
    BY <2>1 DEF Loaded
  <2>3. /\ IsSession(NewSession({}, TRUE, TRUE)) /\ NewSession({}, TRUE, TRUE).streaming = TRUE
        /\ NewSession({}, TRUE, TRUE).messages = <<>>
    BY NewHasFields
  <2> QED
    BY <2>2, <2>3
<1> HIDE DEF base, added
<1>3. IsSession(session) /\ session.streaming = TRUE /\ session.messages = base.messages \o added
  BY <1>2, MessagesChanged
<1> HIDE DEF session
<1>4. /\ IsRequest(n) /\ n.phase \in {"slash", "asking"} /\ n.thread = t /\ n.session = session
      /\ n.sse = NoEvents /\ n.turn = <<>> /\ n.trimmed = FALSE /\ n.context = ctx
  BY DEF IsRequest
<1>5. req'[s] = n
  BY <1>1 DEF ChatInv
<1> HIDE DEF n
<1>6. AsBegun(n, threads[t], ctx)
  BY <1>2, <1>3, <1>4 DEF AsBegun, added
<1> QED
  BY <1>1, <1>3, <1>4, <1>5, <1>6 DEF IsLive, Phases, Talking

AsReceived(q, n, reply) ==
    /\ n.session.messages = q.session.messages \o ReplyMessages(reply)
    /\ n.turn = q.turn \o ReplyMessages(reply)
    /\ n.todo = reply.calls
    /\ n.idx = q.idx /\ n.trimmed = q.trimmed /\ n.context = q.context

LEMMA ReceivedIsLive ==
    ASSUME ChatInv, NEW s \in Slots, NEW reply, Receive(s, reply)
    PROVE  LET n == req'[s]
           IN  /\ req' = [req EXCEPT ![s] = n]
               /\ IsLive(n) /\ n.thread = req[s].thread /\ n.by = reply.by
               /\ n.sse = Answered(req[s].session, req[s].sse, reply)
               /\ IsLive(req[s]) /\ req[s].phase = "sending"
               /\ n.phase = IF reply.tools THEN "calling" ELSE "saving"
               /\ UNCHANGED <<threads, summary, memories, kept, broken>>
               /\ AsReceived(req[s], n, reply)
<1> DEFINE q == req[s]
           sse == Answered(q.session, q.sse, reply)
           ms == ReplyMessages(reply)
<1>1. IsLive(q) /\ q.phase = "sending"
  BY NotIdle DEF Receive, Phases
<1>2. PICK title \in TitlesAfter(q.session) :
          Changes(s, [q EXCEPT !.phase = IF reply.tools THEN "calling" ELSE "saving",
                         !.session = Received(@, title, reply),
                         !.turn = @ \o ms,
                         !.todo = reply.calls, !.by = reply.by,
                         !.sse = Answered(q.session, @, reply)])
  BY DEF Receive
<1> DEFINE session == Received(q.session, title, reply)
           n == [q EXCEPT !.phase = IF reply.tools THEN "calling" ELSE "saving",
                    !.session = session, !.turn = @ \o ms,
                    !.todo = reply.calls, !.by = reply.by, !.sse = sse]
<1>3. /\ IsSession(session) /\ session.streaming = TRUE
      /\ session.messages = q.session.messages \o ms
  <2> DEFINE x == q.session
  <2>1. IsSession(x) /\ x.streaming = TRUE
    BY <1>1 DEF IsLive
  <2> HIDE DEF x
  <2>2. LET y == Received(x, title, reply)
        IN  IsSession(y) /\ y.streaming = x.streaming /\ y.messages = x.messages \o ReplyMessages(reply)
    BY <2>1, TitleChanged
  <2> QED
    BY <2>1, <2>2 DEF x
<1>4. /\ req' = [req EXCEPT ![s] = n]
      /\ UNCHANGED <<threads, summary, memories, kept, broken>>
  BY <1>2 DEF Changes
<1> HIDE DEF session, sse, ms
<1>5. /\ IsRequest(n) /\ n.phase = (IF reply.tools THEN "calling" ELSE "saving")
      /\ n.session = session /\ n.thread = q.thread /\ n.sse = sse /\ n.by = reply.by
      /\ n.turn = q.turn \o ms /\ n.todo = reply.calls
      /\ n.idx = q.idx /\ n.trimmed = q.trimmed /\ n.context = q.context
  BY <1>1 DEF IsRequest, IsLive
<1>6. req'[s] = n
  BY <1>4 DEF ChatInv
<1> HIDE DEF n
<1>7. AsReceived(q, n, reply)
  BY <1>3, <1>5 DEF AsReceived, ms
<1> QED
  BY <1>1, <1>3, <1>4, <1>5, <1>6, <1>7 DEF IsLive, Phases, sse

\* What a step of the saving of a request leaves of it.
LEMMA SavingGoesOn ==
    ASSUME ChatInv, NEW s \in Slots,
           OpenThread(s) \/ WriteThread(s) \/ ReadSummary(s) \/ OpenSummary(s)
    PROVE  /\ req' = [req EXCEPT ![s] = req'[s]]
           /\ IsLive(req[s]) /\ Becoming(req[s], req'[s])
           /\ req'[s].session = req[s].session
           /\ req[s].phase \in Saving /\ req'[s].phase \in Saving
           /\ SameTalk(req[s], req'[s])
<1> DEFINE q == req[s]
<1>1. IsLive(q)
  BY NotIdle DEF OpenThread, WriteThread, ReadSummary, OpenSummary, Phases
<1>2. ASSUME NEW p \in Saving, req' = [req EXCEPT ![s] = [@ EXCEPT !.phase = p]]
      PROVE  /\ req'[s].phase = p /\ Becoming(q, req'[s]) /\ req'[s].session = q.session
             /\ SameTalk(q, req'[s])
  <2> DEFINE n == [q EXCEPT !.phase = p]
  <2>1. req'[s] = n
    BY <1>2 DEF ChatInv
  <2>2. /\ IsRequest(n) /\ n.phase = p /\ n.session = q.session
        /\ n.thread = q.thread /\ n.sse = q.sse /\ n.by = q.by /\ n.turn = q.turn
        /\ n.todo = q.todo /\ n.idx = q.idx /\ n.trimmed = q.trimmed /\ n.context = q.context
    BY <1>1 DEF IsRequest, IsLive
  <2> HIDE DEF n
  <2> QED
    BY <1>1, <2>1, <2>2 DEF Becoming, IsLive, Saving, Phases, SameTalk
<1>3. CASE OpenThread(s)
  BY <1>1, <1>2, <1>3 DEF OpenThread, Saving
<1>4. CASE WriteThread(s)
  BY <1>1, <1>2, <1>4 DEF WriteThread, Saving
<1>5. CASE OpenSummary(s)
  BY <1>1, <1>2, <1>5 DEF OpenSummary, Saving
<1>6. CASE ReadSummary(s)
  <2> DEFINE seen == IF summary = Cut THEN <<>> ELSE summary
             n == [q EXCEPT !.phase = "listing", !.seen = seen]
  <2>1. req' = [req EXCEPT ![s] = n]
    BY <1>6 DEF ReadSummary, Becomes, Changes
  <2>2. req'[s] = n
    BY <2>1 DEF ChatInv
  <2>3. /\ IsRequest(n) /\ n.phase = "listing" /\ n.session = q.session /\ n.seen = seen
        /\ n.thread = q.thread /\ n.sse = q.sse /\ n.by = q.by /\ n.turn = q.turn
        /\ n.todo = q.todo /\ n.idx = q.idx /\ n.trimmed = q.trimmed /\ n.context = q.context
    BY <1>1 DEF IsRequest, IsLive
  <2>4. q.phase = "reading"
    BY <1>6 DEF ReadSummary
  <2> HIDE DEF n
  <2> QED
    BY <1>1, <2>1, <2>2, <2>3, <2>4 DEF Becoming, IsLive, Saving, Phases, SameTalk
<1> QED
  BY <1>3, <1>4, <1>5, <1>6

LEMMA ChatBegins == Init => ChatInv
BY DEF Init, ChatInv

LEMMA ChatStep == ChatInv /\ [Next]_vars => ChatInv'
<1> SUFFICES ASSUME ChatInv, [Next]_vars PROVE ChatInv'
  OBVIOUS
<1>1. CASE UNCHANGED vars
  BY <1>1 DEF vars, ChatInv, IsLive
<1>2. ASSUME NEW s \in Slots, NEW t \in Threads, NEW ctx, NEW given, NEW slash,
             Begin(s, t, given, ctx, slash)
      PROVE  ChatInv'
  <2>1. threads' = [u \in Threads |-> threads'[u]]
    BY <1>2, BegunIsLive DEF ChatInv
  <2> QED
    BY <1>2, <2>1, BegunIsLive, GoesOn
<1>3. ASSUME NEW s \in Slots, HasWork(s) PROVE ChatInv'
  <2>1. threads' = [u \in Threads |-> threads'[u]]
    BY <1>3, WorkGoesOn DEF ChatInv
  <2> QED
    BY <1>3, <2>1, WorkGoesOn, GoesOn DEF Becoming
<1>4. ASSUME NEW s \in Slots, NEW reply, Receive(s, reply) PROVE ChatInv'
  <2>1. threads' = [u \in Threads |-> threads'[u]]
    BY <1>4, ReceivedIsLive DEF ChatInv
  <2> QED
    BY <1>4, <2>1, ReceivedIsLive, GoesOn
<1>5. ASSUME NEW s \in Slots,
             OpenThread(s) \/ WriteThread(s) \/ ReadSummary(s) \/ OpenSummary(s)
      PROVE  ChatInv'
  <2>1. threads' = [u \in Threads |-> threads'[u]]
    BY <1>5 DEF ChatInv, OpenThread, WriteThread, ReadSummary, OpenSummary, Becomes, Changes
  <2> QED
    BY <1>5, <2>1, SavingGoesOn, GoesOn DEF Becoming
<1>6. ASSUME NEW s \in Slots, WriteSummary(s) \/ Fail(s) PROVE ChatInv'
  <2>1. req' = [req EXCEPT ![s] = Idle] /\ threads' = threads
    BY <1>6 DEF WriteSummary, Fail
  <2>2. threads' = [u \in Threads |-> threads'[u]] /\ req'[s] = Idle
    BY <2>1 DEF ChatInv
  <2> QED
    BY <2>1, <2>2, GoesOn
<1> QED
  BY <1>1, <1>2, <1>3, <1>4, <1>5, <1>6 DEF Next, HasWork

LEMMA ChatHolds == Spec => []ChatInv
BY ChatBegins, ChatStep, PTL DEF Spec

\* What the browser of a request was told.
IsSse(sse) == sse \in [done : Nat, error : BOOLEAN, late : BOOLEAN, odd : BOOLEAN]
IsTold(q) ==
    /\ IsSse(q.sse)
    /\ ~q.sse.odd =>
        /\ ~q.sse.late
        /\ q.phase \in Talking => q.sse.done = 0
        /\ q.phase \in Saving =>
               IF q.by = "stream" THEN q.sse.done = 1 ELSE q.sse.done = 0 /\ q.sse.error

StreamInv == \A s \in Slots : req[s] = Idle \/ IsTold(req[s])

LEMMA StreamStep == ChatInv /\ StreamInv /\ [Next]_vars => StreamInv'
<1> SUFFICES ASSUME ChatInv, StreamInv, [Next]_vars PROVE StreamInv'
  OBVIOUS
<1>1. CASE UNCHANGED vars
  BY <1>1 DEF vars, StreamInv, IsTold
<1> SUFFICES ASSUME Next PROVE StreamInv'
  BY <1>1
<1>a. ASSUME NEW s \in Slots, req' = [req EXCEPT ![s] = req'[s]],
             req'[s] = Idle \/ IsTold(req'[s])
      PROVE  StreamInv'
  <2>1. \A o \in Slots : o # s => req'[o] = req[o]
    BY <1>a DEF ChatInv
  <2>2. ASSUME NEW o \in Slots PROVE req'[o] = Idle \/ IsTold(req'[o])
    BY <1>a, <2>1 DEF StreamInv
  <2> QED
    BY <2>2 DEF StreamInv, IsTold
<1>b. \A s \in Slots : req[s].phase \in Phases => IsTold(req[s])
  BY DEF StreamInv, Idle, Phases
<1>2. ASSUME NEW s \in Slots, NEW t \in Threads, NEW ctx, NEW given, NEW slash,
             Begin(s, t, given, ctx, slash)
      PROVE  StreamInv'
  <2>1. IsTold(req'[s])
    <3>1. req'[s].sse = NoEvents /\ req'[s].phase \in Talking
      BY <1>2, BegunIsLive
    <3>2. IsSse(NoEvents) /\ NoEvents.done = 0 /\ ~NoEvents.late
      BY DEF NoEvents, IsSse
    <3> QED
      BY <3>1, <3>2 DEF IsTold, Talking, Saving
  <2> QED
    BY <1>2, <2>1, <1>a, BegunIsLive
<1>3. ASSUME NEW s \in Slots, HasWork(s) PROVE StreamInv'
  <2>1. IsTold(req'[s])
    BY <1>3, <1>b, WorkGoesOn DEF IsTold, Becoming, Talking, Saving, Phases
  <2> QED
    BY <1>3, <2>1, <1>a, WorkGoesOn
<1>4. ASSUME NEW s \in Slots, NEW reply \in Replies, Receive(s, reply) PROVE StreamInv'
  <2>1. IsTold(req'[s])
    <3>1. IsTold(req[s]) /\ req[s].phase = "sending" /\ req[s].session.streaming = TRUE
      BY <1>4, <1>b, ReceivedIsLive DEF IsLive
    <3>2. reply.by \in {"stream", "fallback", "empty"}
      BY ThreadsAssumption
    <3>3. /\ req'[s].phase = IF reply.tools THEN "calling" ELSE "saving"
          /\ req'[s].by = reply.by
          /\ req'[s].sse = Answered(req[s].session, req[s].sse, reply)
      BY <1>4, ReceivedIsLive
    <3> DEFINE sse == req[s].sse
               told == Forwarded(sse, reply)
               then == Answered(req[s].session, sse, reply)
    <3>4. IsSse(sse) /\ (~sse.odd => ~sse.late /\ sse.done = 0)
      BY <3>1 DEF IsTold, Talking
    <3>5. /\ IsSse(told)
          /\ ~told.odd => CameWhole(reply) /\ told.done = 0 /\ told.late = FALSE
      <4>1. CameWhole(reply) \in BOOLEAN
        BY DEF CameWhole
      <4>3. /\ told.late = (sse.late \/ sse.done > 0) /\ told.odd = (sse.odd \/ ~CameWhole(reply))
            /\ told.done = sse.done /\ IsSse(told)
        BY <3>4, <4>1 DEF Forwarded, IsSse
      <4> QED
        BY <3>4, <4>3 DEF IsSse
    <3> DEFINE ended == reply.by = "empty" \/ (reply.by = "stream" /\ ~reply.finish)
    <3>6. then = [told EXCEPT !.error = @ \/ reply.by = "fallback",
                              !.done = IF ended THEN @ + 1 ELSE @]
      BY <3>1 DEF Answered
    <3> HIDE DEF then, told
    <3>7. /\ IsSse(then) /\ then.odd = told.odd /\ then.late = told.late
          /\ then.error = (told.error \/ reply.by = "fallback")
          /\ then.done = IF ended THEN told.done + 1 ELSE told.done
      <4> DEFINE error == told.error \/ reply.by = "fallback"
                 done == IF ended THEN told.done + 1 ELSE told.done
      <4>1. told \in [done : Nat, error : BOOLEAN, late : BOOLEAN, odd : BOOLEAN]
        BY <3>5 DEF IsSse
      <4>2. then = [told EXCEPT !.error = error, !.done = done]
        BY <3>6
      <4>3. error \in BOOLEAN /\ done \in Nat
        BY <4>1
      <4> HIDE DEF error, done
      <4>4. /\ then \in [done : Nat, error : BOOLEAN, late : BOOLEAN, odd : BOOLEAN]
            /\ then.odd = told.odd /\ then.late = told.late
            /\ then.error = error /\ then.done = done
        BY <4>1, <4>2, <4>3
      <4> QED
        BY <4>4 DEF IsSse, error, done
    <3>8. ASSUME ~then.odd
          PROVE  /\ ~then.late
                 /\ reply.tools => then.done = 0
                 /\ ~reply.tools => IF reply.by = "stream" THEN then.done = 1
                                    ELSE then.done = 0 /\ then.error
      <4>1. CameWhole(reply) /\ ~then.late /\ told.done = 0
        BY <3>5, <3>7, <3>8
      <4>2. ended <=> reply.by = "stream" /\ ~reply.tools
        BY <4>1 DEF CameWhole
      <4>3. reply.by # "stream" => reply.by = "fallback"
        BY <3>2, <4>1 DEF CameWhole
      <4> HIDE DEF ended
      <4>4. then.done = IF ended THEN 1 ELSE 0
        <5>1. then.done = IF ended THEN told.done + 1 ELSE told.done
          BY <3>7
        <5> QED
          BY <4>1, <5>1
      <4>5. reply.by = "fallback" => then.error
        BY <3>7
      <4> QED
        BY <4>1, <4>2, <4>3, <4>4, <4>5
    <3> QED
      BY <3>3, <3>7, <3>8 DEF IsTold, Talking, Saving, then
  <2> QED
    BY <1>4, <2>1, <1>a, ReceivedIsLive
<1>5. ASSUME NEW s \in Slots,
             OpenThread(s) \/ WriteThread(s) \/ ReadSummary(s) \/ OpenSummary(s)
      PROVE  StreamInv'
  <2>1. IsTold(req'[s])
    BY <1>5, <1>b, SavingGoesOn DEF IsTold, Becoming, Talking, Saving, Phases
  <2> QED
    BY <1>5, <2>1, <1>a, SavingGoesOn
<1>6. ASSUME NEW s \in Slots, WriteSummary(s) \/ Fail(s) PROVE StreamInv'
  <2>1. req' = [req EXCEPT ![s] = Idle]
    BY <1>6 DEF WriteSummary, Fail
  <2>2. req'[s] = Idle
    BY <2>1 DEF ChatInv
  <2> QED
    BY <2>1, <2>2, <1>a
<1> QED
  BY <1>2, <1>3, <1>4, <1>5, <1>6 DEF Next, HasWork

\* The browser is told [DONE] once, with the last answer and never before it
\* (stream_chat_completion, chat_create), whatever a service answers, in every
\* request whose streams came whole.
THEOREM DoneIsToldOnce == Spec => []StreamEndsOnce
<1>1. Init => StreamInv
  BY DEF Init, StreamInv
<1>2. StreamInv /\ ChatInv => StreamEndsOnce
  BY DEF StreamInv, ChatInv, StreamEndsOnce, EndsOnce, IsTold, Busy, Talking, Saving
<1> QED
  BY <1>1, <1>2, ChatHolds, StreamStep, PTL DEF Spec

IsAFcn(f) == f = [x \in DOMAIN f |-> f[x]]

\* list tells of all threads but those of except.
Tells(list, except) ==
    /\ DOMAIN list \subseteq Threads
    /\ list # Cut
    /\ \A t \in Threads \ except :
         /\ threads[t] # Cut
         /\ t \in DOMAIN list <=> threads[t] # Absent
         /\ t \in DOMAIN list => list[t] = threads[t].title

IsWritten(q) ==
    /\ threads[q.thread] \notin {Absent, Cut}
    /\ threads[q.thread].title = q.session.title

\* While a request saves, the list it knows tells of all the other threads.
ListInv(q) ==
    /\ q = Idle \/ q.phase \in Talking \cup {"saving"} => Tells(summary, {})
    /\ q.phase = "writing" => Tells(summary, {q.thread})
    /\ q.phase = "reading" => Tells(summary, {q.thread}) /\ IsWritten(q)
    /\ q.phase \in {"listing", "ending"} => Tells(q.seen, {q.thread}) /\ IsWritten(q)

LEMMA FilesAreFunctions ==
    ASSUME NEW title, NEW messages
    PROVE  IsAFcn([title |-> title, messages |-> messages])
BY DEF IsAFcn

LEMMA ListStep ==
    ASSUME ~IsAFcn(Absent), ~IsAFcn(Cut), NEW s, Slots = {s}
    PROVE  ChatInv /\ (broken \/ ListInv(req[s])) /\ [Next]_vars
               => broken' \/ ListInv(req[s])'
<1> SUFFICES ASSUME ChatInv, broken \/ ListInv(req[s]), [Next]_vars, ~broken'
             PROVE  ListInv(req[s])'
  OBVIOUS
<1>0. ~broken
  BY ZenonT(30)
     DEF Next, vars, Begin, SlashCommand, Ask, Receive, GetTools, CallTool, CallNeedsFix,
         FixTool, SendAnswers, SendsTrimmed, AnswersCall, Becomes, Changes,
         OpenThread, WriteThread, ReadSummary, OpenSummary, WriteSummary, Fail
<1>b. ListInv(req[s])
  BY <1>0
<1>1. CASE UNCHANGED vars
  BY <1>b, <1>1 DEF vars, ListInv, Tells, IsWritten
<1> SUFFICES ASSUME Next PROVE ListInv(req[s])'
  BY <1>1
<1>a. ASSUME req[s] = Idle \/ req[s].phase \in Talking \cup {"saving"},
             req'[s] = Idle \/ req'[s].phase \in Talking \cup {"saving"},
             UNCHANGED <<threads, summary>>
      PROVE  ListInv(req[s])'
  <2>1. Idle.phase = "idle"
    BY DEF Idle
  <2> QED
    BY <1>0, <1>a, <2>1 DEF ListInv, Tells, Talking
<1>2. ASSUME NEW t \in Threads, NEW ctx, NEW given, NEW slash, Begin(s, t, given, ctx, slash)
      PROVE  ListInv(req[s])'
  BY <1>2, <1>a, BegunIsLive
<1>3. ASSUME HasWork(s) PROVE ListInv(req[s])'
  BY <1>3, <1>a, WorkGoesOn
<1>4. ASSUME NEW reply \in Replies, Receive(s, reply) PROVE ListInv(req[s])'
  BY <1>4, <1>a, ReceivedIsLive DEF Talking
<1> DEFINE q == req[s]
           n == req'[s]
           t == q.thread
<1>c. ASSUME q.phase \in Saving,
             OpenThread(s) \/ WriteThread(s) \/ ReadSummary(s) \/ OpenSummary(s)
      PROVE  /\ IsRequest(q) /\ t \in Threads /\ n.thread = t /\ n.session = q.session
             /\ t \in Threads
  BY <1>c, SavingGoesOn DEF Becoming, IsLive
<1>d. ASSUME IsRequest(q), NEW p, req' = [req EXCEPT ![s] = [@ EXCEPT !.phase = p]]
      PROVE  n.phase = p /\ n.seen = q.seen
  <2>1. n = [q EXCEPT !.phase = p]
    BY <1>d DEF ChatInv
  <2> QED
    BY <1>d, <2>1 DEF IsRequest
<1>5. CASE OpenThread(s)
  <2>1. q.phase = "saving" /\ threads' = [threads EXCEPT ![t] = Cut] /\ UNCHANGED summary
    BY <1>5 DEF OpenThread
  <2>2. IsRequest(q) /\ t \in Threads /\ n.thread = t
    BY <1>5, <1>c, <2>1 DEF Saving
  <2>3. n.phase = "writing"
    BY <1>5, <1>d, <2>2 DEF OpenThread
  <2>4. Tells(summary, {})
    BY <1>b, <2>1 DEF ListInv
  <2>5. \A u \in Threads \ {t} : threads'[u] = threads[u]
    BY <2>1 DEF ChatInv
  <2>6. Tells(summary, {req[s].thread})'
    BY <2>1, <2>2, <2>4, <2>5 DEF Tells
  <2> QED
    BY <2>2, <2>3, <2>6 DEF ListInv, Talking, Idle
<1>6. CASE WriteThread(s)
  <2> DEFINE file == [title |-> q.session.title, messages |-> q.session.messages]
  <2>1. q.phase = "writing" /\ threads' = [threads EXCEPT ![t] = file] /\ UNCHANGED summary
    BY <1>6 DEF WriteThread
  <2>2. IsRequest(q) /\ t \in Threads /\ n.thread = t /\ n.session = q.session
    BY <1>6, <1>c, <2>1 DEF Saving
  <2>3. n.phase = "reading"
    BY <1>6, <1>d, <2>2 DEF WriteThread
  <2>4. Tells(summary, {t})
    BY <1>b, <2>1 DEF ListInv
  <2>5. IsAFcn(file) /\ file.title = q.session.title
    BY FilesAreFunctions
  <2>6. file \notin {Absent, Cut}
    BY <2>5
  <2> HIDE DEF file
  <2>7. threads'[t] = file /\ \A u \in Threads \ {t} : threads'[u] = threads[u]
    BY <2>1, <2>2 DEF ChatInv
  <2>8. Tells(summary, {req[s].thread})'
    BY <2>1, <2>2, <2>4, <2>7 DEF Tells
  <2>9. IsWritten(req[s])'
    BY <2>2, <2>5, <2>6, <2>7 DEF IsWritten
  <2> QED
    BY <2>2, <2>3, <2>8, <2>9 DEF ListInv, Talking, Idle
<1>7. CASE ReadSummary(s)
  <2>1. /\ q.phase = "reading" /\ UNCHANGED <<threads, summary>>
        /\ req' = [req EXCEPT ![s] = [q EXCEPT !.phase = "listing",
                       !.seen = IF summary = Cut THEN <<>> ELSE summary]]
    BY <1>7 DEF ReadSummary, Becomes, Changes
  <2>2. IsRequest(q) /\ t \in Threads /\ n.thread = t /\ n.session = q.session
    BY <1>7, <1>c, <2>1 DEF Saving
  <2>3. Tells(summary, {t}) /\ IsWritten(q)
    BY <1>b, <2>1 DEF ListInv
  <2>4. n = [q EXCEPT !.phase = "listing", !.seen = summary]
    BY <2>1, <2>3 DEF ChatInv, Tells
  <2>5. n.phase = "listing" /\ n.seen = summary
    BY <2>2, <2>4 DEF IsRequest
  <2>6. Tells(req[s].seen, {req[s].thread})'
    <3>1. req'[s].seen = summary /\ req'[s].thread = t
      BY <2>2, <2>5
    <3> QED
      BY <2>1, <2>3, <3>1 DEF Tells
  <2>7. IsWritten(req[s])'
    BY <2>1, <2>2, <2>3 DEF IsWritten
  <2> QED
    BY <2>2, <2>5, <2>6, <2>7 DEF ListInv, Talking, Idle
<1>8. CASE OpenSummary(s)
  <2>1. q.phase = "listing" /\ UNCHANGED threads
    BY <1>8 DEF OpenSummary
  <2>2. IsRequest(q) /\ t \in Threads /\ n.thread = t /\ n.session = q.session
    BY <1>8, <1>c, <2>1 DEF Saving
  <2>3. n.phase = "ending" /\ n.seen = q.seen
    BY <1>8, <1>d, <2>2 DEF OpenSummary
  <2>4. Tells(q.seen, {t}) /\ IsWritten(q)
    BY <1>b, <2>1 DEF ListInv
  <2>5. Tells(req[s].seen, {req[s].thread})'
    <3>1. req'[s].seen = q.seen /\ req'[s].thread = t
      BY <2>2, <2>3
    <3> QED
      BY <2>1, <2>4, <3>1 DEF Tells
  <2>6. IsWritten(req[s])'
    BY <2>1, <2>2, <2>4 DEF IsWritten
  <2> QED
    BY <2>2, <2>3, <2>5, <2>6 DEF ListInv, Talking, Idle
<1>9. CASE WriteSummary(s)
  <2> DEFINE list == Listed(q.seen, t, q.session.title)
  <2>1. /\ q.phase = "ending" /\ req' = [req EXCEPT ![s] = Idle]
        /\ summary' = list /\ UNCHANGED threads
    BY <1>9 DEF WriteSummary
  <2>2. t \in Threads /\ n = Idle
    BY <2>1, NotIdle DEF IsLive, Phases, ChatInv
  <2>3. Tells(q.seen, {t}) /\ IsWritten(q)
    BY <1>b, <2>1 DEF ListInv
  <2>4. IsAFcn(list)
    BY DEF IsAFcn, Listed
  <2>5. /\ DOMAIN list = DOMAIN q.seen \cup {t} /\ list[t] = q.session.title
        /\ \A u \in DOMAIN q.seen \ {t} : list[u] = q.seen[u]
    BY DEF Listed
  <2>6. list # Cut
    BY <2>4
  <2> HIDE DEF list
  <2>7. Tells(list, {})
    BY <2>2, <2>3, <2>5, <2>6 DEF Tells, IsWritten
  <2>8. Tells(summary, {})'
    BY <2>1, <2>7 DEF Tells
  <2> QED
    BY <2>2, <2>8 DEF ListInv, Talking, Idle
\* A request that fails where it does not break the files was not saving yet.
<1>10. CASE Fail(s)
  <2>1. /\ q.phase \in Talking \cup {"saving"} /\ n = Idle
        /\ UNCHANGED <<threads, summary>>
    BY <1>10 DEF Fail, Phases, Talking, ChatInv
  <2> QED
    BY <1>a, <2>1
<1> QED
  BY <1>2, <1>3, <1>4, <1>5, <1>6, <1>7, <1>8, <1>9, <1>10 DEF Next, HasWork

\* When nothing is under way and no request ended between two writes, the list
\* names exactly the threads that have a file, with their titles
\* (save_thread_data, update_thread_summary), when requests come one after
\* another; a file that is absent or cut is none that a thread was written to.
THEOREM ListTellsThreads ==
    ASSUME ~IsAFcn(Absent), ~IsAFcn(Cut), NEW s, Slots = {s}
    PROVE  Spec => []SummaryTellsThreads
<1> DEFINE Inv == broken \/ ListInv(req[s])
<1>1. Init => Inv
  <2> SUFFICES ASSUME Init PROVE ListInv(req[s])
    OBVIOUS
  <2>1. IsAFcn(<<>>) /\ DOMAIN <<>> = {}
    BY DEF IsAFcn
  <2>2. <<>> # Cut
    BY <2>1
  <2>3. Tells(summary, {})
    <3>1. Absent # Cut
      BY ThreadsAssumption
    <3> QED
      BY <2>1, <2>2, <3>1 DEF Init, Tells
  <2> QED
    BY <2>3 DEF Init, ListInv, Idle, Talking
<1>2. ChatInv /\ Inv /\ [Next]_vars => Inv'
  BY ListStep
<1>3. Inv => SummaryTellsThreads
  BY DEF SummaryTellsThreads, Quiet, Busy, ListInv, Tells
<1> HIDE DEF Inv
<1> QED
  BY <1>1, <1>2, <1>3, ChatHolds, PTL DEF Spec

------------------------------------------------------------------------------
(* The conversations: what the model is sent *)
\* The conversation of a request: its calls without an answer are those still to
\* be made, and the messages before the first of them stand for themselves.
TalkFollows(q) ==
    LET ms == q.session.messages
        R == Regular(ms)
        called == q.phase \in {"calling", "fixing"}
    IN  /\ IsTalk(ms)
        /\ \E d \in Contexts : TellsContext(Systems(ms), d) /\ (q.context # NoContext => d = q.context)
        /\ called => IsSeq(q.todo) /\ WellFormed(R \o Answers(q.todo))
        /\ ~called => WellFormed(R)
        /\ q.phase = "fixing" => q.todo # <<>>
        /\ (called \/ q.phase = "sending") /\ ~q.trimmed => WellUpTo(ms, q.idx)

TalkInv ==
    /\ \A t \in Threads : threads[t] \notin {Absent, Cut} =>
          memories = TRUE /\ FileFollows(threads[t].messages)
    /\ \A s \in Slots : req[s] # Idle => memories = TRUE /\ TalkFollows(req[s])

\* What stays when messages that are none of the system's are added or changed.
LEMMA ContextStays ==
    ASSUME NEW q, NEW n, TalkFollows(q), n.context = q.context,
           Systems(n.session.messages) = Systems(q.session.messages)
    PROVE  \E d \in Contexts : /\ TellsContext(Systems(n.session.messages), d)
                               /\ n.context # NoContext => d = n.context
BY DEF TalkFollows

LEMMA NothingAdded ==
    ASSUME NEW R, IsSeq(R)
    PROVE  R \o Answers(<<>>) = R /\ R \o <<>> = R /\ <<>> \o R = R
<1>1. R \in Seq(ToSet(R))
  BY DEF IsSeq
<1>2. R \o <<>> = R /\ <<>> \o R = R
  BY <1>1
<1>3. IsSeq(<<>>) /\ DOMAIN <<>> = {}
  BY EmptyIs
<1>4. IsSeq(Answers(<<>>)) /\ Len(Answers(<<>>)) = 0
  BY <1>3, EmptyIs, AnswersAre DEF AreRegular, IsMessages
<1>5. Answers(<<>>) = <<>>
  BY <1>4, NoneIsEmpty
<1> QED
  BY <1>2, <1>5

LEMMA UserIs ==
    ASSUME NEW text
    PROVE  LET m == UserMessage(text)
           IN  IsMessage(m) /\ ~IsSystem(m) /\ m.calls = <<>> /\ m.role # "tool"
BY PlainIs DEF UserMessage

LEMMA SlashFollows ==
    ASSUME NEW q, NEW n, TalkFollows(q), q.phase = "slash", n.phase = "asking", AsSlashed(q, n)
    PROVE  TalkFollows(n)
<1> DEFINE ms == q.session.messages
           m == UserMessage("slash")
           f == Append(ms, m)
           R == Regular(ms)
<1>1. IsTalk(ms) /\ WellFormed(R)
  BY DEF TalkFollows
<1>2. IsMessage(m) /\ ~IsSystem(m) /\ m.calls = <<>> /\ m.role # "tool"
  BY UserIs
<1>3. n.session.messages = f /\ n.context = q.context
  BY DEF AsSlashed
<1> HIDE DEF ms, m
<1>4. f = ms \o <<m>> /\ IsTalk(f) /\ Systems(f) = Systems(ms) /\ Regular(f) = R \o <<m>>
  BY <1>1, <1>2, AddedOne
<1>5. WellFormed(Regular(f))
  <2>1. IsMessages(R)
    BY <1>1, TalkIsMessages
  <2> HIDE DEF R
  <2>2. WellFormed(Append(R, m)) /\ Append(R, m) = R \o <<m>>
    BY <1>1, <1>2, <2>1, WellAppend, AppendConcat DEF IsMessages
  <2> QED
    BY <1>4, <2>2 DEF R
<1> HIDE DEF f
<1>6. \E d \in Contexts : /\ TellsContext(Systems(n.session.messages), d)
                          /\ n.context # NoContext => d = n.context
  BY <1>3, <1>4, ContextStays DEF ms
<1> QED
  BY <1>3, <1>4, <1>5, <1>6 DEF TalkFollows

\* A conversation is trimmed and sent.
LEMMA SentFollows ==
    ASSUME NEW q, NEW n, TalkFollows(q), n.phase = "sending",
           NEW ms, NEW idx, NEW added, AsTrimmed(q, n, ms, idx, added),
           IsTalk(ms), WellFormed(Regular(ms)), Systems(ms) = Systems(q.session.messages),
           ~q.trimmed => (idx = 0 /\ Len(ms) > 0) \/ (idx # 0 /\ WellUpTo(ms, idx))
    PROVE  TalkFollows(n)
<1> DEFINE f == Trimmed(ms)
<1>1. /\ n.session.messages = f /\ n.context = q.context
      /\ n.idx = IF idx = 0 THEN Len(f) ELSE idx
      /\ n.trimmed <=> q.trimmed \/ TooLong(ms)
  BY DEF AsTrimmed
<1>2. /\ IsTalk(f) /\ Systems(f) = Systems(ms) /\ WellFormed(Regular(f))
      /\ ~TooLong(ms) => f = ms
  BY TrimKeeps
<1> HIDE DEF f
<1>3. ~n.trimmed => WellUpTo(f, n.idx)
  <2> SUFFICES ASSUME ~n.trimmed PROVE WellUpTo(f, n.idx)
    OBVIOUS
  <2>1. ~q.trimmed /\ f = ms
    BY <1>1, <1>2
  <2>2. CASE idx = 0 /\ Len(ms) > 0
    <3>1. WellFormed(ms) /\ IsMessages(ms)
      BY WellTalk, TalkIsMessages
    <3> QED
      BY <1>1, <2>1, <2>2, <3>1, WellAll
  <2>3. CASE idx # 0 /\ WellUpTo(ms, idx)
    BY <1>1, <2>1, <2>3
  <2> QED
    BY <2>1, <2>2, <2>3
<1>4. \E d \in Contexts : /\ TellsContext(Systems(n.session.messages), d)
                          /\ n.context # NoContext => d = n.context
  BY <1>1, <1>2, ContextStays
<1> QED
  BY <1>1, <1>2, <1>3, <1>4 DEF TalkFollows

LEMMA AskedFollows ==
    ASSUME NEW q, NEW n, TalkFollows(q), q.phase = "asking", n.phase = "sending",
           AsTrimmed(q, n, Append(q.session.messages, UserMessage("question")), 0,
                     <<UserMessage("question")>>)
    PROVE  TalkFollows(n)
<1> DEFINE ms == q.session.messages
           m == UserMessage("question")
           f == Append(ms, m)
           R == Regular(ms)
<1>1. IsTalk(ms) /\ WellFormed(R)
  BY DEF TalkFollows
<1>2. IsMessage(m) /\ ~IsSystem(m) /\ m.calls = <<>> /\ m.role # "tool"
  BY UserIs
<1>3. AsTrimmed(q, n, f, 0, <<m>>)
  OBVIOUS
<1> HIDE DEF ms, m
<1>4. f = ms \o <<m>> /\ IsTalk(f) /\ Systems(f) = Systems(ms) /\ Regular(f) = R \o <<m>>
  BY <1>1, <1>2, AddedOne
<1>5. WellFormed(Regular(f))
  <2>1. IsMessages(R)
    BY <1>1, TalkIsMessages
  <2> HIDE DEF R
  <2>2. WellFormed(Append(R, m)) /\ Append(R, m) = R \o <<m>>
    BY <1>1, <1>2, <2>1, WellAppend, AppendConcat DEF IsMessages
  <2> QED
    BY <1>4, <2>2 DEF R
<1>6. Len(f) > 0
  <2>1. ms \in Seq(ToSet(ms))
    BY <1>1, TalkIsMessages DEF IsSeq
  <2> QED
    BY <2>1
<1> HIDE DEF f
<1>7. Systems(f) = Systems(q.session.messages)
  BY <1>4 DEF ms
<1> QED
  BY <1>3, <1>4, <1>5, <1>6, <1>7, SentFollows

LEMMA AnsweredFollows ==
    ASSUME NEW q, NEW n, TalkFollows(q), q.phase \in {"calling", "fixing"},
           q.phase = "calling" => q.todo # <<>>, n.phase = "calling",
           NEW w, NEW id, NEW f \in {q.session.messages, WithFixedCall(q.session.messages, id)},
           AsAnswered(q, n, f, w)
    PROVE  TalkFollows(n)
<1> DEFINE ms == q.session.messages
           R == Regular(ms)
           F == Regular(f)
           todo == q.todo
           m == ToolAnswer(Head(todo), w)
           new == Append(f, m)
<1>0. IsTalk(ms)
  BY DEF TalkFollows
<1>1. /\ WellFormed(R \o Answers(todo)) /\ IsSeq(todo) /\ todo # <<>>
      /\ ~q.trimmed => WellUpTo(ms, q.idx)
  BY DEF TalkFollows
<1>2. /\ n.session.messages = new /\ n.todo = Tail(todo)
      /\ n.idx = q.idx /\ n.trimmed = q.trimmed /\ n.context = q.context
  BY DEF AsAnswered
<1>3. IsMessage(m) /\ ~IsSystem(m)
  BY PlainIs DEF ToolAnswer
<1>4. f \in {ms, WithFixedCall(ms, id)}
  OBVIOUS
<1> HIDE DEF ms, m, todo
<1>5. IsMessages(ms) /\ IsMessages(R)
  BY <1>0, TalkIsMessages
<1>6. IsTalk(f) /\ Systems(f) = Systems(ms) /\ AllAlike(R, F) /\ AllAlike(ms, f)
  <2>1. CASE f = ms
    <3>1. AllAlike(R, R) /\ AllAlike(ms, ms)
      <4>1. DOMAIN R = 1..Len(R) /\ DOMAIN ms = 1..Len(ms)
        BY <1>5, SeqIs DEF IsMessages
      <4> HIDE DEF R
      <4>2. \A i \in 1..Len(R) : Alike(R[i], R[i])
        BY <1>5, <4>1, AlikeSelf DEF IsMessages
      <4>3. \A i \in 1..Len(ms) : Alike(ms[i], ms[i])
        BY <1>5, <4>1, AlikeSelf DEF IsMessages
      <4> QED
        BY <4>2, <4>3 DEF AllAlike
    <3> QED
      BY <1>0, <2>1, <3>1
  <2>2. CASE f = WithFixedCall(ms, id)
    BY <1>0, <2>2, FixOfTalk
  <2> QED
    BY <1>4, <2>1, <2>2
<1>7. /\ new = f \o <<m>> /\ IsTalk(new) /\ Systems(new) = Systems(f)
      /\ Regular(new) = F \o <<m>>
  BY <1>3, <1>6, AddedOne
<1>8. IsMessages(f) /\ IsMessages(F)
  BY <1>6, TalkIsMessages
<1> HIDE DEF new, R, F
<1>9. WellFormed(Regular(new) \o Answers(Tail(todo))) /\ IsSeq(Tail(todo))
  <2>1. WellFormed((F \o <<m>>) \o Answers(Tail(todo)))
    BY <1>1, <1>5, <1>6, <1>8, AnswerTakesPlace DEF m
  <2> QED
    BY <1>1, <1>7, <2>1, RestIs
<1>10. ~n.trimmed => WellUpTo(new, n.idx)
  <2> DEFINE one == <<m>>
  <2>1. IsMessages(one)
    BY <1>3, OneMessage DEF AreRegular
  <2> HIDE DEF one
  <2>2. WellUpTo(ms, q.idx) => WellUpTo(f, q.idx)
    BY <1>5, <1>6, <1>8, WellAlike
  <2>3. WellUpTo(f, q.idx) => WellUpTo(f \o one, q.idx)
    BY <1>8, <2>1, WellLonger
  <2> QED
    BY <1>1, <1>2, <1>7, <2>2, <2>3 DEF one
<1>11. \E d \in Contexts : /\ TellsContext(Systems(n.session.messages), d)
                           /\ n.context # NoContext => d = n.context
  BY <1>2, <1>6, <1>7, ContextStays DEF ms
<1> QED
  BY <1>2, <1>7, <1>9, <1>10, <1>11 DEF TalkFollows

LEMMA WorkedFollows ==
    ASSUME NEW q, NEW n, TalkFollows(q), Worked(q, n)
    PROVE  TalkFollows(n)
<1> DEFINE ms == q.session.messages
           question == UserMessage("question")
<1>1. CASE q.phase = "slash" /\ n.phase = "asking" /\ AsSlashed(q, n)
  BY <1>1, SlashFollows
<1>2. CASE q.phase = "asking" /\ n.phase = "sending"
           /\ AsTrimmed(q, n, Append(ms, question), 0, <<question>>)
  BY <1>2, AskedFollows
<1>3. CASE /\ q.phase \in {"calling", "fixing"} /\ n.phase = "calling"
           /\ q.phase = "calling" => q.todo # <<>>
           /\ \E w, id : \E f \in {ms, WithFixedCall(ms, id)} : AsAnswered(q, n, f, w)
  BY <1>3, AnsweredFollows
<1>4. CASE q.phase = "calling" /\ q.todo # <<>> /\ n.phase = "fixing" /\ SameTalk(q, n)
  BY <1>4 DEF TalkFollows, SameTalk
<1>5. CASE q.phase = "calling" /\ q.todo = <<>> /\ n.phase = "sending"
           /\ AsTrimmed(q, n, ms, q.idx, <<>>)
  <2> DEFINE R == Regular(ms)
  <2>1. IsTalk(ms) /\ WellFormed(R \o Answers(<<>>)) /\ (~q.trimmed => WellUpTo(ms, q.idx))
    BY <1>5 DEF TalkFollows
  <2>2. IsSeq(R)
    BY <2>1, TalkIsMessages
  <2>3. WellFormed(R)
    <3> HIDE DEF R
    <3> QED
      BY <2>1, <2>2, NothingAdded
  <2>4. WellUpTo(ms, q.idx) => q.idx # 0
    BY DEF WellUpTo
  <2> QED
    BY <1>5, <2>1, <2>3, <2>4, SentFollows
<1> QED
  BY <1>1, <1>2, <1>3, <1>4, <1>5 DEF Worked

LEMMA ReceivedFollows ==
    ASSUME NEW q, NEW n, TalkFollows(q), q.phase = "sending", NEW reply \in Replies,
           n.phase = IF reply.tools THEN "calling" ELSE "saving", AsReceived(q, n, reply)
    PROVE  TalkFollows(n)
<1> DEFINE ms == q.session.messages
           R == Regular(ms)
           A == ReplyMessages(reply)
           new == ms \o A
<1>1. /\ n.session.messages = new /\ n.todo = reply.calls
      /\ n.idx = q.idx /\ n.trimmed = q.trimmed /\ n.context = q.context
  BY DEF AsReceived
<1>2. IsTalk(ms) /\ WellFormed(R) /\ (~q.trimmed => WellUpTo(ms, q.idx))
  BY DEF TalkFollows
<1>3. IsSeq(reply.calls) /\ \A i \in DOMAIN reply.calls : IsToolCall(reply.calls[i])
  BY ThreadsAssumption
<1> HIDE DEF ms
<1>4. IsMessages(ms) /\ IsMessages(R) /\ AreRegular(R)
  BY <1>2, TalkIsMessages DEF IsTalk
<1> HIDE DEF R
<1>5. AreRegular(A) /\ WellFormed(R \o A \o IF reply.tools THEN Answers(reply.calls) ELSE <<>>)
  <2>1. CASE reply.tools
    <3> DEFINE m == Message("assistant", <<>>, 1, reply.calls, 0)
    <3>1. A = <<m>>
      BY <2>1 DEF ReplyMessages
    <3>2. IsMessage(m) /\ ~IsSystem(m) /\ m.role # "tool" /\ m.calls = reply.calls
      BY <1>3, MessageIs
    <3> HIDE DEF m
    <3>3. AreRegular(<<m>>) /\ WellFormed((R \o <<m>>) \o Answers(m.calls))
      BY <1>2, <1>4, <3>2, WellCalled, OneMessage
    <3> QED
      BY <2>1, <3>1, <3>2, <3>3
  <2>2. CASE ~reply.tools /\ reply.text = <<>>
    <3>1. A = <<>>
      BY <2>2 DEF ReplyMessages
    <3>2. R \o <<>> = R
      BY <1>4, NothingAdded DEF IsMessages
    <3> QED
      BY <1>2, <2>2, <3>1, <3>2, NoMessages
  <2>3. CASE ~reply.tools /\ reply.text # <<>>
    <3> DEFINE m == Message("assistant", reply.text, 1, <<>>, 0)
    <3>1. A = <<m>>
      BY <2>3 DEF ReplyMessages
    <3>2. IsMessage(m) /\ ~IsSystem(m) /\ m.role # "tool" /\ m.calls = <<>>
      BY PlainIs
    <3> HIDE DEF m
    <3>3. AreRegular(<<m>>)
      BY <3>2, OneMessage
    <3>4. WellFormed(Append(R, m)) /\ Append(R, m) = R \o <<m>> /\ IsMessages(Append(R, m))
      BY <1>2, <1>4, <3>2, WellAppend, AppendConcat DEF IsMessages
    <3>5. (R \o <<m>>) \o <<>> = R \o <<m>>
      BY <3>4, NothingAdded DEF IsMessages
    <3> QED
      BY <2>3, <3>1, <3>3, <3>4, <3>5
  <2> QED
    BY <2>1, <2>2, <2>3
<1> HIDE DEF A
<1>6. IsTalk(new) /\ Systems(new) = Systems(ms) /\ Regular(new) = R \o A /\ AreRegular(R \o A)
  BY <1>2, <1>5, Added DEF R
<1>7. IF reply.tools THEN WellFormed(Regular(new) \o Answers(reply.calls)) ELSE WellFormed(Regular(new))
  <2>1. (R \o A) \o <<>> = R \o A
    BY <1>6, NothingAdded DEF AreRegular, IsMessages
  <2> QED
    BY <1>5, <1>6, <2>1
<1>8. ~n.trimmed => WellUpTo(new, n.idx)
  <2>1. WellUpTo(ms, q.idx) => WellUpTo(new, q.idx)
    BY <1>4, <1>5, WellLonger DEF AreRegular
  <2> QED
    BY <1>1, <1>2, <2>1
<1> HIDE DEF new
<1>9. \E d \in Contexts : /\ TellsContext(Systems(n.session.messages), d)
                          /\ n.context # NoContext => d = n.context
  BY <1>1, <1>6, ContextStays DEF ms
<1> QED
  BY <1>1, <1>3, <1>6, <1>7, <1>8, <1>9 DEF TalkFollows

\* A request begins with what is in the file, or with the messages of a new thread.
LEMMA BegunFollows ==
    ASSUME NEW n, NEW t \in Threads, NEW ctx \in Contexts, AsBegun(n, threads[t], ctx),
           threads[t] # Cut, TalkInv
    PROVE  TalkFollows(n)
<1> DEFINE ms == n.session.messages
<1>1. FileFollows(ms) /\ (ctx # NoContext => TellsContext(Systems(ms), ctx))
  <2>1. CASE threads[t] = Absent
    <3>1. ms = <<>> \o (Onboarding \o NewContext(ctx))
      BY <2>1 DEF AsBegun
    <3> QED
      BY <3>1, NewIs
  <2>2. CASE threads[t] # Absent
    <3> DEFINE file == threads[t]
               f == Loaded(file, ctx).messages
    <3>1. memories = TRUE /\ FileFollows(file.messages)
      BY <2>2 DEF TalkInv
    <3>2. FileFollows(f) /\ (ctx # NoContext => TellsContext(Systems(f), ctx))
      BY <3>1, LoadedIs
    <3>3. ms = f \o (<<>> \o <<>>)
      BY <2>2, <3>1 DEF AsBegun, Onboarding
    <3> HIDE DEF f
    <3>4. <<>> \o <<>> = <<>> /\ f \o <<>> = f
      <4>1. IsTalk(f)
        BY <3>2 DEF FileFollows
      <4>2. IsSeq(f) /\ IsSeq(<<>>)
        BY <4>1, TalkIsMessages, EmptyIs
      <4> QED
        BY <4>2, NothingAdded
    <3> QED
      BY <3>2, <3>3, <3>4
  <2> QED
    BY <2>1, <2>2
<1>2. n.phase \in {"slash", "asking"} /\ n.context = ctx
  BY DEF AsBegun
<1>3. \E d \in Contexts : TellsContext(Systems(ms), d) /\ (ctx # NoContext => d = ctx)
  <2>1. CASE ctx = NoContext
    BY <1>1, <2>1 DEF FileFollows
  <2>2. CASE ctx # NoContext
    BY <1>1, <2>2
  <2> QED
    BY <2>1, <2>2
<1> QED
  BY <1>1, <1>2, <1>3 DEF TalkFollows, FileFollows

LEMMA TalkStep == ChatInv /\ TalkInv /\ [Next]_vars => TalkInv'
<1> SUFFICES ASSUME ChatInv, TalkInv, [Next]_vars PROVE TalkInv'
  OBVIOUS
<1>1. CASE UNCHANGED vars
  BY <1>1 DEF vars, TalkInv, TalkFollows, FileFollows
<1> SUFFICES ASSUME Next PROVE TalkInv'
  BY <1>1
<1>a. ASSUME NEW s \in Slots, req' = [req EXCEPT ![s] = req'[s]],
             req'[s] = Idle \/ TalkFollows(req'[s]), memories' = TRUE,
             \A t \in Threads : threads'[t] \notin {Absent, Cut} =>
                threads'[t] = threads[t] \/ FileFollows(threads'[t].messages)
      PROVE  TalkInv'
  <2>1. \A o \in Slots : o # s => req'[o] = req[o]
    BY <1>a DEF ChatInv
  <2>2. ASSUME NEW o \in Slots PROVE req'[o] = Idle \/ TalkFollows(req'[o])
    BY <1>a, <2>1 DEF TalkInv
  <2>3. ASSUME NEW t \in Threads, threads'[t] \notin {Absent, Cut}
        PROVE  FileFollows(threads'[t].messages)
    BY <1>a, <2>3 DEF TalkInv
  <2> QED
    BY <1>a, <2>2, <2>3 DEF TalkInv, TalkFollows, FileFollows
<1>2. ASSUME NEW s \in Slots, NEW t \in Threads, NEW ctx \in Contexts, NEW given, NEW slash,
             Begin(s, t, given, ctx, slash)
      PROVE  TalkInv'
  <2>1. /\ req' = [req EXCEPT ![s] = req'[s]] /\ memories' = TRUE /\ threads' = threads
        /\ AsBegun(req'[s], threads[t], ctx) /\ threads[t] # Cut
    BY <1>2, BegunIsLive
  <2>2. TalkFollows(req'[s])
    BY <2>1, BegunFollows
  <2> QED
    BY <1>a, <2>1, <2>2
<1>b. ASSUME NEW s \in Slots, IsLive(req[s]) PROVE memories = TRUE /\ TalkFollows(req[s])
  <2>1. req[s] # Idle
    BY <1>b DEF IsLive, Idle, Phases
  <2> QED
    BY <2>1 DEF TalkInv
<1>c. ASSUME NEW s \in Slots, req[s].phase \in Phases PROVE IsLive(req[s])
  BY <1>c, NotIdle
<1>3. ASSUME NEW s \in Slots, HasWork(s) PROVE TalkInv'
  <2>1. /\ req' = [req EXCEPT ![s] = req'[s]] /\ req[s].phase \in Talking
        /\ memories' = memories /\ threads' = threads /\ Worked(req[s], req'[s])
    BY <1>3, WorkGoesOn
  <2>2. memories = TRUE /\ TalkFollows(req[s])
    BY <1>b, <1>c, <2>1 DEF Talking, Phases
  <2>3. TalkFollows(req'[s])
    BY <2>1, <2>2, WorkedFollows
  <2> QED
    BY <1>a, <2>1, <2>2, <2>3
<1>4. ASSUME NEW s \in Slots, NEW reply \in Replies, Receive(s, reply) PROVE TalkInv'
  <2>1. /\ req' = [req EXCEPT ![s] = req'[s]] /\ IsLive(req[s]) /\ req[s].phase = "sending"
        /\ req'[s].phase = IF reply.tools THEN "calling" ELSE "saving"
        /\ memories' = memories /\ threads' = threads /\ AsReceived(req[s], req'[s], reply)
    BY <1>4, ReceivedIsLive
  <2>2. memories = TRUE /\ TalkFollows(req[s])
    BY <1>b, <2>1
  <2>3. TalkFollows(req'[s])
    BY <2>1, <2>2, ReceivedFollows
  <2> QED
    BY <1>a, <2>1, <2>2, <2>3
<1>5. ASSUME NEW s \in Slots,
             OpenThread(s) \/ WriteThread(s) \/ ReadSummary(s) \/ OpenSummary(s)
      PROVE  TalkInv'
  <2>1. /\ req' = [req EXCEPT ![s] = req'[s]] /\ IsLive(req[s]) /\ SameTalk(req[s], req'[s])
        /\ req[s].phase \in Saving /\ req'[s].phase \in Saving
    BY <1>5, SavingGoesOn
  <2>2. memories = TRUE /\ TalkFollows(req[s])
    BY <1>b, <2>1
  <2>3. TalkFollows(req'[s])
    BY <2>1, <2>2 DEF TalkFollows, SameTalk, Saving
  <2>4. memories' = memories
    BY <1>5 DEF OpenThread, WriteThread, ReadSummary, OpenSummary, Becomes, Changes
  <2>5. ASSUME NEW t \in Threads, threads'[t] \notin {Absent, Cut}
        PROVE  threads'[t] = threads[t] \/ FileFollows(threads'[t].messages)
    <3>1. CASE OpenThread(s)
      BY <2>5, <3>1 DEF OpenThread, ChatInv
    <3>2. CASE WriteThread(s)
      <4> DEFINE session == req[s].session
                 file == [title |-> session.title, messages |-> session.messages]
      <4>1. threads' = [threads EXCEPT ![req[s].thread] = file]
        BY <3>2 DEF WriteThread
      <4>2. FileFollows(file.messages)
        BY <2>1, <2>2 DEF TalkFollows, FileFollows, Saving
      <4> HIDE DEF file
      <4> QED
        BY <4>1, <4>2 DEF ChatInv
    <3>3. CASE ReadSummary(s) \/ OpenSummary(s)
      BY <3>3 DEF ReadSummary, OpenSummary, Becomes, Changes
    <3> QED
      BY <1>5, <3>1, <3>2, <3>3
  <2> QED
    BY <1>a, <2>1, <2>2, <2>3, <2>4, <2>5
<1>6. ASSUME NEW s \in Slots, WriteSummary(s) \/ Fail(s) PROVE TalkInv'
  <2>1. req' = [req EXCEPT ![s] = Idle] /\ threads' = threads /\ memories' = memories
        /\ req[s].phase \in Phases
    BY <1>6 DEF WriteSummary, Fail, Phases
  <2>2. req'[s] = Idle /\ memories = TRUE
    BY <1>b, <1>c, <2>1 DEF ChatInv
  <2> QED
    BY <1>a, <2>1, <2>2
<1> QED
  BY <1>2, <1>3, <1>4, <1>5, <1>6 DEF Next, HasWork

LEMMA TalkBegins == Init => TalkInv
BY DEF Init, TalkInv

LEMMA TalkHolds == Spec => [](ChatInv /\ TalkInv)
BY ChatBegins, ChatStep, TalkBegins, TalkStep, PTL DEF Spec

\* What a fork at a place that stands for itself is.
LEMMA ForkIs ==
    ASSUME NEW s \in Slots, IsLive(req[s]), IsTalk(req[s].session.messages),
           WellUpTo(req[s].session.messages, req[s].idx)
    PROVE  WellFormed(Fork(s).messages)
<1> DEFINE x == req[s].session
           ms == x.messages
           k == req[s].idx
           b == SubSeq(ms, 1, k)
           m == Message("assistant", <<"fix">>, 1, <<>>, 0)
           y == ForkAt(x, k)
           fork == SetStreaming(RemoveAllTools(SetResponseSchema(y)), FALSE)
<1>1. IsSession(x)
  BY DEF IsLive
<1>2. IsMessages(ms) /\ k \in 1..Len(ms) /\ WellFormed(b)
  BY TalkIsMessages DEF WellUpTo
<1>3. IsSession(y) /\ y.messages = IF k < Len(ms) THEN b ELSE ms
  BY <1>1 DEF ForkAt, IsSession
<1>4. IsSession(fork) /\ fork.messages = y.messages
  <2> HIDE DEF y
  <2> QED
    BY <1>3 DEF SetStreaming, RemoveAllTools, SetResponseSchema, IsSession
<1>5. Fork(s).messages = Append(y.messages, m)
  <2>1. Fork(s) = AddMessage(fork, m)
    BY DEF Fork
  <2> HIDE DEF fork, m
  <2> QED
    BY <1>4, <2>1 DEF AddMessage, IsSession
<1>6. y.messages = b
  <2>1. CASE k < Len(ms)
    BY <1>3, <2>1
  <2>2. CASE k = Len(ms)
    <3>1. ms \in Seq(ToSet(ms))
      BY <1>2 DEF IsMessages, IsSeq
    <3>2. SubSeq(ms, 1, Len(ms)) = ms
      <4> HIDE DEF ms
      <4> QED
        BY <3>1
    <3> QED
      BY <1>3, <2>2, <3>2
  <2> QED
    BY <1>2, <2>1, <2>2
<1>7. IsMessages(b)
  <2>1. k \in 0..Len(ms)
    BY <1>2
  <2> HIDE DEF ms, k
  <2> QED
    BY <1>2, <2>1, BeginningMessages
<1>8. IsMessage(m) /\ m.calls = <<>> /\ m.role # "tool"
  BY PlainIs
<1> HIDE DEF b, m, y
<1>9. WellFormed(Append(b, m))
  BY <1>2, <1>7, <1>8, WellAppend
<1> QED
  BY <1>5, <1>6, <1>9

\* Whatever is trimmed, fixed and loaded again, every call in what the model is
\* sent is answered in place, and so it is in the fork that fixes a call, as long
\* as the request has trimmed nothing (process_chat_with_tool_calls,
\* trim_messages, fix_tool_call): for any number of requests at once, any replies
\* and any contexts.
THEOREM SentIsAnswered == Spec => []CallsAreAnswered
<1>1. ChatInv /\ TalkInv => CallsAreAnswered
  <2> SUFFICES ASSUME ChatInv, TalkInv, NEW s \in Slots
               PROVE  /\ req[s].phase = "sending" => WellFormed(req[s].session.messages)
                      /\ req[s].phase = "fixing" /\ ~req[s].trimmed => WellFormed(Fork(s).messages)
    BY DEF CallsAreAnswered
  <2> DEFINE q == req[s]
             ms == q.session.messages
  <2>1. q.phase \in Phases => IsLive(q) /\ TalkFollows(q)
    <3>1. Idle.phase \notin Phases
      BY DEF Idle, Phases
    <3> QED
      BY <3>1, NotIdle DEF TalkInv
  <2>2. ASSUME q.phase = "sending" PROVE WellFormed(ms)
    <3>1. IsTalk(ms) /\ WellFormed(Regular(ms))
      BY <2>1, <2>2 DEF TalkFollows, Phases
    <3> HIDE DEF ms
    <3> QED
      BY <3>1, WellTalk
  <2>3. ASSUME q.phase = "fixing", ~q.trimmed PROVE WellFormed(Fork(s).messages)
    <3>1. IsLive(q) /\ IsTalk(ms) /\ WellUpTo(ms, q.idx)
      BY <2>1, <2>3 DEF TalkFollows, Phases
    <3> QED
      BY <3>1, ForkIs
  <2> QED
    BY <2>2, <2>3
<1> QED
  BY <1>1, TalkHolds, PTL

\* A request that brings a context sends it, and no other one
\* (load_existing_thread, initialize_chat_session): the system messages are those
\* of one context, whatever contexts the requests before it brought.
THEOREM SentTellsContext == Spec => []ContextIsCurrent
<1>1. ChatInv /\ TalkInv => ContextIsCurrent
  <2> SUFFICES ASSUME ChatInv, TalkInv, NEW s \in Slots,
                      req[s].phase = "sending" /\ req[s].context # NoContext
               PROVE  LET sent == Systems(req[s].session.messages)
                          contexts == { i \in DOMAIN sent : Head(sent[i].text) # "onboarding" }
                      IN  \E i \in contexts : contexts = {i} /\ Head(sent[i].text) = req[s].context
    BY DEF ContextIsCurrent
  <2> DEFINE q == req[s]
             S == Systems(q.session.messages)
             c == q.context
  <2>1. TalkFollows(q)
    BY DEF TalkInv, Idle
  <2>2. c \in Contexts /\ c # NoContext /\ TellsContext(S, c)
    BY <2>1 DEF TalkFollows
  <2> HIDE DEF S, c
  <2>3. LET contexts == { i \in DOMAIN S : Head(S[i].text) # "onboarding" }
        IN  \E i \in contexts : contexts = {i} /\ Head(S[i].text) = c
    BY <2>2, ContextStands
  <2> QED
    BY <2>3 DEF S, c
<1> QED
  BY <1>1, TalkHolds, PTL

------------------------------------------------------------------------------
(* The conversations: what is saved *)
LEMMA SuffixIs ==
    ASSUME NEW d, NEW x, IsSeq(d), IsSeq(x)
    PROVE  IsSuffix(x, d \o x)
<1> DEFINE y == d \o x
           m == Len(d)
           n == Len(x)
           rx == Reverse(x)
           ry == Reverse(y)
<1>1. /\ IsSeq(y) /\ m \in Nat /\ n \in Nat /\ Len(y) = m + n
      /\ \A i \in 1..n : y[m + i] = x[i]
  BY ConcatIs
<1> HIDE DEF y, m, n
<1>2. rx = [i \in 1..n |-> x[(n - i) + 1]]
  BY DEF Reverse, n
<1>3. ry = [i \in 1..m + n |-> y[(m + n - i) + 1]]
  BY <1>1 DEF Reverse
<1> HIDE DEF rx, ry
<1>4. IsSeq(rx) /\ Len(rx) = n
  <2>1. rx = [i \in 1..n |-> rx[i]]
    BY <1>2
  <2> QED
    BY <1>1, <2>1, IsSeqFunction
<1>5. IsSeq(ry) /\ Len(ry) = m + n
  <2>1. ry = [i \in 1..m + n |-> ry[i]] /\ m + n \in Nat
    BY <1>1, <1>3
  <2> QED
    BY <2>1, IsSeqFunction
<1>6. /\ IsSeq(SubSeq(rx, 1, n)) /\ Len(SubSeq(rx, 1, n)) = n
      /\ \A i \in 1..n : SubSeq(rx, 1, n)[i] = rx[i]
  <2>1. n \in 0..Len(rx)
    BY <1>1, <1>4
  <2> QED
    BY <1>4, <2>1, BeginningIs
<1>7. /\ IsSeq(SubSeq(ry, 1, n)) /\ Len(SubSeq(ry, 1, n)) = n
      /\ \A i \in 1..n : SubSeq(ry, 1, n)[i] = ry[i]
  <2>1. n \in 0..Len(ry)
    BY <1>1, <1>5
  <2> QED
    BY <1>5, <2>1, BeginningIs
<1>8. ASSUME NEW i \in 1..n PROVE rx[i] = ry[i]
  <2>1. i \in 1..m + n /\ (n - i) + 1 \in 1..n /\ (m + n - i) + 1 = m + ((n - i) + 1)
    BY <1>1
  <2> QED
    BY <1>1, <1>2, <1>3, <2>1
<1>9. SubSeq(rx, 1, n) = SubSeq(ry, 1, n)
  <2> DEFINE a == SubSeq(rx, 1, n)
             b == SubSeq(ry, 1, n)
  <2>1. IsSeq(a) /\ IsSeq(b) /\ Len(a) = n /\ Len(b) = n /\ \A i \in 1..n : a[i] = b[i]
    BY <1>6, <1>7, <1>8
  <2> HIDE DEF a, b
  <2>2. a = b
    BY <2>1, SameSeq
  <2> QED
    BY <2>2 DEF a, b
<1>10. IsPrefix(rx, ry)
  BY <1>1, <1>4, <1>5, <1>9 DEF IsPrefix
<1> QED
  BY <1>10 DEF IsSuffix, rx, ry, y

\* A sequence is a beginning and the end after it.
LEMMA SplitIs ==
    ASSUME NEW s, IsSeq(s), NEW k \in 1..Len(s) + 1
    PROVE  LET a == SubSeq(s, 1, k - 1)
               b == SubSeq(s, k, Len(s))
           IN  IsSeq(a) /\ IsSeq(b) /\ s = a \o b
<1> DEFINE a == SubSeq(s, 1, k - 1)
           b == SubSeq(s, k, Len(s))
           n == Len(s)
<1>1. n \in Nat /\ k - 1 \in 0..n
  BY SeqIs
<1>2. IsSeq(a) /\ Len(a) = k - 1 /\ \A i \in 1..k - 1 : a[i] = s[i]
  BY <1>1, BeginningIs
<1>3. /\ IsSeq(b) /\ Len(b) = n + 1 - k
      /\ \A i \in 1..Len(b) : b[i] = s[k + i - 1]
  BY EndIs
<1> HIDE DEF a, b, n
<1>4. /\ IsSeq(a \o b) /\ Len(a \o b) = Len(a) + Len(b)
      /\ \A i \in 1..Len(a) : (a \o b)[i] = a[i]
      /\ \A i \in 1..Len(b) : (a \o b)[Len(a) + i] = b[i]
  <2>1. IsSeq(a) /\ IsSeq(b)
    BY <1>2, <1>3
  <2> QED
    BY <2>1, ConcatIs
<1> DEFINE c == a \o b
<1>5. /\ IsSeq(c) /\ Len(c) = n
      /\ \A i \in 1..k - 1 : c[i] = s[i]
      /\ \A i \in 1..n + 1 - k : c[(k - 1) + i] = s[k + i - 1]
  BY <1>1, <1>2, <1>3, <1>4
<1> HIDE DEF c
<1>6. ASSUME NEW i \in 1..n PROVE c[i] = s[i]
  <2>1. CASE i <= k - 1
    <3>1. i \in 1..k - 1
      BY <1>1, <2>1
    <3> QED
      BY <1>5, <3>1
  <2>2. CASE ~(i <= k - 1)
    <3> DEFINE j == i - (k - 1)
    <3>1. j \in 1..n + 1 - k /\ (k - 1) + j = i /\ k + j - 1 = i
      BY <1>1, <2>2
    <3> QED
      BY <1>5, <3>1
  <2> QED
    BY <2>1, <2>2
<1>7. s = c
  BY <1>5, <1>6, SameSeq DEF n
<1> QED
  BY <1>2, <1>3, <1>7 DEF a, b, c

\* The turn is at the end of what was saved, or was before a trim.
TurnStands(k, turn, ms, trimmed) ==
    \E d : /\ IsSeq(d) /\ Outline(Regular(k) \o turn) = d \o Outline(Regular(ms))
           /\ ~trimmed => d = <<>>

LEMMA TurnAdded ==
    ASSUME NEW k, IsTalk(k), NEW turn, AreRegular(turn), NEW ms, IsTalk(ms), NEW trimmed,
           TurnStands(k, turn, ms, trimmed),
           NEW A, AreRegular(A), NEW new, Regular(new) = Regular(ms) \o A
    PROVE  TurnStands(k, turn \o A, new, trimmed) /\ AreRegular(turn \o A)
<1> DEFINE K == Regular(k)
           R == Regular(ms)
           O == Outline(R)
           P == Outline(A)
<1>1. IsSeq(K) /\ IsSeq(R) /\ IsSeq(A) /\ IsSeq(turn)
  BY TalkIsMessages DEF AreRegular, IsMessages
<1>2. PICK d : IsSeq(d) /\ Outline(K \o turn) = d \o O /\ (~trimmed => d = <<>>)
  BY DEF TurnStands
<1> HIDE DEF K, R
<1>3. IsSeq(O) /\ IsSeq(P)
  BY <1>1, OutlineIs
<1>4. IsSeq(K \o turn) /\ K \o (turn \o A) = (K \o turn) \o A
  BY <1>1, ConcatAll, ConcatIs
<1> DEFINE T == K \o turn
<1> HIDE DEF T
<1>5. Outline(T \o A) = Outline(T) \o P /\ Outline(R \o A) = O \o P
  <2>1. IsSeq(T)
    BY <1>4 DEF T
  <2> QED
    BY <1>1, <2>1, OutlineConcat
<1> HIDE DEF O, P
<1>6. (d \o O) \o P = d \o (O \o P)
  BY <1>2, <1>3, ConcatAll
<1>7. Outline(K \o (turn \o A)) = d \o Outline(R \o A)
  BY <1>2, <1>4, <1>5, <1>6 DEF T
<1>8. TurnStands(k, turn \o A, new, trimmed)
  BY <1>2, <1>7 DEF TurnStands, K, R
<1> QED
  BY <1>8, TwoMessages

LEMMA TurnTrimmed ==
    ASSUME NEW k, NEW turn, NEW ms, IsTalk(ms), NEW trimmed, TurnStands(k, turn, ms, trimmed),
           NEW a \in 1..Len(Regular(ms)) + 1,
           NEW new, Regular(new) = SubSeq(Regular(ms), a, Len(Regular(ms)))
    PROVE  TurnStands(k, turn, new, TRUE)
<1> DEFINE K == Regular(k)
           R == Regular(ms)
           p == SubSeq(R, 1, a - 1)
           e == SubSeq(R, a, Len(R))
<1>1. IsSeq(R)
  BY TalkIsMessages
<1>2. PICK d : IsSeq(d) /\ Outline(K \o turn) = d \o Outline(R)
  BY DEF TurnStands
<1>a. a \in 1..Len(R) + 1 /\ Regular(new) = e
  OBVIOUS
<1> HIDE DEF K, R
<1>3. IsSeq(p) /\ IsSeq(e) /\ R = p \o e
  BY <1>1, <1>a, SplitIs
<1> HIDE DEF p, e
<1>4. Outline(R) = Outline(p) \o Outline(e) /\ IsSeq(Outline(p)) /\ IsSeq(Outline(e))
  BY <1>3, OutlineConcat, OutlineIs
<1> DEFINE P == Outline(p)
           E == Outline(e)
<1> HIDE DEF P, E
<1>5. d \o (P \o E) = (d \o P) \o E /\ IsSeq(d \o P)
  <2>1. IsSeq(P) /\ IsSeq(E)
    BY <1>4 DEF P, E
  <2> QED
    BY <1>2, <2>1, ConcatAll, ConcatIs
<1>6. Outline(K \o turn) = (d \o P) \o E
  BY <1>2, <1>4, <1>5 DEF P, E
<1> QED
  BY <1>5, <1>6, <1>a DEF TurnStands, K, E

LEMMA TurnAlike ==
    ASSUME NEW k, NEW turn, NEW ms, IsTalk(ms), NEW trimmed, TurnStands(k, turn, ms, trimmed),
           NEW new, IsTalk(new), AllAlike(Regular(ms), Regular(new))
    PROVE  TurnStands(k, turn, new, trimmed)
<1>1. Outline(Regular(ms)) = Outline(Regular(new))
  BY TalkIsMessages, OutlineAlike
<1> QED
  BY <1>1 DEF TurnStands

\* What a request has said is what it will save.
HistoryFollows(q, k) ==
    /\ AreRegular(q.turn)
    /\ q.phase = "slash" => q.turn = <<>>
    /\ TurnStands(k, q.turn, q.session.messages, q.trimmed)

LEMMA TrimmedHistory ==
    ASSUME NEW k, NEW q, NEW n, n.phase = "sending",
           NEW ms, NEW idx, NEW added, AsTrimmed(q, n, ms, idx, added),
           IsTalk(ms), WellFormed(Regular(ms)), AreRegular(q.turn \o added),
           TurnStands(k, q.turn \o added, ms, q.trimmed)
    PROVE  HistoryFollows(n, k)
<1> DEFINE f == Trimmed(ms)
           R == Regular(ms)
           turn == q.turn \o added
<1>1. /\ n.session.messages = f /\ n.turn = turn
      /\ n.trimmed <=> q.trimmed \/ TooLong(ms)
  BY DEF AsTrimmed
<1>2. CASE ~TooLong(ms)
  <2>1. f = ms
    BY <1>2, TrimKeeps
  <2>2. TurnStands(k, turn, ms, n.trimmed)
    <3> HIDE DEF turn
    <3>1. TurnStands(k, turn, ms, q.trimmed)
      BY DEF turn
    <3> QED
      BY <1>1, <1>2, <3>1 DEF TurnStands
  <2> QED
    BY <1>1, <2>1, <2>2 DEF HistoryFollows
<1>3. CASE TooLong(ms)
  <2>1. PICK a \in 1..Len(R) + 1 : Regular(f) = SubSeq(R, a, Len(R))
    BY <1>3, TrimKeeps
  <2>2. TurnStands(k, turn, f, TRUE)
    <3> HIDE DEF f, turn
    <3>1. TurnStands(k, turn, ms, q.trimmed)
      BY DEF turn
    <3> QED
      BY <2>1, <3>1, TurnTrimmed
  <2>3. TurnStands(k, turn, f, n.trimmed)
    <3> HIDE DEF f, turn
    <3> QED
      BY <1>1, <1>3, <2>2 DEF TurnStands
  <2> QED
    BY <1>1, <2>3 DEF HistoryFollows
<1> QED
  BY <1>2, <1>3

LEMMA WorkedHistory ==
    ASSUME NEW k, IsTalk(k), NEW q, NEW n, TalkFollows(q), HistoryFollows(q, k), Worked(q, n)
    PROVE  HistoryFollows(n, k)
<1> DEFINE ms == q.session.messages
           turn == q.turn
           question == UserMessage("question")
<1>1. IsTalk(ms) /\ AreRegular(turn) /\ TurnStands(k, turn, ms, q.trimmed)
  BY DEF TalkFollows, HistoryFollows
<1>a. ASSUME NEW m, IsMessage(m), ~IsSystem(m), NEW f, IsTalk(f), TurnStands(k, turn, f, q.trimmed)
      PROVE  /\ IsTalk(Append(f, m)) /\ Regular(Append(f, m)) = Regular(f) \o <<m>>
             /\ AreRegular(turn \o <<m>>)
             /\ Append(turn, m) = turn \o <<m>>
             /\ TurnStands(k, turn \o <<m>>, Append(f, m), q.trimmed)
  <2> HIDE DEF ms, turn
  <2> DEFINE A == <<m>>
             new == Append(f, m)
  <2>1. AreRegular(A) /\ IsTalk(new) /\ Regular(new) = Regular(f) \o A
    BY <1>a, AddedOne
  <2>2. Append(turn, m) = turn \o A
    BY <1>1, AppendConcat DEF AreRegular, IsMessages
  <2> HIDE DEF A, new
  <2>3. TurnStands(k, turn \o A, new, q.trimmed) /\ AreRegular(turn \o A)
    BY <1>1, <1>a, <2>1, TurnAdded
  <2> QED
    BY <2>1, <2>2, <2>3 DEF A, new
<1>2. CASE q.phase = "slash" /\ n.phase = "asking" /\ AsSlashed(q, n)
  <2> DEFINE m == UserMessage("slash")
  <2>1. IsMessage(m) /\ ~IsSystem(m)
    BY UserIs
  <2>2. turn = <<>> /\ n.trimmed = q.trimmed /\ n.session.messages = Append(ms, m) /\ n.turn = <<m>>
    BY <1>2 DEF HistoryFollows, AsSlashed
  <2> HIDE DEF m, turn, ms
  <2>3. AreRegular(turn \o <<m>>) /\ TurnStands(k, turn \o <<m>>, Append(ms, m), q.trimmed)
    BY <1>1, <1>a, <2>1
  <2>4. turn \o <<m>> = <<m>>
    BY <2>2, SingleIs, NothingAdded
  <2> QED
    BY <1>2, <2>2, <2>3, <2>4 DEF HistoryFollows
<1>3. CASE q.phase = "asking" /\ n.phase = "sending"
           /\ AsTrimmed(q, n, Append(ms, question), 0, <<question>>)
  <2> DEFINE f == Append(ms, question)
             R == Regular(ms)
  <2>1. IsMessage(question) /\ ~IsSystem(question) /\ question.calls = <<>>
        /\ question.role # "tool"
    BY UserIs
  <2>2. WellFormed(R)
    BY <1>3 DEF TalkFollows
  <2>3. AsTrimmed(q, n, f, 0, <<question>>)
    BY <1>3
  <2> HIDE DEF question, ms
  <2>4. /\ IsTalk(f) /\ Regular(f) = R \o <<question>>
        /\ AreRegular(q.turn \o <<question>>)
        /\ TurnStands(k, q.turn \o <<question>>, f, q.trimmed)
    BY <1>1, <1>a, <2>1
  <2>5. WellFormed(Regular(f))
    <3>1. IsMessages(R)
      BY <1>1, TalkIsMessages
    <3> HIDE DEF R, f
    <3>2. WellFormed(Append(R, question)) /\ Append(R, question) = R \o <<question>>
      BY <2>1, <2>2, <3>1, WellAppend, AppendConcat DEF IsMessages
    <3> QED
      BY <2>4, <3>2
  <2> HIDE DEF f
  <2> QED
    BY <1>3, <2>3, <2>4, <2>5, TrimmedHistory
<1>4. CASE /\ q.phase \in {"calling", "fixing"} /\ n.phase = "calling"
           /\ q.phase = "calling" => q.todo # <<>>
           /\ \E w, id : \E f \in {ms, WithFixedCall(ms, id)} : AsAnswered(q, n, f, w)
  <2>1. PICK w, id : \E f \in {ms, WithFixedCall(ms, id)} : AsAnswered(q, n, f, w)
    BY <1>4
  <2>2. PICK f \in {ms, WithFixedCall(ms, id)} : AsAnswered(q, n, f, w)
    BY <2>1
  <2> DEFINE m == ToolAnswer(Head(q.todo), w)
  <2>3. IsMessage(m) /\ ~IsSystem(m)
    BY PlainIs DEF ToolAnswer
  <2>4. n.session.messages = Append(f, m) /\ n.turn = Append(turn, m) /\ n.trimmed = q.trimmed
    BY <2>2 DEF AsAnswered
  <2>a. f \in {ms, WithFixedCall(ms, id)}
    OBVIOUS
  <2> HIDE DEF m, ms, turn
  <2>5. IsTalk(f) /\ TurnStands(k, turn, f, q.trimmed)
    <3>1. CASE f = ms
      BY <1>1, <3>1
    <3>2. CASE f = WithFixedCall(ms, id)
      <4>1. IsTalk(f) /\ AllAlike(Regular(ms), Regular(f))
        BY <1>1, <3>2, FixOfTalk
      <4> QED
        BY <1>1, <4>1, TurnAlike
    <3> QED
      BY <2>a, <3>1, <3>2
  <2>6. /\ AreRegular(turn \o <<m>>) /\ Append(turn, m) = turn \o <<m>>
        /\ TurnStands(k, turn \o <<m>>, Append(f, m), q.trimmed)
    BY <1>a, <2>3, <2>5
  <2> QED
    BY <1>4, <2>4, <2>6 DEF HistoryFollows
<1>5. CASE q.phase = "calling" /\ q.todo # <<>> /\ n.phase = "fixing" /\ SameTalk(q, n)
  BY <1>5 DEF HistoryFollows, SameTalk
<1>6. CASE q.phase = "calling" /\ q.todo = <<>> /\ n.phase = "sending"
           /\ AsTrimmed(q, n, ms, q.idx, <<>>)
  <2>1. WellFormed(Regular(ms) \o Answers(<<>>))
    BY <1>6 DEF TalkFollows
  <2>2. AsTrimmed(q, n, ms, q.idx, <<>>)
    BY <1>6
  <2> DEFINE R == Regular(ms)
  <2>3. IsSeq(R) /\ IsSeq(turn)
    BY <1>1, TalkIsMessages DEF AreRegular, IsMessages
  <2>4. WellFormed(R)
    <3> HIDE DEF R
    <3>1. WellFormed(R \o Answers(<<>>))
      BY <2>1 DEF R
    <3> QED
      BY <2>3, <3>1, NothingAdded
  <2>5. q.turn \o <<>> = q.turn
    <3> DEFINE u == q.turn
    <3>1. IsSeq(u)
      BY <2>3
    <3> HIDE DEF u
    <3>2. u \o <<>> = u
      BY <3>1, NothingAdded
    <3> QED
      BY <3>2 DEF u
  <2>6. AreRegular(q.turn \o <<>>) /\ TurnStands(k, q.turn \o <<>>, ms, q.trimmed)
    BY <1>1, <2>5
  <2> HIDE DEF ms, turn
  <2> QED
    BY <1>1, <1>6, <2>2, <2>4, <2>6, TrimmedHistory
<1> QED
  BY <1>2, <1>3, <1>4, <1>5, <1>6 DEF Worked

LEMMA RepliesAreRegular ==
    ASSUME NEW reply \in Replies
    PROVE  AreRegular(ReplyMessages(reply))
<1>1. IsSeq(reply.calls) /\ \A i \in DOMAIN reply.calls : IsToolCall(reply.calls[i])
  BY ThreadsAssumption
<1> DEFINE a == Message("assistant", <<>>, 1, reply.calls, 0)
           b == Message("assistant", reply.text, 1, <<>>, 0)
<1>2. IsMessage(a) /\ ~IsSystem(a)
  BY <1>1, MessageIs
<1>3. IsMessage(b) /\ ~IsSystem(b)
  BY PlainIs
<1>4. ReplyMessages(reply) \in {<<>>, <<a>>, <<b>>}
  BY DEF ReplyMessages
<1> HIDE DEF a, b
<1> QED
  BY <1>2, <1>3, <1>4, NoMessages, OneMessage

LEMMA ReceivedHistory ==
    ASSUME NEW k, IsTalk(k), NEW q, NEW n, TalkFollows(q), HistoryFollows(q, k),
           NEW reply \in Replies, n.phase # "slash", AsReceived(q, n, reply)
    PROVE  HistoryFollows(n, k)
<1> DEFINE ms == q.session.messages
           turn == q.turn
           A == ReplyMessages(reply)
           new == ms \o A
<1>1. IsTalk(ms) /\ AreRegular(turn) /\ TurnStands(k, turn, ms, q.trimmed)
  BY DEF TalkFollows, HistoryFollows
<1>2. AreRegular(A)
  BY RepliesAreRegular
<1>3. n.session.messages = new /\ n.turn = turn \o A /\ n.trimmed = q.trimmed
  BY DEF AsReceived
<1> HIDE DEF ms, turn, A
<1>4. Regular(new) = Regular(ms) \o A
  BY <1>1, <1>2, Added
<1> HIDE DEF new
<1>5. TurnStands(k, turn \o A, new, q.trimmed) /\ AreRegular(turn \o A)
  BY <1>1, <1>2, <1>4, TurnAdded
<1> QED
  BY <1>3, <1>5 DEF HistoryFollows

\* What was saved whole of a thread is what is in its file.
KeptTells ==
    \A t \in Threads :
        /\ IsTalk(kept[t])
        /\ threads[t] = Absent => kept[t] = <<>>
        /\ threads[t] \notin {Absent, Cut} => threads[t].messages = kept[t]

HistoryInv ==
    /\ kept = [t \in Threads |-> kept[t]]
    /\ KeptTells
    /\ \A s \in Slots : req[s] # Idle /\ req[s].phase \in Talking \cup {"saving", "writing"} =>
          HistoryFollows(req[s], kept[req[s].thread])

LEMMA NothingSaid ==
    /\ IsTalk(<<>>) /\ Regular(<<>>) = <<>> /\ Outline(<<>>) = <<>>
<1> DEFINE e == <<>>
<1>1. AreSystems(e) /\ AreRegular(e) /\ IsSeq(e) /\ Len(e) = 0
  BY NoMessages, EmptyIs
<1>2. e \o e = e
  BY <1>1, NothingAdded
<1> HIDE DEF e
<1>3. IsTalk(e) /\ Regular(e) = e
  <2>1. IsTalk(e \o e) /\ Regular(e \o e) = e
    BY <1>1, TalkOf
  <2> QED
    BY <1>2, <2>1
<1>4. IsSeq(Outline(e)) /\ Len(Outline(e)) = 0
  BY <1>1, OutlineIs
<1>5. Outline(e) = <<>>
  BY <1>4, NoneIsEmpty
<1> QED
  BY <1>3, <1>5 DEF e

LEMMA BegunHistory ==
    ASSUME NEW n, NEW t \in Threads, NEW ctx \in Contexts, AsBegun(n, threads[t], ctx),
           threads[t] # Cut, TalkInv, KeptTells
    PROVE  HistoryFollows(n, kept[t])
<1> DEFINE ms == n.session.messages
           k == kept[t]
<1>1. Regular(ms) = Regular(k) /\ IsTalk(k)
  <2>1. CASE threads[t] = Absent
    <3>1. ms = <<>> \o (Onboarding \o NewContext(ctx)) /\ k = <<>>
      BY <2>1 DEF AsBegun, KeptTells
    <3> QED
      BY <3>1, NewIs, NothingSaid
  <2>2. CASE threads[t] # Absent
    <3> DEFINE file == threads[t]
               f == Loaded(file, ctx).messages
    <3>1. memories = TRUE /\ FileFollows(file.messages) /\ file.messages = k
      BY <2>2 DEF TalkInv, KeptTells
    <3>2. FileFollows(f) /\ Regular(f) = Regular(k)
      BY <3>1, LoadedIs
    <3>3. ms = f \o (<<>> \o <<>>)
      BY <2>2, <3>1 DEF AsBegun, Onboarding
    <3> HIDE DEF f
    <3>4. <<>> \o <<>> = <<>> /\ f \o <<>> = f
      <4>1. IsTalk(f)
        BY <3>2 DEF FileFollows
      <4>2. IsSeq(f) /\ IsSeq(<<>>)
        BY <4>1, TalkIsMessages, EmptyIs
      <4> QED
        BY <4>2, NothingAdded
    <3> QED
      BY <3>1, <3>2, <3>3, <3>4 DEF KeptTells
  <2> QED
    BY <2>1, <2>2
<1>2. n.turn = <<>> /\ AreRegular(<<>>)
  BY NoMessages DEF AsBegun
<1> HIDE DEF ms, k
<1>3. TurnStands(k, <<>>, ms, n.trimmed)
  <2> DEFINE K == Regular(k)
             O == Outline(K)
  <2>1. IsSeq(K)
    BY <1>1, TalkIsMessages
  <2> HIDE DEF K
  <2>2. IsSeq(O) /\ K \o <<>> = K
    BY <2>1, OutlineIs, NothingAdded
  <2>3. <<>> \o O = O
    <3> HIDE DEF O
    <3> QED
      BY <2>2, NothingAdded
  <2>4. IsSeq(<<>>) /\ Outline(K \o <<>>) = <<>> \o Outline(Regular(ms))
    BY <1>1, <2>2, <2>3, EmptyIs DEF K
  <2> QED
    BY <2>4 DEF TurnStands, K
<1> QED
  BY <1>2, <1>3 DEF HistoryFollows, ms, k

LEMMA HistoryBegins == Init => HistoryInv
BY NothingSaid DEF Init, HistoryInv, KeptTells

\* One request at a time: two on one thread overwrite what the other saved.
LEMMA HistoryStep ==
    ASSUME ~IsAFcn(Absent), NEW s, Slots = {s}
    PROVE  ChatInv /\ TalkInv /\ HistoryInv /\ [Next]_vars => HistoryInv'
<1> SUFFICES ASSUME ChatInv, TalkInv, HistoryInv, [Next]_vars PROVE HistoryInv'
  OBVIOUS
<1> DEFINE q == req[s]
           n == req'[s]
<1>1. CASE UNCHANGED vars
  BY <1>1 DEF vars, HistoryInv, KeptTells, HistoryFollows
<1> SUFFICES ASSUME Next PROVE HistoryInv'
  BY <1>1
<1>a. ASSUME kept' = kept, KeptTells',
             n = Idle \/ n.phase \notin Talking \cup {"saving", "writing"}
                      \/ HistoryFollows(n, kept[n.thread])
      PROVE  HistoryInv'
  <2>1. ASSUME NEW o \in Slots, req'[o] # Idle, req'[o].phase \in Talking \cup {"saving", "writing"}
        PROVE  HistoryFollows(req'[o], kept'[req'[o].thread])
    BY <1>a, <2>1
  <2> QED
    BY <1>a, <2>1 DEF HistoryInv, HistoryFollows
<1>b. ASSUME kept' = kept, threads' = threads PROVE KeptTells'
  BY <1>b DEF HistoryInv, KeptTells
<1>c. s \in Slots
  OBVIOUS
<1>d. ASSUME q.phase \in Phases PROVE q # Idle /\ IsLive(q) /\ TalkFollows(q)
  <2>1. q # Idle
    BY <1>d DEF Idle, Phases
  <2> QED
    BY <1>c, <1>d, <2>1, NotIdle DEF TalkInv
<1>e. ASSUME q.phase \in Talking \cup {"saving", "writing"}
      PROVE  HistoryFollows(q, kept[q.thread]) /\ IsTalk(kept[q.thread])
  <2>1. q # Idle /\ IsLive(q)
    BY <1>d, <1>e DEF Talking, Phases
  <2> QED
    BY <1>c, <1>e, <2>1 DEF HistoryInv, KeptTells, IsLive
<1>2. ASSUME NEW t \in Threads, NEW ctx \in Contexts, NEW given, NEW slash,
             Begin(s, t, given, ctx, slash)
      PROVE  HistoryInv'
  <2>1. /\ threads' = threads /\ kept' = kept /\ n.thread = t
        /\ AsBegun(n, threads[t], ctx) /\ threads[t] # Cut
    BY <1>2, BegunIsLive
  <2>2. HistoryFollows(n, kept[t])
    BY <2>1, BegunHistory DEF HistoryInv
  <2> QED
    BY <1>a, <1>b, <2>1, <2>2
<1>3. CASE HasWork(s)
  <2>1. /\ q.phase \in Talking /\ n.thread = q.thread
        /\ kept' = kept /\ threads' = threads /\ Worked(q, n)
    BY <1>3, WorkGoesOn DEF Becoming
  <2>2. TalkFollows(q) /\ HistoryFollows(q, kept[q.thread]) /\ IsTalk(kept[q.thread])
    BY <1>d, <1>e, <2>1 DEF Talking, Phases
  <2>3. HistoryFollows(n, kept[q.thread])
    BY <2>1, <2>2, WorkedHistory
  <2> QED
    BY <1>a, <1>b, <2>1, <2>3
<1>4. ASSUME NEW reply \in Replies, Receive(s, reply) PROVE HistoryInv'
  <2>1. /\ q.phase = "sending" /\ n.thread = q.thread /\ kept' = kept /\ threads' = threads
        /\ n.phase # "slash" /\ AsReceived(q, n, reply)
    BY <1>4, ReceivedIsLive
  <2>2. TalkFollows(q) /\ HistoryFollows(q, kept[q.thread]) /\ IsTalk(kept[q.thread])
    BY <1>d, <1>e, <2>1 DEF Talking, Phases
  <2>3. HistoryFollows(n, kept[q.thread])
    BY <2>1, <2>2, ReceivedHistory
  <2> QED
    BY <1>a, <1>b, <2>1, <2>3
<1>5. CASE OpenThread(s) \/ ReadSummary(s) \/ OpenSummary(s)
  <2>1. /\ IsLive(q) /\ SameTalk(q, n) /\ n.thread = q.thread
        /\ q.phase \in Saving /\ n.phase \in Saving /\ kept' = kept
    BY <1>5, SavingGoesOn DEF Becoming, OpenThread, ReadSummary, OpenSummary, Becomes, Changes
  <2>2. CASE OpenThread(s)
    <3>1. q.phase = "saving" /\ threads' = [threads EXCEPT ![q.thread] = Cut]
      BY <2>2 DEF OpenThread
    <3>2. KeptTells'
      BY <2>1, <3>1, ThreadsAssumption DEF HistoryInv, KeptTells, ChatInv
    <3>3. HistoryFollows(n, kept[n.thread])
      BY <1>e, <2>1, <3>1 DEF HistoryFollows, SameTalk, Saving
    <3> QED
      BY <1>a, <2>1, <3>2, <3>3
  <2>3. CASE ReadSummary(s)
    <3>1. threads' = threads /\ n.phase = "listing"
      <4>1. threads' = threads
        BY <2>3 DEF ReadSummary, Becomes, Changes
      <4>2. req' = [req EXCEPT ![s] = [q EXCEPT !.phase = "listing",
                                     !.seen = IF summary = Cut THEN <<>> ELSE summary]]
        BY <2>3 DEF ReadSummary, Becomes, Changes
      <4>3. n = [q EXCEPT !.phase = "listing", !.seen = IF summary = Cut THEN <<>> ELSE summary]
        BY <4>2 DEF ChatInv
      <4> QED
        BY <2>1, <4>1, <4>3 DEF IsLive, IsRequest
    <3> QED
      BY <1>a, <1>b, <2>1, <3>1 DEF Talking
  <2>4. CASE OpenSummary(s)
    <3>1. threads' = threads /\ req' = [req EXCEPT ![s].phase = "ending"]
      BY <2>4 DEF OpenSummary
    <3>2. n.phase = "ending"
      BY <2>1, <3>1 DEF ChatInv, IsLive, IsRequest
    <3> QED
      BY <1>a, <1>b, <2>1, <3>1, <3>2 DEF Talking
  <2> QED
    BY <1>5, <2>2, <2>3, <2>4
<1>6. CASE WriteThread(s)
  <2> DEFINE t == q.thread
             ms == q.session.messages
             file == [title |-> q.session.title, messages |-> ms]
  <2>1. /\ q.phase = "writing" /\ threads' = [threads EXCEPT ![t] = file]
        /\ kept' = [kept EXCEPT ![t] = ms] /\ req' = [req EXCEPT ![s].phase = "reading"]
    BY <1>6 DEF WriteThread
  <2>2. IsLive(q) /\ TalkFollows(q)
    BY <1>d, <2>1 DEF Phases
  <2>3. n.phase = "reading"
    BY <2>1, <2>2 DEF ChatInv, IsLive, IsRequest
  <2>4. IsTalk(ms) /\ t \in Threads
    BY <2>2 DEF TalkFollows, IsLive
  <2>5. file # Absent /\ file.messages = ms
    BY FilesAreFunctions
  <2> HIDE DEF file, ms, t
  <2>6. kept' = [u \in Threads |-> kept'[u]]
    BY <2>1, <2>4 DEF HistoryInv
  <2>7. ASSUME NEW u \in Threads
        PROVE  /\ IsTalk(kept'[u])
               /\ threads'[u] = Absent => kept'[u] = <<>>
               /\ threads'[u] \notin {Absent, Cut} => threads'[u].messages = kept'[u]
    <3>1. CASE u = t
      <4>1. kept'[u] = ms /\ threads'[u] = file
        BY <2>1, <2>4, <3>1 DEF HistoryInv, ChatInv
      <4> QED
        BY <2>4, <2>5, <4>1
    <3>2. CASE u # t
      <4>1. kept'[u] = kept[u] /\ threads'[u] = threads[u]
        BY <2>1, <2>4, <3>2 DEF HistoryInv, ChatInv
      <4> QED
        BY <4>1 DEF HistoryInv, KeptTells
    <3> QED
      BY <3>1, <3>2
  <2>8. KeptTells'
    BY <2>7 DEF KeptTells, IsTalk
  <2> QED
    BY <2>3, <2>6, <2>8 DEF HistoryInv, Talking
<1>7. CASE WriteSummary(s) \/ Fail(s)
  <2>1. req' = [req EXCEPT ![s] = Idle] /\ threads' = threads /\ kept' = kept
    BY <1>7 DEF WriteSummary, Fail
  <2>2. n = Idle
    BY <1>c, <2>1 DEF ChatInv
  <2> QED
    BY <1>a, <1>b, <2>1, <2>2
<1> QED
  BY <1>2, <1>3, <1>4, <1>5, <1>6, <1>7 DEF Next, HasWork

\* With one request under way at a time, saving a thread adds the whole turn to
\* what was last saved of it and loses nothing but the oldest messages, and those
\* only when the conversation was too long (save_thread_data, trim_messages).
THEOREM SavedIsWhole ==
    ASSUME ~IsAFcn(Absent), NEW one, Slots = {one}
    PROVE  Spec => SavingKeepsHistory
<1>1. ChatInv /\ TalkInv /\ HistoryInv /\ [Next]_vars =>
          [\A s \in Slots : Busy(s) /\ req[s].phase = "writing" => SavesTurn(s)]_vars
  <2> DEFINE q == req[one]
             t == q.thread
             K == Regular(kept[t]) \o q.turn
             ms == q.session.messages
  <2> SUFFICES ASSUME ChatInv, TalkInv, HistoryInv, Next,
                      q.phase = "writing", q # Idle, kept'[t] # kept[t]
               PROVE  IF q.trimmed THEN IsSuffix(Outline(Regular(kept'[t])), Outline(K))
                      ELSE Outline(Regular(kept'[t])) = Outline(K)
    BY DEF Busy, SavesTurn
  <2>1. one \in Slots /\ IsLive(q) /\ TalkFollows(q) /\ HistoryFollows(q, kept[t]) /\ t \in Threads
    BY DEF ChatInv, TalkInv, HistoryInv, IsLive
  <2>2. WriteThread(one)
    <3>1. ~HasWork(one)
      BY WorkGoesOn DEF Talking
    <3>2. \A reply : ~Receive(one, reply)
      BY DEF Receive
    <3>3. \A u, ctx, given, slash : ~Begin(one, u, given, ctx, slash)
      BY DEF Begin
    <3>4. kept' # kept
      OBVIOUS
    <3> QED
      BY <3>1, <3>2, <3>3, <3>4
         DEF Next, HasWork, OpenThread, ReadSummary, OpenSummary, WriteSummary, Fail, Becomes, Changes
  <2>3. kept'[t] = ms
    BY <2>1, <2>2 DEF WriteThread, HistoryInv
  <2>4. PICK d : /\ IsSeq(d) /\ Outline(K) = d \o Outline(Regular(ms))
                 /\ ~q.trimmed => d = <<>>
    BY <2>1 DEF HistoryFollows, TurnStands
  <2>5. IsSeq(Outline(Regular(ms)))
    <3>1. IsTalk(ms)
      BY <2>1 DEF TalkFollows
    <3> HIDE DEF ms
    <3>2. IsSeq(Regular(ms))
      BY <3>1, TalkIsMessages
    <3> QED
      BY <3>2, OutlineIs
  <2> DEFINE O == Outline(Regular(ms))
             W == Outline(K)
  <2>6. kept'[t] = ms /\ IsSeq(O) /\ IsSeq(d) /\ W = d \o O /\ (~q.trimmed => d = <<>>)
    BY <2>3, <2>4, <2>5
  <2> HIDE DEF K, W
  <2>7. IF q.trimmed THEN IsSuffix(O, W) ELSE O = W
    <3> HIDE DEF O, q
    <3>1. IsSuffix(O, d \o O)
      BY <2>6, SuffixIs
    <3>2. <<>> \o O = O
      BY <2>6, NothingAdded
    <3> QED
      BY <2>6, <3>1, <3>2
  <2> QED
    BY <2>6, <2>7 DEF W
<1>2. Init => ChatInv /\ TalkInv /\ HistoryInv
  BY ChatBegins, TalkBegins, HistoryBegins
<1>3. ChatInv /\ TalkInv /\ HistoryInv /\ [Next]_vars => ChatInv' /\ TalkInv' /\ HistoryInv'
  BY ChatStep, TalkStep, HistoryStep
<1> QED
  BY <1>1, <1>2, <1>3, PTL DEF Spec, SavingKeepsHistory

------------------------------------------------------------------------------
(* The tables of the vector database.  What a plugin prepared, it prepared  *)
(* for the schema there is: a table is made once and its schema never       *)
(* changes (OneCall), so what holds of a call's columns when they are put   *)
(* together holds when they are written.                                    *)
\* Where the embeddings are.
LEMMA EmbeddingIndexIs ==
    ASSUME NEW schema, IsSeq(schema), EmbeddingIndex(schema) # 0
    PROVE  /\ EmbeddingIndex(schema) \in DOMAIN schema
           /\ schema[EmbeddingIndex(schema)].type = "vector"
           /\ \A i \in DOMAIN schema :
                 schema[i].type = "vector" => EmbeddingIndex(schema) <= i
<1> DEFINE I == { i \in 1..Len(schema) : schema[i].type = "vector" }
<1>1. Len(schema) \in Nat /\ DOMAIN schema = 1..Len(schema)
  BY SeqIs
<1>2. EmbeddingIndex(schema) = IF I # {} THEN Min(I) ELSE 0
  BY DEF EmbeddingIndex, SelectInSeq
<1> QED
  BY <1>1, <1>2, FirstIs

LEMMA NoEmbeddingIndex ==
    ASSUME NEW schema, IsSeq(schema), EmbeddingIndex(schema) = 0
    PROVE  \A i \in DOMAIN schema : schema[i].type # "vector"
<1> DEFINE I == { i \in 1..Len(schema) : schema[i].type = "vector" }
<1>1. Len(schema) \in Nat /\ DOMAIN schema = 1..Len(schema)
  BY SeqIs
<1>2. EmbeddingIndex(schema) = IF I # {} THEN Min(I) ELSE 0
  BY DEF EmbeddingIndex, SelectInSeq
<1> HIDE DEF I
<1>3. I = {}
  <2> SUFFICES ASSUME I # {} PROVE FALSE
    OBVIOUS
  <2>1. I \subseteq 1..Len(schema)
    BY DEF I
  <2>2. Min(I) \in I
    BY <1>1, <2>1, FirstIs
  <2>3. 0 \in 1..Len(schema)
    BY <1>2, <2>1, <2>2
  <2> QED
    BY <1>1, <2>3
<1> QED
  BY <1>1, <1>3 DEF I

\* The first field of a name.
LEMMA FieldIndexIs ==
    ASSUME NEW schema, IsSeq(schema), NEW name
    PROVE  LET at == FieldIndex(schema, name)
           IN  IF \E i \in DOMAIN schema : schema[i].name = name
               THEN /\ at \in DOMAIN schema /\ schema[at].name = name
                    /\ \A i \in DOMAIN schema : schema[i].name = name => at <= i
               ELSE at = 0
<1> DEFINE I == { i \in 1..Len(schema) : schema[i].name = name }
<1>1. Len(schema) \in Nat /\ DOMAIN schema = 1..Len(schema)
  BY SeqIs
<1>2. FieldIndex(schema, name) = IF I # {} THEN Min(I) ELSE 0
  BY DEF FieldIndex, SelectInSeq
<1> QED
  BY <1>1, <1>2, FirstIs

\* The columns for a schema that has its embeddings at e.
LEMMA ToAddIs ==
    ASSUME NEW schema, IsSeq(schema), NEW list, EmbeddingIndex(schema) # 0
    PROVE  /\ Len(ToAdd(schema, list)) = Len(schema) - 1
           /\ DOMAIN ToAdd(schema, list) = 1..Len(schema) - 1
           /\ IsSeq(ToAdd(schema, list))
           /\ \A i \in DOMAIN ToAdd(schema, list) :
                 /\ \E name : ToAdd(schema, list)[i] = ColumnOf(list, name)
                 /\ i < EmbeddingIndex(schema) =>
                       ToAdd(schema, list)[i] = ColumnOf(list, schema[i].name)
<1> DEFINE e == EmbeddingIndex(schema)
           S == ToSet(schema)
           before == SubSeq(schema, 1, e - 1)
           behind == SubSeq(schema, e + 1, Len(schema))
           left == before \o behind
           added == ToAdd(schema, list)
<1>1. schema \in Seq(S) /\ Len(schema) \in Nat /\ DOMAIN schema = 1..Len(schema)
  BY SeqIs DEF IsSeq
<1>2. e \in 1..Len(schema)
  BY <1>1, EmbeddingIndexIs
<1> HIDE DEF e, S
<1>3. before \in Seq(S) /\ Len(before) = e - 1 /\ \A i \in 1..e - 1 : before[i] = schema[i]
  <2>1. e - 1 \in Int /\ \A i \in 1..e - 1 : schema[i] \in S
    BY <1>1, <1>2
  <2>2. /\ before \in Seq(S) /\ Len(before) = IF 1 <= e - 1 THEN (e - 1) - 1 + 1 ELSE 0
        /\ \A i \in 1..(e - 1) - 1 + 1 : before[i] = schema[1 + i - 1]
    BY <2>1, SubSeqProperties
  <2> QED
    BY <1>2, <2>2
<1>4. behind \in Seq(S) /\ Len(behind) = Len(schema) - e
  <2>1. /\ e + 1 \in Int /\ Len(schema) \in Int
        /\ \A i \in e + 1..Len(schema) : schema[i] \in S
    BY <1>1, <1>2
  <2>2. /\ behind \in Seq(S)
        /\ Len(behind) = IF e + 1 <= Len(schema) THEN Len(schema) - (e + 1) + 1 ELSE 0
    BY SMTT(30), <2>1, SubSeqProperties
  <2> HIDE DEF behind
  <2>3. Len(schema) \in Nat /\ e \in Nat /\ e <= Len(schema)
    BY <1>1, <1>2
  <2>4. Len(behind) = Len(schema) - e
    BY <2>2, <2>3
  <2> QED
    BY <2>2, <2>4
<1> HIDE DEF before, behind
<1>5. /\ left \in Seq(S) /\ Len(left) = Len(schema) - 1 /\ DOMAIN left = 1..Len(schema) - 1
      /\ \A i \in 1..e - 1 : left[i] = schema[i]
  <2>1. left \in Seq(S) /\ Len(left) = Len(before) + Len(behind)
    BY <1>3, <1>4
  <2>2. \A i \in 1..e - 1 : left[i] = before[i]
    BY <1>2, <1>3, <1>4
  <2>3. Len(left) = Len(schema) - 1
    BY <1>1, <1>2, <1>3, <1>4, <2>1
  <2> QED
    BY <1>3, <2>1, <2>2, <2>3
<1> HIDE DEF left
<1>6. added = [i \in 1..Len(schema) - 1 |-> ColumnOf(list, left[i].name)]
  <2>1. RemoveAt(schema, e) = left
    BY DEF RemoveAt, left, before, behind
  <2>2. FieldNames(left) = [i \in 1..Len(schema) - 1 |-> left[i].name]
    BY <1>5 DEF FieldNames
  <2>3. added = [i \in DOMAIN FieldNames(left) |-> ColumnOf(list, FieldNames(left)[i])]
    BY <2>1 DEF ToAdd, e
  <2> QED
    BY <2>2, <2>3
<1> HIDE DEF added
<1>7. IsSeq(added) /\ Len(added) = Len(schema) - 1
  <2>1. Len(schema) - 1 \in Nat
    BY <1>1, <1>2
  <2>2. added = [i \in 1..Len(schema) - 1 |-> added[i]]
    BY <1>6
  <2> QED
    BY <2>1, <2>2, IsSeqFunction
<1>8. \A i \in 1..Len(schema) - 1 :
         /\ added[i] = ColumnOf(list, left[i].name)
         /\ i < e => added[i] = ColumnOf(list, schema[i].name)
  <2>1. \A i \in 1..Len(schema) - 1 : i < e => i \in 1..e - 1
    BY <1>1, <1>2
  <2> QED
    BY <1>5, <1>6, <2>1
<1>9. DOMAIN added = 1..Len(schema) - 1
  BY <1>6
<1> QED
  BY <1>7, <1>8, <1>9 DEF added, e

\* Every field of a row that was written is what its request said.
RowFits(schema, row) == \A i \in DOMAIN schema : row.cells[i] = Expected(schema, row.given, i)

IsTable(t) ==
    /\ t \in [schema : {t.schema}, rows : {t.rows}]
    /\ IsSeq(t.schema) /\ IsSeq(t.rows)
    /\ \A r \in DOMAIN t.rows : RowFits(t.schema, t.rows[r])

\* What the host is given for a request.
IsPrepared(schema, c) ==
    IF c.request.action = "add_columns"
    THEN c.columns = c.request.columns /\ c.embed = c.request.embed
    ELSE /\ EmbeddingIndex(schema) # 0
         /\ c.columns = ToAdd(schema, c.request.rows)
         /\ c.embed = FieldIndex(schema, c.request.key)

IsSent(schema, c) ==
    /\ EmbeddingIndex(schema) # 0
    /\ \A i \in DOMAIN c.columns : Len(c.columns[i]) = Len(c.columns[1])
    /\ c.embed \in DOMAIN c.columns

IsCall(c) ==
    \/ c \in [pc : {"create", "ensure", "make", "schema", "done", "failed", "refused"},
              request : Requests, created : BOOLEAN]
    \/ c \in [pc : {"embed", "write", "done", "failed", "refused"},
              request : Requests, created : BOOLEAN, columns : {c.columns}, embed : {c.embed}]

\* The table was made after these rows, in some order of their fields.
IsMadeFor(schema, list) ==
    \E names \in SetToSeqs(Fields(list)) :
        schema = InferSchema([i \in DOMAIN names |-> ColumnOf(list, names[i])], names)

\* How far a call is tells what was looked at, and of a call that made the
\* table, what it made it after.
CallFollows(t, c) ==
    /\ IsCall(c)
    /\ c.pc = "create" => c.request.action = "create_table"
    /\ c.pc \in {"ensure", "make", "schema", "embed", "write"} =>
          c.request.action # "create_table" /\ Readable(c.request)
    /\ c.pc \in {"schema", "embed", "write"} => t # NoTable
    /\ c.pc \in {"embed", "write"} => IsPrepared(t.schema, c)
    /\ c.pc = "write" => IsSent(t.schema, c)
    /\ c.pc \in {"create", "ensure", "make"} => ~c.created
    /\ c.created =>
          /\ t # NoTable /\ Readable(c.request)
          /\ c.request.action = "add_rows" => IsMadeFor(t.schema, c.request.rows)
          /\ Plain(c.request) => c.pc # "refused"

\* The inductive invariant.
VectorInv ==
    /\ table = NoTable \/ IsTable(table)
    /\ calls = [p \in Plugins |-> calls[p]]
    /\ \A p \in Plugins : calls[p] = Unasked \/ CallFollows(table, calls[p])

LEMMA TableIs ==
    ASSUME NEW schema, NEW list, IsSeq(schema), IsSeq(list),
           \A r \in DOMAIN list : RowFits(schema, list[r])
    PROVE  LET t == [schema |-> schema, rows |-> list]
           IN  IsTable(t) /\ t # NoTable
<1> DEFINE t == [schema |-> schema, rows |-> list]
<1>1. t.schema = schema /\ t.rows = list /\ t # NoTable
  BY DEF NoTable
<1>2. t \in [schema : {t.schema}, rows : {t.rows}]
  BY <1>1
<1> HIDE DEF t
<1>3. IsTable(t)
  BY <1>1, <1>2 DEF IsTable
<1> QED
  BY <1>1, <1>3 DEF t

LEMMA EmptyIsSeq == IsSeq(<<>>) /\ DOMAIN <<>> = {}
BY DEF IsSeq

\* The rows that come to the table are as the request said.
LEMMA BatchFits ==
    ASSUME NEW schema, IsSeq(schema), NEW c, c.request \in Requests,
           c.request.action # "create_table", Readable(c.request),
           IsPrepared(schema, c), IsSent(schema, c), Convertible(schema, c.columns)
    PROVE  LET batch == Batch(schema, c.columns, c.embed, Given(c.request))
           IN  IsSeq(batch) /\ \A r \in DOMAIN batch : RowFits(schema, batch[r])
<1> DEFINE e == EmbeddingIndex(schema)
           columns == c.columns
           given == Given(c.request)
           batch == Batch(schema, columns, c.embed, given)
           list == c.request.rows
<1>1. /\ Len(schema) \in Nat /\ DOMAIN schema = 1..Len(schema) /\ e \in 1..Len(schema)
  BY SeqIs, EmbeddingIndexIs DEF IsSent
<1>2. \A i \in DOMAIN schema \ {e} : i \in DOMAIN columns
  BY DEF Convertible
<1>3. /\ IsSeq(columns) /\ c.embed \in DOMAIN columns
      /\ \A i \in DOMAIN columns :
            IsSeq(columns[i]) /\ Len(columns[i]) = Len(columns[1])
  <2>1. CASE c.request.action = "add_columns"
    BY <2>1, VectorAssumption DEF IsPrepared, IsSent, IsColumns
  <2>2. CASE c.request.action = "add_rows"
    <3>1. columns = ToAdd(schema, list) /\ IsSeq(columns)
      BY <2>2, ToAddIs DEF IsPrepared
    <3>2. Len(list) \in Nat /\ DOMAIN list = 1..Len(list)
      BY <2>2, VectorAssumption, SeqIs DEF IsRows
    <3>3. ASSUME NEW i \in DOMAIN columns PROVE IsSeq(columns[i])
      <4>1. PICK name : columns[i] = ColumnOf(list, name)
        BY <2>2, <3>1, ToAddIs DEF IsPrepared
      <4>2. ColumnOf(list, name) = [r \in 1..Len(list) |-> ColumnOf(list, name)[r]]
        BY <3>2 DEF ColumnOf
      <4> QED
        BY <3>2, <4>1, <4>2, IsSeqFunction
    <3> QED
      BY <3>1, <3>3 DEF IsSent
  <2> QED
    BY <2>1, <2>2, VectorAssumption
<1>4. 1 \in DOMAIN columns
  <2>1. DOMAIN columns = 1..Len(columns) /\ Len(columns) \in Nat
    BY <1>3, SeqIs
  <2> QED
    BY <1>3, <2>1
<1>5. \A i \in DOMAIN columns : DOMAIN columns[i] = DOMAIN columns[1]
  BY <1>3, <1>4, SeqIs
<1> DEFINE row(r) == [cells |-> [i \in DOMAIN schema |->
                          IF i = e THEN Embedding(columns[c.embed][r])
                          ELSE Converted(columns[i][r], schema[i].type)],
                      given |-> given[r]]
<1>6. batch = [r \in 1..Len(columns[1]) |-> row(r)] /\ Len(columns[1]) \in Nat
  BY <1>3, <1>4, SeqIs DEF Batch
<1>7. IsSeq(batch) /\ DOMAIN batch = DOMAIN columns[1]
  <2>1. Len(columns[1]) \in Nat /\ DOMAIN columns[1] = 1..Len(columns[1])
    BY <1>3, <1>4, SeqIs
  <2> HIDE DEF row
  <2>2. batch = [r \in 1..Len(columns[1]) |-> batch[r]]
    BY <1>6
  <2> HIDE DEF batch
  <2> QED
    BY <2>1, <2>2, IsSeqFunction
<1>8. ASSUME NEW r \in DOMAIN columns[1], NEW i \in DOMAIN schema
      PROVE  row(r).cells[i] = Expected(schema, given[r], i)
  <2>1. CASE c.request.action = "add_columns"
    <3>1. columns = c.request.columns /\ c.embed = c.request.embed
      BY <2>1 DEF IsPrepared
    <3>2. given[r] = [of |-> "columns", row |-> [j \in DOMAIN columns |-> columns[j][r]],
                      text |-> columns[c.embed][r]]
      BY <2>1, <3>1 DEF Given
    <3> HIDE DEF given
    <3>3. CASE i = e
      BY <3>2, <3>3 DEF Expected
    <3>4. CASE i # e
      <4>1. i \in DOMAIN columns
        BY <1>2, <3>4
      <4> QED
        BY <3>2, <3>4, <4>1 DEF Expected
    <3> QED
      BY <3>3, <3>4
  <2>2. CASE c.request.action = "add_rows"
    <3>1. columns = ToAdd(schema, list) /\ c.embed = FieldIndex(schema, c.request.key)
      BY <2>2 DEF IsPrepared
    <3>2. DOMAIN columns = 1..Len(schema) - 1
      BY <2>2, <3>1, ToAddIs DEF IsPrepared
    <3>3. e = Len(schema)
      BY <1>1, <1>2, <3>2
    <3>4. \A j \in DOMAIN columns : columns[j] = ColumnOf(list, schema[j].name)
      <4>1. \A j \in DOMAIN columns : j < e
        BY <1>1, <3>2, <3>3
      <4> QED
        BY <2>2, <3>1, <4>1, ToAddIs DEF IsPrepared
    <3>5. schema[c.embed].name = c.request.key
      <4>1. c.embed # 0
        BY <1>3, <3>2
      <4> QED
        BY <3>1, <4>1, FieldIndexIs
    <3>6. r \in DOMAIN list /\ \A j \in DOMAIN columns : columns[j][r] = ValueOf(list[r], schema[j].name)
      <4>1. DOMAIN columns[1] = DOMAIN list
        BY <1>4, <3>4 DEF ColumnOf
      <4> QED
        BY <3>4, <4>1 DEF ColumnOf
    <3>7. given[r] = [of |-> "row", row |-> list[r], text |-> ValueOf(list[r], c.request.key)]
      BY <2>2, <3>6 DEF Given
    <3> HIDE DEF given, columns
    <3>8. CASE i = e
      <4>1. row(r).cells[i] = Embedding(columns[c.embed][r])
        BY <3>8
      <4>2. columns[c.embed][r] = ValueOf(list[r], c.request.key)
        BY <1>3, <3>5, <3>6
      <4>3. Expected(schema, given[r], i) = Embedding(ValueOf(list[r], c.request.key))
        BY <3>7, <3>8 DEF Expected
      <4> QED
        BY <4>1, <4>2, <4>3
    <3>9. CASE i # e
      <4>1. i \in DOMAIN columns
        BY <1>2, <3>9
      <4>2. row(r).cells[i] = Converted(columns[i][r], schema[i].type)
        BY <3>9
      <4>3. Expected(schema, given[r], i) = Converted(ValueOf(list[r], schema[i].name), schema[i].type)
        BY <3>7, <3>9 DEF Expected
      <4> QED
        BY <3>6, <4>1, <4>2, <4>3
    <3> QED
      BY <3>8, <3>9
  <2> QED
    BY <2>1, <2>2, VectorAssumption
<1>9. ASSUME NEW r \in DOMAIN batch PROVE RowFits(schema, batch[r])
  <2>1. batch[r] = row(r) /\ r \in DOMAIN columns[1]
    <3> HIDE DEF row
    <3>1. r \in 1..Len(columns[1])
      BY <1>6
    <3> QED
      BY <1>6, <1>7, <3>1
  <2>2. row(r).given = given[r]
    OBVIOUS
  <2> HIDE DEF row, batch
  <2> QED
    BY <1>8, <2>1, <2>2 DEF RowFits
<1> QED
  BY <1>7, <1>9

\* A step of one call that keeps what the others rely on.
LEMMA OneCall ==
    ASSUME VectorInv, NEW p \in Plugins, NEW c, To(p, c),
           table' = NoTable \/ IsTable(table'),
           table # NoTable => table' # NoTable /\ table'.schema = table.schema,
           CallFollows(table', c)
    PROVE  VectorInv'
<1>1. calls' = [calls EXCEPT ![p] = c] /\ calls = [q \in Plugins |-> calls[q]]
  BY DEF To, VectorInv
<1>2. calls' = [q \in Plugins |-> calls'[q]] /\ calls'[p] = c
  BY <1>1
<1>3. ASSUME NEW q \in Plugins PROVE calls'[q] = Unasked \/ CallFollows(table', calls'[q])
  <2>1. CASE q = p
    BY <1>2, <2>1
  <2>2. CASE q # p
    <3>1. calls'[q] = calls[q]
      BY <1>1, <2>2
    <3>2. calls[q] = Unasked \/ CallFollows(table, calls[q])
      BY DEF VectorInv
    <3>3. CallFollows(table, calls[q]) => CallFollows(table', calls[q])
      BY DEF CallFollows
    <3> QED
      BY <3>1, <3>2, <3>3
  <2> QED
    BY <2>1, <2>2
<1> QED
  BY <1>2, <1>3 DEF VectorInv

LEMMA VectorBegins == VectorInit => VectorInv
BY DEF VectorInit, VectorInv

\* The call of a plugin that does something.
LEMMA TheCall ==
    ASSUME VectorInv, NEW p \in Plugins, calls[p].pc # "idle"
    PROVE  CallFollows(table, calls[p])
BY DEF VectorInv, Unasked

\* A call goes on with the same request.
LEMMA GoesOnEarly ==
    ASSUME NEW c, IsCall(c), c.pc \in {"create", "ensure", "make", "schema"},
           NEW pc \in {"create", "ensure", "make", "schema", "done", "failed", "refused"}
    PROVE  LET d == [c EXCEPT !.pc = pc]
           IN  IsCall(d) /\ d.pc = pc /\ d.request = c.request /\ d.created = c.created
<1>1. c \in [pc : {"create", "ensure", "make", "schema", "done", "failed", "refused"},
             request : Requests, created : BOOLEAN]
  BY DEF IsCall
<1> QED
  BY <1>1 DEF IsCall

LEMMA GoesOnLate ==
    ASSUME NEW c, IsCall(c), c.pc \in {"embed", "write"},
           NEW pc \in {"write", "done", "failed", "refused"}
    PROVE  LET d == [c EXCEPT !.pc = pc]
           IN  /\ IsCall(d) /\ d.pc = pc /\ d.request = c.request /\ d.created = c.created
               /\ d.columns = c.columns /\ d.embed = c.embed
<1> DEFINE d == [c EXCEPT !.pc = pc]
<1>1. c \in [pc : {"embed", "write", "done", "failed", "refused"},
             request : Requests, created : BOOLEAN, columns : {c.columns}, embed : {c.embed}]
  BY DEF IsCall
<1>2. /\ d.pc = pc /\ d.request = c.request /\ d.created = c.created
      /\ d.columns = c.columns /\ d.embed = c.embed
  BY <1>1
<1>3. d \in [pc : {"embed", "write", "done", "failed", "refused"},
             request : Requests, created : BOOLEAN, columns : {c.columns}, embed : {c.embed}]
  BY <1>1
<1> HIDE DEF d
<1>4. d \in [pc : {"embed", "write", "done", "failed", "refused"},
             request : Requests, created : BOOLEAN, columns : {d.columns}, embed : {d.embed}]
  BY <1>2, <1>3
<1>5. IsCall(d)
  BY <1>4 DEF IsCall
<1> QED
  BY <1>2, <1>5 DEF d

LEMMA ReadRequestKeeps ==
    ASSUME VectorInv, NEW p \in Plugins, ReadRequest(p)
    PROVE  VectorInv'
<1>1. PICK request \in Requests :
         To(p, [pc |-> IF ~Readable(request) THEN "refused"
                       ELSE IF request.action = "create_table" THEN "create" ELSE "ensure",
                request |-> request, created |-> FALSE])
  BY DEF ReadRequest
<1> DEFINE pc == IF ~Readable(request) THEN "refused"
                 ELSE IF request.action = "create_table" THEN "create" ELSE "ensure"
           c == [pc |-> pc, request |-> request, created |-> FALSE]
<1>2. c.pc = pc /\ c.request = request /\ c.created = FALSE
  OBVIOUS
<1>3. pc \in {"create", "ensure", "refused"}
  OBVIOUS
<1>4. /\ pc = "create" => request.action = "create_table"
      /\ pc = "ensure" => request.action # "create_table" /\ Readable(request)
  OBVIOUS
<1>5. To(p, c)
  BY <1>1
<1> HIDE DEF pc
<1>6. IsCall(c)
  BY <1>3 DEF IsCall
<1> HIDE DEF c
<1>7. CallFollows(table', c)
  BY <1>2, <1>3, <1>4, <1>6 DEF CallFollows
<1> QED
  BY <1>5, <1>7, OneCall DEF ReadRequest, VectorInv

LEMMA CreateTableKeeps ==
    ASSUME VectorInv, NEW p \in Plugins, CreateTable(p)
    PROVE  VectorInv'
<1> DEFINE c == calls[p]
<1>1. c.pc = "create" /\ CallFollows(table, c)
  BY TheCall DEF CreateTable
<1>2. IsCall(c) /\ c.request \in Requests /\ c.request.action = "create_table" /\ ~c.created
  BY <1>1 DEF CallFollows, IsCall
<1>3. CASE table = NoTable
  <2>1. table' = [schema |-> c.request.schema, rows |-> <<>>]
    BY <1>3 DEF CreateTable, RequestOf
  <2>2. IsTable(table')
    BY <1>2, <2>1, VectorAssumption, TableIs, EmptyIsSeq
  <2> DEFINE d == [c EXCEPT !.pc = "done"]
  <2>3. To(p, d)
    BY <1>3 DEF CreateTable, At
  <2>4. IsCall(d) /\ d.pc = "done" /\ d.created = c.created
    BY <1>1, <1>2, GoesOnEarly
  <2> HIDE DEF d, c
  <2>5. CallFollows(table', d)
    BY <1>2, <2>4 DEF CallFollows
  <2> QED
    BY <1>3, <2>2, <2>3, <2>5, OneCall
<1>4. CASE table # NoTable
  <2> DEFINE d == [c EXCEPT !.pc = "failed"]
  <2>1. To(p, d) /\ table' = table
    BY <1>4 DEF CreateTable, At
  <2>2. IsCall(d) /\ d.pc = "failed" /\ d.created = c.created
    BY <1>1, <1>2, GoesOnEarly
  <2> HIDE DEF d, c
  <2>3. CallFollows(table', d)
    BY <1>2, <2>2 DEF CallFollows
  <2> QED
    BY <2>1, <2>3, OneCall DEF VectorInv
<1> QED
  BY <1>3, <1>4

LEMMA EnsureKeeps ==
    ASSUME VectorInv, NEW p \in Plugins, Ensure(p)
    PROVE  VectorInv'
<1> DEFINE c == calls[p]
           pc == IF table # NoTable THEN "schema" ELSE IF c.request.create THEN "make" ELSE "failed"
           d == [c EXCEPT !.pc = pc]
<1>1. c.pc = "ensure" /\ CallFollows(table, c)
  BY TheCall DEF Ensure
<1>2. To(p, d) /\ table' = table
  BY DEF Ensure, At, RequestOf
<1>3. /\ pc \in {"schema", "make", "failed"}
      /\ pc = "schema" => table # NoTable
  OBVIOUS
<1> HIDE DEF pc, c
<1>4. IsCall(d) /\ d.pc = pc /\ d.request = c.request /\ d.created = c.created
  <2>1. IsCall(c)
    BY <1>1 DEF CallFollows
  <2>2. /\ c.pc \in {"create", "ensure", "make", "schema"}
        /\ pc \in {"create", "ensure", "make", "schema", "done", "failed", "refused"}
    BY <1>1, <1>3
  <2> QED
    BY Zenon, <2>1, <2>2, GoesOnEarly
<1> HIDE DEF d
<1>5. CallFollows(table', d)
  BY <1>1, <1>2, <1>3, <1>4 DEF CallFollows
<1> QED
  BY <1>2, <1>5, OneCall DEF VectorInv

LEMMA FieldsFinite ==
    ASSUME NEW list, IsRows(list)
    PROVE  IsFiniteSet(Fields(list)) /\ Cardinality(Fields(list)) \in Nat
<1> DEFINE S == { DOMAIN list[r] : r \in DOMAIN list }
<1>1. IsFiniteSet(DOMAIN list)
  <2>1. Len(list) \in Nat /\ DOMAIN list = 1..Len(list)
    BY SeqIs DEF IsRows
  <2> QED
    BY <2>1, FS_Interval
<1>2. IsFiniteSet(S)
  <2> DEFINE f == [r \in DOMAIN list |-> DOMAIN list[r]]
  <2>1. f \in Surjection(DOMAIN list, S)
    BY DEF Surjection
  <2> QED
    BY <1>1, <2>1, FS_Surjection
<1>3. \A T \in S : IsFiniteSet(T)
  BY DEF IsRows
<1>4. IsFiniteSet(UNION S)
  <2> HIDE DEF S
  <2> QED
    BY <1>2, <1>3, FS_UNION
<1> QED
  BY <1>4, FS_CardinalityType DEF Fields

\* An order of a finite set has all its elements.
LEMMA OrderIs ==
    ASSUME NEW S, IsFiniteSet(S), NEW names \in SetToSeqs(S)
    PROVE  /\ names \in [1..Cardinality(S) -> S] /\ Cardinality(S) \in Nat
           /\ IsSeq(names) /\ Len(names) = Cardinality(S)
           /\ \A x \in S : \E i \in 1..Cardinality(S) : names[i] = x
<1> DEFINE n == Cardinality(S)
           T == { names[i] : i \in 1..n }
<1>1. n \in Nat
  BY FS_CardinalityType
<1>2. names \in [1..n -> S] /\ \A i, j \in 1..n : i # j => names[i] # names[j]
  BY DEF SetToSeqs
<1>3. IsSeq(names) /\ Len(names) = n
  <2>1. names = [i \in 1..n |-> names[i]]
    BY <1>2
  <2> HIDE DEF n
  <2> QED
    BY <1>1, <2>1, IsSeqFunction
<1>4. Cardinality(T) = n
  <2> HIDE DEF n
  <2>1. IsFiniteSet(1..n) /\ Cardinality(1..n) = n
    BY <1>1, FS_Interval
  <2>2. names \in Bijection(1..n, T)
    BY <1>2 DEF Bijection, Injection, Surjection, IsInjective
  <2> HIDE DEF T
  <2> QED
    BY <2>1, <2>2, FS_Bijection DEF ExistsBijection
<1>5. T = S
  <2>1. T \subseteq S
    BY <1>2
  <2> HIDE DEF T
  <2> QED
    BY <1>4, <2>1, FS_Subset
<1> QED
  BY <1>1, <1>2, <1>3, <1>5

LEMMA SchemaIs ==
    ASSUME NEW columns, NEW names, IsSeq(names)
    PROVE  LET schema == InferSchema(columns, names)
           IN  /\ IsSeq(schema) /\ Len(schema) = Len(names) + 1
               /\ \A i \in 1..Len(names) :
                     schema[i] = Field(names[i], InferColumnType(columns[i]))
               /\ schema[Len(names) + 1] = Field("embeddings", "vector")
<1> DEFINE schema == InferSchema(columns, names)
           n == Len(names)
           fields == [i \in DOMAIN names |-> Field(names[i], InferColumnType(columns[i]))]
           end == Field("embeddings", "vector")
<1>1. n \in Nat /\ DOMAIN names = 1..n
  BY SeqIs
<1>2. fields = [i \in 1..n |-> fields[i]]
  BY <1>1
<1>3. \A i \in 1..n : fields[i] = Field(names[i], InferColumnType(columns[i]))
  BY <1>1
<1>4. schema = fields \o <<end>>
  BY DEF InferSchema
<1> HIDE DEF fields, n, schema, end
<1>5. IsSeq(fields) /\ Len(fields) = n
  BY <1>1, <1>2, IsSeqFunction
<1>6. /\ fields \in Seq(ToSet(fields) \cup {end}) /\ <<end>> \in Seq(ToSet(fields) \cup {end})
  <2>1. fields \in Seq(ToSet(fields))
    BY <1>5 DEF IsSeq
  <2> QED
    BY <2>1, SeqMore
<1>7. /\ schema \in Seq(ToSet(fields) \cup {end}) /\ Len(schema) = n + 1
      /\ \A i \in 1..n : schema[i] = fields[i]
      /\ schema[n + 1] = end
  BY <1>1, <1>4, <1>5, <1>6
<1> QED
  BY <1>3, <1>7, IsSeqOf DEF n, schema, end

LEMMA ColumnTypes ==
    ASSUME NEW column
    PROVE  InferColumnType(column) \in {"utf8", "bool", "int64", "uint64"}
BY DEF InferColumnType

\* The columns of some rows are as long as there are rows.
LEMMA ColumnIs ==
    ASSUME NEW list, IsRows(list), NEW name
    PROVE  /\ IsSeq(ColumnOf(list, name)) /\ Len(ColumnOf(list, name)) = Len(list)
           /\ DOMAIN ColumnOf(list, name) = DOMAIN list
<1>1. Len(list) \in Nat /\ DOMAIN list = 1..Len(list)
  BY SeqIs DEF IsRows
<1>2. ColumnOf(list, name) = [r \in 1..Len(list) |-> ColumnOf(list, name)[r]]
  BY <1>1 DEF ColumnOf
<1>3. DOMAIN ColumnOf(list, name) = DOMAIN list
  BY DEF ColumnOf
<1> QED
  BY <1>1, <1>2, <1>3, IsSeqFunction

\* The type that is inferred takes the values it is inferred from.
LEMMA TypesFit ==
    ASSUME NEW list, IsRows(list), list # <<>>, NEW name,
           \A r \in DOMAIN list : \A field \in DOMAIN list[r] : ~IsFlag(list[r][field]),
           NEW r \in DOMAIN list
    PROVE  Fits(ColumnOf(list, name)[r], InferColumnType(ColumnOf(list, name)))
<1> DEFINE column == ColumnOf(list, name)
<1>1. DOMAIN column = DOMAIN list /\ \A k \in DOMAIN list : column[k] = ValueOf(list[k], name)
  BY DEF ColumnOf
<1>2. column # <<>> /\ ~IsFlag(column[r])
  <2>1. ~IsFlag(ValueOf(list[r], name))
    BY DEF ValueOf, IsFlag, Null
  <2> QED
    BY <1>1, <2>1
<1>3. \A k \in DOMAIN column : IsNumber(column[k]) => column[k].num \in Int
  <2> SUFFICES ASSUME NEW k \in DOMAIN list, IsNumber(ValueOf(list[k], name))
               PROVE  ValueOf(list[k], name).num \in Int
    BY <1>1
  <2>1. name \in DOMAIN list[k] /\ ValueOf(list[k], name) = list[k][name]
    BY DEF ValueOf, IsNumber, Null
  <2> QED
    BY <2>1 DEF IsRows, IsNumber
<1> HIDE DEF column
<1>4. Fits(column[r], InferColumnType(column))
  <2>1. r \in DOMAIN column
    BY <1>1
  <2> QED
    BY <1>2, <1>3, <2>1 DEF InferColumnType, Fits
<1> QED
  BY <1>4 DEF column

\* A table that was made after plain rows takes them.
LEMMA MadeTakes ==
    ASSUME NEW schema, NEW q, q.action = "add_rows", IsRows(q.rows), Readable(q), Plain(q),
           IsMadeFor(schema, q.rows)
    PROVE  LET columns == ToAdd(schema, q.rows)
               at == FieldIndex(schema, q.key)
           IN  /\ IsSeq(schema) /\ EmbeddingIndex(schema) # 0 /\ at # 0
               /\ \A i \in DOMAIN columns : Len(columns[i]) = Len(columns[1])
               /\ at \in DOMAIN columns
               /\ \A r \in DOMAIN columns[at] : IsText(columns[at][r])
               /\ Convertible(schema, columns)
               /\ q.upsert = "" \/ FieldIndex(schema, q.upsert) # 0
<1> DEFINE list == q.rows
           columns == ToAdd(schema, list)
           at == FieldIndex(schema, q.key)
           S == Fields(list)
           n == Cardinality(S)
<1>1. IsFiniteSet(S) /\ n \in Nat
  BY FieldsFinite
<1>2. PICK names \in SetToSeqs(S) :
         schema = InferSchema([i \in DOMAIN names |-> ColumnOf(list, names[i])], names)
  BY DEF IsMadeFor
<1>3. /\ names \in [1..n -> S] /\ IsSeq(names) /\ Len(names) = n
      /\ \A x \in S : \E i \in 1..n : names[i] = x
  BY <1>1, OrderIs
<1>4. /\ IsSeq(schema) /\ Len(schema) = n + 1
      /\ \A i \in 1..n : schema[i] = Field(names[i], InferColumnType(ColumnOf(list, names[i])))
      /\ schema[n + 1] = Field("embeddings", "vector")
  <2> DEFINE given == [i \in DOMAIN names |-> ColumnOf(list, names[i])]
  <2>1. \A i \in 1..n : given[i] = ColumnOf(list, names[i])
    BY <1>3
  <2>2. schema = InferSchema(given, names)
    BY <1>2
  <2> HIDE DEF given, n
  <2>3. LET inferred == InferSchema(given, names)
        IN  /\ IsSeq(inferred) /\ Len(inferred) = Len(names) + 1
            /\ \A i \in 1..Len(names) : inferred[i] = Field(names[i], InferColumnType(given[i]))
            /\ inferred[Len(names) + 1] = Field("embeddings", "vector")
    BY <1>3, SchemaIs, Zenon
  <2> QED
    BY <1>3, <2>1, <2>2, <2>3
<1> HIDE DEF S, n
<1>5. DOMAIN schema = 1..n + 1
  BY <1>4, SeqIs
<1>6. EmbeddingIndex(schema) = n + 1
  <2>1. ASSUME NEW i \in 1..n PROVE schema[i].type # "vector"
    <3>1. schema[i] = Field(names[i], InferColumnType(ColumnOf(list, names[i])))
      BY <1>4
    <3>2. schema[i].type = InferColumnType(ColumnOf(list, names[i]))
      BY <3>1 DEF Field
    <3> QED
      BY <3>2, ColumnTypes
  <2>2. schema[n + 1].type = "vector" /\ n + 1 \in DOMAIN schema
    BY <1>1, <1>4, <1>5 DEF Field
  <2>3. EmbeddingIndex(schema) # 0
    BY <1>4, <2>2, NoEmbeddingIndex
  <2>4. EmbeddingIndex(schema) \in 1..n + 1 /\ schema[EmbeddingIndex(schema)].type = "vector"
    BY <1>4, <1>5, <2>3, EmbeddingIndexIs
  <2> QED
    BY <1>1, <2>1, <2>4
<1>7. /\ DOMAIN columns = 1..n
      /\ \A i \in 1..n : columns[i] = ColumnOf(list, schema[i].name)
  <2>1. EmbeddingIndex(schema) # 0 /\ (n + 1) - 1 = n /\ \A i \in 1..n : i < n + 1
    BY <1>1, <1>6
  <2> QED
    BY <1>4, <1>6, <2>1, ToAddIs
<1>8. \A x \in S : \E i \in 1..n : schema[i].name = x
  <2>1. \A i \in 1..n : schema[i].name = names[i]
    <3> SUFFICES ASSUME NEW i \in 1..n PROVE schema[i].name = names[i]
      OBVIOUS
    <3>1. schema[i] = Field(names[i], InferColumnType(ColumnOf(list, names[i])))
      BY <1>4
    <3> QED
      BY <3>1 DEF Field
  <2> QED
    BY <1>3, <2>1
<1>9. list # <<>> /\ DOMAIN list # {}
  <2>1. list # <<>>
    BY DEF Readable
  <2>2. Len(list) \in Nat /\ DOMAIN list = 1..Len(list) /\ list \in Seq(ToSet(list))
    BY SeqIs DEF IsRows, IsSeq
  <2>3. Len(list) # 0
    BY <2>1, <2>2
  <2> HIDE DEF list
  <2>4. 1 \in 1..Len(list)
    BY <2>2, <2>3
  <2> QED
    BY <2>1, <2>2, <2>4
<1>10. \A r \in DOMAIN list : q.key \in DOMAIN list[r]
  BY DEF Plain, ValueOf, IsText, Null
<1>11. q.key \in S
  BY <1>9, <1>10 DEF Fields, S
<1>12. at \in 1..n /\ schema[at].name = q.key
  <2>1. PICK i \in 1..n : schema[i].name = q.key
    BY <1>8, <1>11
  <2>2. at \in 1..n + 1 /\ schema[at].name = q.key /\ at <= i
    BY <1>1, <1>4, <1>5, <2>1, FieldIndexIs
  <2> QED
    BY <1>1, <2>1, <2>2
<1> HIDE DEF at, columns
<1>13. \A i \in DOMAIN columns : Len(columns[i]) = Len(columns[1])
  <2>1. \A i \in 1..n : Len(columns[i]) = Len(list)
    BY <1>7, ColumnIs
  <2>2. 1 \in 1..n
    BY <1>1, <1>12
  <2> QED
    BY <1>7, <2>1, <2>2
<1>14. \A r \in DOMAIN columns[at] : IsText(columns[at][r])
  <2>1. columns[at] = ColumnOf(list, q.key)
    BY <1>7, <1>12
  <2> QED
    BY <2>1 DEF ColumnOf, Plain
<1>15. Convertible(schema, columns)
  <2> SUFFICES ASSUME NEW i \in 1..n, NEW r \in DOMAIN columns[i]
               PROVE  Fits(columns[i][r], schema[i].type)
    BY <1>1, <1>5, <1>6, <1>7 DEF Convertible
  <2>1. columns[i] = ColumnOf(list, names[i]) /\ schema[i].type = InferColumnType(ColumnOf(list, names[i]))
    <3>1. schema[i] = Field(names[i], InferColumnType(ColumnOf(list, names[i])))
      BY <1>4
    <3>2. /\ schema[i].name = names[i]
          /\ schema[i].type = InferColumnType(ColumnOf(list, names[i]))
      BY <3>1 DEF Field
    <3> QED
      BY <1>7, <3>2
  <2>2. r \in DOMAIN list
    BY <2>1, ColumnIs
  <2>3. \A k \in DOMAIN list : \A field \in DOMAIN list[k] : ~IsFlag(list[k][field])
    BY DEF Plain
  <2> QED
    BY <1>9, <2>1, <2>2, <2>3, TypesFit
<1>16. /\ n \in Nat
       /\ \A i \in 1..n : i \in 1..n + 1
       /\ \A i \in 1..n + 1 : i # 0
  BY <1>1
<1>17. q.upsert = "" \/ FieldIndex(schema, q.upsert) # 0
  <2> SUFFICES ASSUME q.upsert # "" PROVE FieldIndex(schema, q.upsert) # 0
    OBVIOUS
  <2>1. q.upsert \in S
    BY DEF Plain, S
  <2>2. PICK i \in 1..n : schema[i].name = q.upsert
    BY <1>8, <2>1
  <2>4. i \in DOMAIN schema
    BY <1>5, <1>16, <2>2
  <2>5. FieldIndex(schema, q.upsert) \in 1..n + 1
    BY <1>4, <1>5, <2>2, <2>4, FieldIndexIs
  <2> QED
    BY <1>16, <2>5
<1>18. EmbeddingIndex(schema) # 0 /\ at # 0 /\ at \in DOMAIN columns
  BY <1>1, <1>6, <1>7, <1>12
<1> QED
  BY <1>4, <1>13, <1>14, <1>15, <1>17, <1>18 DEF at, columns

\* The steps of a call.
LEMMA MakeKeeps ==
    ASSUME VectorInv, NEW p \in Plugins, Make(p)
    PROVE  VectorInv'
<1> DEFINE c == calls[p]
           q == c.request
<1>1. c.pc = "make" /\ CallFollows(table, c)
  BY TheCall DEF Make
<1>2. /\ IsCall(c) /\ q \in Requests /\ ~c.created
      /\ q.action \in {"add_rows", "add_columns"} /\ Readable(q)
  BY <1>1, VectorAssumption DEF CallFollows, IsCall
<1>3. PICK names \in IF q.action = "add_rows" THEN SetToSeqs(Fields(q.rows)) ELSE {q.names} :
         LET columns == IF q.action = "add_rows"
                        THEN [i \in DOMAIN names |-> ColumnOf(q.rows, names[i])]
                        ELSE q.columns
         IN  IF table = NoTable /\ Len(columns) = Len(names)
             THEN /\ table' = [schema |-> InferSchema(columns, names), rows |-> <<>>]
                  /\ To(p, [c EXCEPT !.pc = "schema", !.created = TRUE])
             ELSE UNCHANGED table /\ At(p, "failed")
  BY DEF Make, RequestOf
<1> DEFINE columns == IF q.action = "add_rows"
                      THEN [i \in DOMAIN names |-> ColumnOf(q.rows, names[i])]
                      ELSE q.columns
           schema == InferSchema(columns, names)
<1>4. CASE table = NoTable /\ Len(columns) = Len(names)
  <2>1. table' = [schema |-> schema, rows |-> <<>>]
    BY <1>3, <1>4
  <2>2. IsSeq(names)
    <3>1. CASE q.action = "add_rows"
      <4>1. names \in SetToSeqs(Fields(q.rows)) /\ IsRows(q.rows)
        BY <1>2, <3>1, VectorAssumption
      <4>2. IsFiniteSet(Fields(q.rows))
        BY <4>1, FieldsFinite
      <4> QED
        BY <4>1, <4>2, OrderIs
    <3>2. CASE q.action = "add_columns"
      BY <1>2, <3>2, VectorAssumption
    <3> QED
      BY <1>2, <3>1, <3>2
  <2>3. IsSeq(schema)
    BY <2>2, SchemaIs
  <2>4. q.action = "add_rows" => IsMadeFor(schema, q.rows)
    BY DEF IsMadeFor
  <2> DEFINE d == [c EXCEPT !.pc = "schema", !.created = TRUE]
  <2>5. To(p, d)
    BY <1>3, <1>4
  <2>6. IsCall(d) /\ d.pc = "schema" /\ d.request = q /\ d.created
    <3>1. c \in [pc : {"create", "ensure", "make", "schema", "done", "failed", "refused"},
                 request : Requests, created : BOOLEAN]
      BY <1>1, <1>2 DEF IsCall
    <3> QED
      BY <3>1 DEF IsCall
  <2> HIDE DEF schema, columns
  <2>7. IsTable(table') /\ table' # NoTable /\ table'.schema = schema
    BY <2>1, <2>3, TableIs, EmptyIsSeq
  <2> HIDE DEF d, q, c
  <2>8. CallFollows(table', d)
    BY <1>2, <2>4, <2>6, <2>7 DEF CallFollows
  <2> QED
    BY <1>4, <2>5, <2>7, <2>8, OneCall
<1>5. CASE ~(table = NoTable /\ Len(columns) = Len(names))
  <2> DEFINE d == [c EXCEPT !.pc = "failed"]
  <2>1. To(p, d) /\ table' = table
    BY <1>3, <1>5 DEF At
  <2>2. IsCall(d) /\ d.pc = "failed" /\ d.created = c.created
    BY <1>1, <1>2, GoesOnEarly
  <2> HIDE DEF d, c
  <2>3. CallFollows(table', d)
    BY <1>2, <2>2 DEF CallFollows
  <2> QED
    BY <2>1, <2>3, OneCall DEF VectorInv
<1> QED
  BY <1>4, <1>5

LEMMA PrepareKeeps ==
    ASSUME VectorInv, NEW p \in Plugins, Prepare(p)
    PROVE  VectorInv'
<1> DEFINE c == calls[p]
           q == c.request
           at == FieldIndex(table.schema, q.key)
<1>1. c.pc = "schema" /\ CallFollows(table, c)
  BY TheCall DEF Prepare
<1>2. /\ IsCall(c) /\ q \in Requests /\ c.created \in BOOLEAN
      /\ q.action \in {"add_rows", "add_columns"} /\ Readable(q) /\ table # NoTable
  BY <1>1, VectorAssumption DEF CallFollows, IsCall
<1>3. table' = table
  BY DEF Prepare
<1>4. c.created /\ q.action = "add_rows" => IsMadeFor(table.schema, q.rows)
  BY <1>1 DEF CallFollows
<1>5. ASSUME NEW columns, NEW embed,
             To(p, [pc |-> "embed", request |-> q, created |-> c.created,
                    columns |-> columns, embed |-> embed]),
             IF q.action = "add_columns" THEN columns = q.columns /\ embed = q.embed
             ELSE /\ EmbeddingIndex(table.schema) # 0
                  /\ columns = ToAdd(table.schema, q.rows)
                  /\ embed = FieldIndex(table.schema, q.key)
      PROVE  VectorInv'
  <2> DEFINE d == [pc |-> "embed", request |-> q, created |-> c.created,
                   columns |-> columns, embed |-> embed]
  <2>1. /\ d.pc = "embed" /\ d.request = q /\ d.created = c.created
        /\ d.columns = columns /\ d.embed = embed
    OBVIOUS
  <2>2. IsCall(d)
    <3>1. d \in [pc : {"embed", "write", "done", "failed", "refused"},
                 request : Requests, created : BOOLEAN, columns : {columns}, embed : {embed}]
      BY <1>2
    <3> HIDE DEF d
    <3> QED
      BY <2>1, <3>1 DEF IsCall
  <2>3. To(p, d)
    BY <1>5
  <2> HIDE DEF d
  <2>4. IsPrepared(table.schema, d)
    BY <1>5, <2>1 DEF IsPrepared
  <2> HIDE DEF q, c
  <2>5. CallFollows(table', d)
    BY <1>2, <1>3, <1>4, <2>1, <2>2, <2>4 DEF CallFollows
  <2> QED
    BY <1>3, <2>3, <2>5, OneCall DEF VectorInv
<1>6. CASE q.action = "add_columns"
  BY <1>5, <1>6 DEF Prepare, RequestOf
<1>7. CASE q.action = "add_rows" /\ (at = 0 \/ EmbeddingIndex(table.schema) = 0)
  <2> DEFINE d == [c EXCEPT !.pc = "refused"]
  <2>1. To(p, d)
    BY <1>7 DEF Prepare, At, RequestOf
  <2>2. IsCall(d) /\ d.pc = "refused" /\ d.request = q /\ d.created = c.created
    BY <1>1, <1>2, GoesOnEarly
  <2>3. c.created => ~Plain(q)
    <3> SUFFICES ASSUME c.created, Plain(q) PROVE FALSE
      OBVIOUS
    <3>1. IsRows(q.rows) /\ IsMadeFor(table.schema, q.rows)
      BY <1>2, <1>4, <1>7, VectorAssumption
    <3>2. EmbeddingIndex(table.schema) # 0 /\ at # 0
      BY <1>2, <1>7, <3>1, MadeTakes
    <3> QED
      BY <1>7, <3>2
  <2> HIDE DEF d, q, c
  <2>4. CallFollows(table', d)
    BY <1>2, <1>3, <1>4, <2>2, <2>3 DEF CallFollows
  <2> QED
    BY <1>3, <2>1, <2>4, OneCall DEF VectorInv
<1>8. CASE q.action = "add_rows" /\ at # 0 /\ EmbeddingIndex(table.schema) # 0
  <2>1. To(p, [pc |-> "embed", request |-> q, created |-> c.created,
               columns |-> ToAdd(table.schema, q.rows), embed |-> at])
    BY <1>8 DEF Prepare, RequestOf
  <2> QED
    BY <1>5, <1>8, <2>1
<1> QED
  BY <1>2, <1>6, <1>7, <1>8

LEMMA EmbedKeeps ==
    ASSUME VectorInv, NEW p \in Plugins, Embed(p)
    PROVE  VectorInv'
<1> DEFINE c == calls[p]
           q == c.request
           schema == table.schema
           Taken == /\ EmbeddingIndex(schema) # 0
                    /\ \A i \in DOMAIN c.columns : Len(c.columns[i]) = Len(c.columns[1])
                    /\ c.embed \in DOMAIN c.columns
                    /\ \A r \in DOMAIN c.columns[c.embed] : IsText(c.columns[c.embed][r])
<1>1. c.pc = "embed" /\ CallFollows(table, c)
  BY TheCall DEF Embed
<1>2. /\ IsCall(c) /\ q \in Requests
      /\ q.action \in {"add_rows", "add_columns"} /\ Readable(q) /\ table # NoTable
      /\ IsPrepared(schema, c)
  BY <1>1, VectorAssumption DEF CallFollows, IsCall
<1>3. table' = table
  BY DEF Embed
<1>4. c.created /\ q.action = "add_rows" => IsMadeFor(schema, q.rows)
  BY <1>1 DEF CallFollows
<1>5. PICK pc \in {"write", "failed", "refused"} :
         To(p, [c EXCEPT !.pc = pc]) /\ (pc = "write" => Taken) /\ (pc = "refused" => ~Taken)
  BY DEF Embed, At
<1> DEFINE d == [c EXCEPT !.pc = pc]
<1>6. /\ IsCall(d) /\ d.pc = pc /\ d.request = q /\ d.created = c.created
      /\ d.columns = c.columns /\ d.embed = c.embed
  <2>1. c.pc \in {"embed", "write"} /\ pc \in {"write", "done", "failed", "refused"}
    BY <1>1, <1>5
  <2>2. IsCall(c)
    BY <1>2
  <2> HIDE DEF c
  <2> QED
    BY <2>1, <2>2, GoesOnLate, Zenon
<1>7. c.created /\ Plain(q) => Taken
  <2> SUFFICES ASSUME c.created, Plain(q) PROVE Taken
    OBVIOUS
  <2>1. q.action = "add_rows"
    BY DEF Plain
  <2>2. IsRows(q.rows) /\ IsMadeFor(schema, q.rows)
    BY <1>2, <1>4, <2>1, VectorAssumption
  <2>3. c.columns = ToAdd(schema, q.rows) /\ c.embed = FieldIndex(schema, q.key)
    BY <1>2, <2>1 DEF IsPrepared
  <2> HIDE DEF c, q, schema
  <2> QED
    BY <1>2, <2>1, <2>2, <2>3, MadeTakes
<1>8. To(p, d)
  BY <1>5
<1>9. pc = "write" => IsSent(schema, d)
  <2>1. pc = "write" => Taken
    BY <1>5
  <2> HIDE DEF d
  <2>2. d.columns = c.columns /\ d.embed = c.embed
    BY <1>6
  <2> QED
    BY <2>1, <2>2 DEF IsSent
<1>10. IsPrepared(schema, d)
  BY <1>2, <1>6 DEF IsPrepared
<1>11. pc = "refused" => ~(c.created /\ Plain(q))
  BY <1>5, <1>7
<1> HIDE DEF Taken, d, q, c
<1>12. CallFollows(table', d)
  BY <1>2, <1>3, <1>4, <1>5, <1>6, <1>9, <1>10, <1>11 DEF CallFollows
<1> QED
  BY <1>3, <1>8, <1>12, OneCall DEF VectorInv

\* The rows a table has after a write.
LEMMA WrittenFits ==
    ASSUME NEW schema, NEW list, NEW batch, NEW at, IsSeq(list), IsSeq(batch),
           \A r \in DOMAIN list : RowFits(schema, list[r]),
           \A r \in DOMAIN batch : RowFits(schema, batch[r])
    PROVE  /\ IsSeq(Written(list, batch, at))
           /\ \A r \in DOMAIN Written(list, batch, at) : RowFits(schema, Written(list, batch, at)[r])
<1> DEFINE K == { k \in DOMAIN list :
                    ~ \E r \in DOMAIN batch : batch[r].cells[at] = list[k].cells[at] }
           Fit == { row \in ToSet(list) \cup ToSet(batch) : RowFits(schema, row) }
<1>1. list \in Seq(Fit) /\ batch \in Seq(Fit)
  <2>1. \A row \in ToSet(list) \cup ToSet(batch) : row \in Fit
    BY DEF ToSet
  <2>2. list \in Seq(ToSet(list)) /\ batch \in Seq(ToSet(batch))
    BY DEF IsSeq
  <2>3. ToSet(list) \subseteq Fit /\ ToSet(batch) \subseteq Fit
    BY <2>1
  <2> HIDE DEF Fit
  <2> QED
    BY <2>2, <2>3, SeqMore
<1>2. Kept(list, K) \in Seq(Fit)
  <2>1. K \subseteq DOMAIN list
    OBVIOUS
  <2> HIDE DEF K, Fit
  <2> QED
    BY <1>1, <2>1, KeptElements
<1>3. Written(list, batch, at) \in Seq(Fit)
  <2>1. Written(list, batch, at) = IF at = 0 THEN list \o batch ELSE Kept(list, K) \o batch
    BY DEF Written
  <2> HIDE DEF K, Fit
  <2> QED
    BY <1>1, <1>2, <2>1
<1> DEFINE written == Written(list, batch, at)
<1> HIDE DEF Fit, written
<1>4. IsSeq(written)
  BY <1>3, IsSeqOf DEF written
<1>5. \A r \in DOMAIN written : written[r] \in Fit
  BY <1>3 DEF written
<1>6. \A r \in DOMAIN written : RowFits(schema, written[r])
  BY <1>5 DEF Fit
<1> QED
  BY <1>4, <1>6 DEF written

\* The rows of a table change and its schema stays.
LEMMA RowsSet ==
    ASSUME NEW t, IsTable(t), NEW list, IsSeq(list),
           \A r \in DOMAIN list : RowFits(t.schema, list[r])
    PROVE  LET u == [t EXCEPT !.rows = list]
           IN  IsTable(u) /\ u # NoTable /\ u.schema = t.schema
<1>1. t \in [schema : {t.schema}, rows : {t.rows}] /\ IsSeq(t.schema)
  BY DEF IsTable
<1>2. [t EXCEPT !.rows = list] = [schema |-> t.schema, rows |-> list]
  BY <1>1
<1> QED
  BY <1>1, <1>2, TableIs

LEMMA WriteKeeps ==
    ASSUME VectorInv, NEW p \in Plugins, Write(p)
    PROVE  VectorInv'
<1> DEFINE c == calls[p]
           q == c.request
           schema == table.schema
           at == FieldIndex(schema, q.upsert)
           batch == Batch(schema, c.columns, c.embed, Given(q))
           Takes == Convertible(schema, c.columns) /\ (q.upsert = "" \/ at # 0)
<1>1. c.pc = "write" /\ CallFollows(table, c)
  BY TheCall DEF Write
<1>2. /\ IsCall(c) /\ q \in Requests
      /\ q.action \in {"add_rows", "add_columns"} /\ Readable(q) /\ table # NoTable
      /\ IsPrepared(schema, c) /\ IsSent(schema, c)
  BY <1>1, VectorAssumption DEF CallFollows, IsCall
<1>3. IsTable(table)
  BY <1>2 DEF VectorInv
<1>4. c.created /\ q.action = "add_rows" => IsMadeFor(schema, q.rows)
  BY <1>1 DEF CallFollows
<1>5. CASE Takes
  <2>1. IsSeq(schema) /\ IsSeq(table.rows) /\ \A r \in DOMAIN table.rows : RowFits(schema, table.rows[r])
    BY <1>3 DEF IsTable
  <2>2. IsSeq(batch) /\ \A r \in DOMAIN batch : RowFits(schema, batch[r])
    <3> HIDE DEF schema, c
    <3> QED
      BY <1>2, <1>5, <2>1, BatchFits
  <2> DEFINE written == Written(table.rows, batch, at)
             d == [c EXCEPT !.pc = "done"]
  <2>3. table' = [table EXCEPT !.rows = written] /\ To(p, d)
    BY <1>5 DEF Write, At, RequestOf
  <2>4. IsSeq(written) /\ \A r \in DOMAIN written : RowFits(schema, written[r])
    <3> HIDE DEF batch, at, schema
    <3> QED
      BY <2>1, <2>2, WrittenFits
  <2>5. /\ IsCall(d) /\ d.pc = "done" /\ d.request = q /\ d.created = c.created
    BY <1>1, <1>2, GoesOnLate
  <2>6. IsTable(table') /\ table' # NoTable /\ table'.schema = table.schema
    <3> HIDE DEF written
    <3> QED
      BY <1>3, <2>3, <2>4, RowsSet
  <2> HIDE DEF d, q, c, written, batch, at
  <2>7. CallFollows(table', d)
    BY <1>2, <1>4, <2>5, <2>6 DEF CallFollows
  <2> QED
    BY <2>3, <2>6, <2>7, OneCall
<1>6. CASE ~Takes
  <2> DEFINE d == [c EXCEPT !.pc = "refused"]
  <2>1. To(p, d) /\ table' = table
    BY <1>6 DEF Write, At, RequestOf
  <2>2. IsCall(d) /\ d.pc = "refused" /\ d.request = q /\ d.created = c.created
    BY <1>1, <1>2, GoesOnLate
  <2>3. ~(c.created /\ Plain(q))
    <3> SUFFICES ASSUME c.created, Plain(q) PROVE Takes
      BY <1>6
    <3>1. q.action = "add_rows"
      BY DEF Plain
    <3>2. IsRows(q.rows) /\ IsMadeFor(schema, q.rows)
      BY <1>2, <1>4, <3>1, VectorAssumption
    <3>3. c.columns = ToAdd(schema, q.rows)
      BY <1>2, <3>1 DEF IsPrepared
    <3> HIDE DEF c, q, schema
    <3> QED
      BY <1>2, <3>1, <3>2, <3>3, MadeTakes
  <2> HIDE DEF d, q, c
  <2>4. CallFollows(table', d)
    BY <1>2, <1>4, <2>1, <2>2, <2>3 DEF CallFollows
  <2> QED
    BY <2>1, <2>4, OneCall DEF VectorInv
<1> QED
  BY <1>5, <1>6

LEMMA DeleteKeeps ==
    ASSUME VectorInv, Delete
    PROVE  VectorInv'
<1>1. IsTable(table) /\ calls' = calls
  BY DEF VectorInv, Delete
<1>2. PICK r \in DOMAIN table.rows :
         table' = [table EXCEPT !.rows =
                     Kept(@, { k \in DOMAIN @ : @[k].cells[1] # @[r].cells[1] })]
  BY DEF Delete
<1> DEFINE list == table.rows
           K == { k \in DOMAIN list : list[k].cells[1] # list[r].cells[1] }
           left == Kept(list, K)
<1>3. table' = [table EXCEPT !.rows = left]
  BY <1>2
<1>4. IsSeq(list) /\ \A i \in DOMAIN list : RowFits(table.schema, list[i])
  BY <1>1 DEF IsTable
<1>5. left \in Seq(ToSet(list)) /\ \A i \in DOMAIN left : \E k \in K : left[i] = list[k]
  <2>1. K \subseteq DOMAIN list
    OBVIOUS
  <2> HIDE DEF K, list
  <2> QED
    BY <1>4, <2>1, KeptElements DEF IsSeq
<1>6. IsSeq(left) /\ \A i \in DOMAIN left : RowFits(table.schema, left[i])
  <2> HIDE DEF left
  <2>1. IsSeq(left)
    BY <1>5, IsSeqOf
  <2> QED
    BY <1>4, <1>5, <2>1
<1> HIDE DEF left
<1>7. IsTable(table') /\ table' # NoTable /\ table'.schema = table.schema
  BY <1>1, <1>3, <1>6, RowsSet
<1>8. ASSUME NEW p \in Plugins PROVE calls'[p] = Unasked \/ CallFollows(table', calls'[p])
  <2>1. calls[p] = Unasked \/ CallFollows(table, calls[p])
    BY DEF VectorInv
  <2>2. table # NoTable
    BY DEF Delete
  <2>3. CallFollows(table, calls[p]) => CallFollows(table', calls[p])
    BY <1>7, <2>2 DEF CallFollows
  <2> QED
    BY <1>1, <2>1, <2>3
<1> QED
  BY <1>1, <1>7, <1>8 DEF VectorInv

LEMMA VectorInductive == VectorSpec => []VectorInv
<1>1. VectorInit => VectorInv
  BY VectorBegins
<1>2. VectorInv /\ [VectorNext]_vectorVars => VectorInv'
  <2> SUFFICES ASSUME VectorInv, [VectorNext]_vectorVars PROVE VectorInv'
    OBVIOUS
  <2>1. ASSUME NEW p \in Plugins,
               ReadRequest(p) \/ CreateTable(p) \/ Ensure(p) \/ Make(p)
                  \/ Prepare(p) \/ Embed(p) \/ Write(p)
        PROVE  VectorInv'
    BY <2>1, ReadRequestKeeps, CreateTableKeeps, EnsureKeeps, MakeKeeps, PrepareKeeps,
       EmbedKeeps, WriteKeeps
  <2>2. CASE Delete
    BY <2>2, DeleteKeeps
  <2>3. CASE UNCHANGED vectorVars
    BY <2>3 DEF vectorVars, VectorInv
  <2> QED
    BY <2>1, <2>2, <2>3 DEF VectorNext
<1> QED
  BY <1>1, <1>2, PTL DEF VectorSpec

\* Every value is in its field and every embedding is of the text its request
\* named, for all requests, tables and plugins: whoever made the table
\* (to_add, to_embed_index, columns[i] of the host).
THEOREM Vector_RowsAsGiven == VectorSpec => []RowsAsGiven
<1>1. VectorInv => RowsAsGiven
  BY DEF VectorInv, RowsAsGiven, IsTable, RowFits
<1> QED
  BY <1>1, VectorInductive, PTL

\* The table that is made after rows of texts and numbers takes them: nothing
\* between ensure_table_exists and the write refuses them (infer_column_type
\* against json_columns_to_arrow_arrays).
THEOREM Vector_MadeTablesTakeRows == VectorSpec => []MadeTablesTakeRows
<1>1. VectorInv => MadeTablesTakeRows
  BY DEF VectorInv, MadeTablesTakeRows, CallFollows, RequestOf, Unasked
<1> QED
  BY <1>1, VectorInductive, PTL
==============================================================================
