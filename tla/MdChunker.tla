------------------------------ MODULE MdChunker ------------------------------
(****************************************************************************)
(* The chunks of a markdown document (md-chunker/src/lib.rs): sections      *)
(* begin at headings, a section that is too large is cut between its nodes, *)
(* and chunks that are too small are joined with a neighbour.               *)
(*                                                                          *)
(* A document is the sequence of its top-level nodes, a place in it the     *)
(* number of a node; a chunk is the nodes from one to another, and its      *)
(* tokens.  The tokens of a section are those of its nodes and of the blank *)
(* lines between them, gap each.                                            *)
(****************************************************************************)
EXTENDS Integers, Sequences, SequencesExt, FiniteSetsExt

CONSTANTS
    Sizes,       \* tokens of a node
    Settings,    \* target_chunk_size, target_min_chunk_size and gap
    MaxNodes     \* nodes of a document

ASSUME ChunkerAssumption ==
    /\ Sizes \subseteq Nat \ {0} /\ MaxNodes \in Nat
    /\ Settings \subseteq [target : Nat, min : Nat, gap : Nat]

VARIABLES
    md,          \* the document
    settings

chunkerVars == <<md, settings>>

ChunkInfo(from, to, size) == [from |-> from, to |-> to, size |-> size]

Tokens(nodes, from, to) == FoldFunctionOnSet(LAMBDA n, t : n.size + t, 0, nodes, from..to)
------------------------------------------------------------------------------
\* find_sections: where a heading is, and at the beginning.
FindSections(nodes) ==
    LET begins == SelectSeq([n \in DOMAIN nodes |-> n],
                            LAMBDA n : n = 1 \/ nodes[n].kind = "heading")
        End(k) == IF k = Len(begins) THEN Len(nodes) ELSE begins[k + 1] - 1
    IN  [k \in DOMAIN begins |-> <<begins[k], End(k)>>]

\* process_section_nodes: cut is what was cut, from and size what is not yet.
CutBefore(nodes, s, cut, n) ==
    LET size == nodes[n].size
        tooLarge == cut.size + size > s.target
        largeEnough == cut.size >= s.min
    IN  IF nodes[n].kind # "table" /\ tooLarge /\ largeEnough
        THEN [chunks |-> Append(cut.chunks, ChunkInfo(cut.from, n - 1, cut.size)),
              from |-> n, size |-> size]
        ELSE [cut EXCEPT !.size = @ + size]

ProcessSectionNodes(nodes, s, from, to) ==
    LET cut == FoldLeft(LAMBDA c, n : CutBefore(nodes, s, c, n),
                        [chunks |-> <<>>, from |-> from, size |-> 0],
                        [k \in 1..(to - from + 1) |-> from + k - 1])
    IN  IF cut.size > 0 THEN Append(cut.chunks, ChunkInfo(cut.from, to, cut.size)) ELSE cut.chunks

\* A section that fits is kept whole.
SectionChunks(nodes, s, from, to) ==
    LET size == Tokens(nodes, from, to) + s.gap * (to - from)
    IN  IF size <= s.target THEN <<ChunkInfo(from, to, size)>>
        ELSE ProcessSectionNodes(nodes, s, from, to)
------------------------------------------------------------------------------
\* Mutant: the next chunk takes the tokens but not the nodes.
JoinSizes(chunks, i) ==
    [chunks EXCEPT ![i + 1].size = @ + chunks[i].size, ![i].size = 0]

JoinNext(chunks, i) ==
    [chunks EXCEPT ![i + 1].from = chunks[i].from,
                   ![i + 1].size = @ + chunks[i].size, ![i].size = 0]

JoinPrevious(chunks, i) ==
    [chunks EXCEPT ![i - 1].to = chunks[i].to,
                   ![i - 1].size = @ + chunks[i].size, ![i].size = 0]

\* optimize_chunks looks at chunk i; a chunk of no tokens was joined.
Optimize(s, chunks, i) ==
    LET Takes(j) == /\ j \in DOMAIN chunks /\ chunks[j].size > 0
                    /\ chunks[j].size + chunks[i].size <= s.target
    IN  IF chunks[i].size = 0 \/ chunks[i].size >= s.min THEN chunks
        ELSE IF Takes(i + 1) THEN JoinNext(chunks, i)
        ELSE IF Takes(i - 1) THEN JoinPrevious(chunks, i)
        ELSE chunks

OptimizeChunks(s, chunks) ==
    SelectSeq(FoldLeft(LAMBDA cs, i : Optimize(s, cs, i), chunks, [i \in DOMAIN chunks |-> i]),
              LAMBDA chunk : chunk.size > 0)

ChunkMarkdown(nodes, s) ==
    LET sections == FindSections(nodes)
        Of(k) == SectionChunks(nodes, s, sections[k][1], sections[k][2])
    IN  OptimizeChunks(s, FlattenSeq([k \in DOMAIN sections |-> Of(k)]))
------------------------------------------------------------------------------
ChunkerInit == md = <<>> /\ settings \in Settings

\* One more node of the document.
Parse ==
    /\ Len(md) < MaxNodes
    /\ \E kind \in {"heading", "table", "text"}, size \in Sizes :
          md' = Append(md, [kind |-> kind, size |-> size])
    /\ UNCHANGED settings

ChunkerNext == Parse
------------------------------------------------------------------------------
(****************************************************************************)
(* The chunks are the document: in its order, each node in exactly one of   *)
(* them (create_result cuts their text out of it), and what optimize_chunks *)
(* counts for a chunk is what its nodes have.                               *)
(****************************************************************************)
ChunksAreTheDocument ==
    LET chunks == ChunkMarkdown(md, settings)
    IN  /\ FlattenSeq([k \in DOMAIN chunks |->
              [n \in 1..(chunks[k].to - chunks[k].from + 1) |-> chunks[k].from + n - 1]])
              = [n \in DOMAIN md |-> n]
        /\ \A k \in DOMAIN chunks : chunks[k].size >= Tokens(md, chunks[k].from, chunks[k].to)

(****************************************************************************)
(* "This ensures that all chunks meet the minimum size requirement when     *)
(* possible by merging them with adjacent chunks that have space" (the      *)
(* comment of optimize_chunks).  Not so: a small chunk that took the one    *)
(* before it is never joined with the one before that.                      *)
(****************************************************************************)
SmallChunksAreJoined ==
    LET chunks == ChunkMarkdown(md, settings)
    IN  \A k \in 1..(Len(chunks) - 1) :
           Min({chunks[k].size, chunks[k + 1].size}) < settings.min
           => chunks[k].size + chunks[k + 1].size > settings.target
==============================================================================
