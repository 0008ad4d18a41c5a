---------------------------- MODULE MessageStream ----------------------------
(****************************************************************************)
(* A streamed answer of a language model (plugin-host/src/host/providers/   *)
(* llm.rs, stream_chat_completion): the chunks of the service are merged    *)
(* into one response for the plugin and forwarded one by one to the browser *)
(* of the request, which merges them for itself.                            *)
(*                                                                          *)
(* A chunk is a sequence of deltas, a delta is about one choice: text, or   *)
(* fragments of tool calls, each with the index of its call.  Text and      *)
(* arguments are sequences of pieces, a piece is the number of the chunk    *)
(* it came in.  Role, refusal, id and type are merged as text and name are  *)
(* and left out.                                                            *)
(****************************************************************************)
EXTENDS Integers, Sequences, SequencesExt, FiniteSetsExt

CONSTANTS
    Indices,    \* indices of choices
    Calls,      \* indices of tool calls, from 0
    MaxChunks   \* chunks of one answer

ASSUME StreamAssumption ==
    Indices \subseteq Nat /\ Calls \subseteq Nat /\ MaxChunks \in Nat

VARIABLES
    choices,    \* final_response.choices
    received,   \* what the service sent: the chunks, and which of them parsed
    status,     \* of stream_chat_completion
    done        \* the browser was sent [DONE]

streamVars == <<choices, received, status, done>>

Fragment(i, name, arguments) == [index |-> i, name |-> name, arguments |-> arguments]
Delta(c, content, calls, finish) ==
    [index |-> c, content |-> content, tool_calls |-> calls, finish |-> finish]
------------------------------------------------------------------------------
NoCall == [name |-> "", arguments |-> <<>>]

\* Mutant: a call that is not there yet is put behind the others.
EnsureOneMore(calls, i) == IF i < Len(calls) THEN calls ELSE Append(calls, NoCall)

\* ensure_tool_call_exists.
EnsureToolCallExists(calls, i) ==
    calls \o [k \in 1..Max({0, i + 1 - Len(calls)}) |-> NoCall]

UpdateToolCall(call, new) ==
    [name |-> IF new.name = "" THEN call.name ELSE new.name,
     arguments |-> call.arguments \o new.arguments]

MergeToolCall(calls, new) ==
    LET ensured == EnsureToolCallExists(calls, new.index)
        at == Min({new.index + 1, Len(ensured)})
    IN  [ensured EXCEPT ![at] = UpdateToolCall(@, new)]

MergeToolCalls(calls, delta) == FoldLeft(MergeToolCall, calls, delta.tool_calls)

MergeChoice(choice, delta) ==
    [choice EXCEPT !.content = @ \o delta.content,
                   !.tool_calls = MergeToolCalls(@, delta),
                   !.finish = IF delta.finish = "" THEN @ ELSE delta.finish]

\* choice_to_our_format: the calls of the first delta of a choice are taken in
\* the order they come in, whatever their index.
ChoiceToOurFormat(delta) ==
    [delta EXCEPT !.tool_calls =
        [k \in DOMAIN @ |-> [name |-> @[k].name, arguments |-> @[k].arguments]]]

MergeDelta(all, delta) ==
    IF \E k \in DOMAIN all : all[k].index = delta.index
    THEN LET at == Min({k \in DOMAIN all : all[k].index = delta.index})
         IN  [all EXCEPT ![at] = MergeChoice(@, delta)]
    ELSE Append(all, ChoiceToOurFormat(delta))

UpdateFinalResponse(all, chunk) == FoldLeft(MergeDelta, all, chunk)
------------------------------------------------------------------------------
(****************************************************************************)
(* The service.  A choice begins with its role, a call with its name and    *)
(* the calls of a choice in the order of their indices, their arguments in  *)
(* any order; a choice ends with its finish_reason.                         *)
(****************************************************************************)
DeltasIn(chunks) == FlattenSeq([k \in DOMAIN chunks |-> chunks[k].deltas])

Sent(c) == SelectSeq(DeltasIn(received), LAMBDA d : d.index = c)

FragmentsOf(deltas) == FlattenSeq([k \in DOMAIN deltas |-> deltas[k].tool_calls])

Begun(c, i) == \E k \in DOMAIN FragmentsOf(Sent(c)) : FragmentsOf(Sent(c))[k].index = i

NextDeltas(c) ==
    LET piece == <<Len(received) + 1>>
    IN  IF Sent(c) = <<>> THEN {Delta(c, <<>>, <<>>, "")}
        ELSE IF Last(Sent(c)).finish # "" THEN {}
        ELSE {Delta(c, piece, <<>>, ""),
              Delta(c, <<>>, <<>>, IF Begun(c, 0) THEN "tool_calls" ELSE "stop")}
             \cup {Delta(c, <<>>, <<Fragment(i, "", piece)>>, "") :
                     i \in {j \in Calls : Begun(c, j)}}
             \cup {Delta(c, <<>>, <<Fragment(i, "name", <<>>)>>, "") :
                     i \in {j \in Calls : ~Begun(c, j) /\ \A h \in 0..(j - 1) : Begun(c, h)}}

\* One delta, or the same event of two choices at once.
NextChunks ==
    {<<d>> : d \in UNION {NextDeltas(c) : c \in Indices}}
    \cup {<<d, e>> : d, e \in UNION {{x \in NextDeltas(c) : Sent(c) = <<>>} : c \in Indices}}
------------------------------------------------------------------------------
StreamInit ==
    /\ choices = <<>>
    /\ received = <<>>
    /\ status = "streaming"
    /\ done = FALSE

\* A chunk that parses is merged and then forwarded; the receiver may be gone.
Chunk ==
    /\ status = "streaming" /\ Len(received) < MaxChunks
    /\ \E chunk \in NextChunks :
          /\ received' = Append(received, [deltas |-> chunk, parsed |-> TRUE])
          /\ choices' = UpdateFinalResponse(choices, chunk)
    /\ status' \in {"streaming", "failed"}
    /\ UNCHANGED done

\* One that does not parse is neither, and the stream goes on.
BadChunk ==
    /\ status = "streaming" /\ Len(received) < MaxChunks
    /\ \E chunk \in NextChunks :
          received' = Append(received, [deltas |-> chunk, parsed |-> FALSE])
    /\ UNCHANGED <<choices, status, done>>

\* An error of the connection, its end without [DONE] included.
StreamError ==
    /\ status = "streaming"
    /\ status' = "failed"
    /\ UNCHANGED <<choices, received, done>>

\* [DONE] is passed on unless the first choice asks for tools: the plugin will
\* go on with this browser.  An answer without choices is an error.
Done ==
    /\ status = "streaming"
    /\ \A c \in Indices : Sent(c) # <<>> => Last(Sent(c)).finish # ""
    /\ LET tools == choices # <<>> /\ choices[1].finish = "tool_calls"
       IN  \/ /\ done' = ~tools
              /\ status' = IF choices = <<>> THEN "failed" ELSE "done"
           \/ /\ ~tools
              /\ status' = "failed"
              /\ UNCHANGED done
    /\ UNCHANGED <<choices, received>>

StreamNext == Chunk \/ BadChunk \/ StreamError \/ Done
------------------------------------------------------------------------------
\* What the browser was sent, and what it makes of it: the text of a choice in
\* the order it came, the arguments of each call by its index.
Forwarded(c) ==
    SelectSeq(DeltasIn(SelectSeq(received, LAMBDA chunk : chunk.parsed)),
              LAMBDA d : d.index = c)

OfCall(c, i) == SelectSeq(FragmentsOf(Forwarded(c)), LAMBDA f : f.index = i)

ArgumentsOf(fragments) == FlattenSeq([k \in DOMAIN fragments |-> fragments[k].arguments])

\* The first delta of c has its calls at their places.
BeginsInPlace(c) ==
    LET first == Forwarded(c)[1].tool_calls IN \A k \in DOMAIN first : first[k].index = k - 1

Agrees(c, choice) ==
    LET deltas == Forwarded(c)
    IN  /\ choice.content = FlattenSeq([k \in DOMAIN deltas |-> deltas[k].content])
        /\ BeginsInPlace(c) =>
              \A i \in Calls :
                 IF i < Len(choice.tool_calls)
                 THEN choice.tool_calls[i + 1].arguments = ArgumentsOf(OfCall(c, i))
                 ELSE OfCall(c, i) = <<>>

(****************************************************************************)
(* Plugin and browser make the same of a stream, whatever the order in      *)
(* which the fragments of several calls and choices come and whichever      *)
(* chunks were lost to a parse error: there is one choice for each index    *)
(* that was forwarded, its text is the forwarded text and the arguments of  *)
(* call i are the forwarded fragments of call i (merge_tool_calls).         *)
(* What comes in the first delta of a choice must be in place for that.     *)
(****************************************************************************)
MergedAsForwarded ==
    \A c \in Indices :
       LET of == SelectSeq(choices, LAMBDA choice : choice.index = c)
       IN  IF Forwarded(c) = <<>> THEN of = <<>>
           ELSE Len(of) = 1 /\ Agrees(c, of[1])
==============================================================================
