----------------------------- MODULE ChatSession -----------------------------
(****************************************************************************)
(* The chat session of a plugin (plugin-host/src/host/providers/llm.rs      *)
(* ChatSession), as a value: its operations are operators on it.  The       *)
(* service behind chat_create is external; what it answers is a reply.      *)
(*                                                                          *)
(* config.messages is a copy of messages during a request, is set before    *)
(* anything reads it, and is left out.                                      *)
(****************************************************************************)
EXTENDS Integers, Sequences, SequencesExt

CONSTANTS
    NoTitle,    \* session_title before a title was made
    SomeTitle,  \* and after
    NoChoice    \* no tool_choice; another one is the name of a forced tool

\* Message: w is its length in tokens, calls are its tool_calls, for is its
\* tool_call_id (0: none), text is a sequence of the parts put together.
Message(role, text, w, calls, for) ==
    [role |-> role, text |-> text, w |-> w, calls |-> calls, for |-> for]

UserMessage(text) == Message("user", <<text>>, 1, <<>>, 0)
SystemMessage(text) == Message("system", text, 1, <<>>, 0)
ToolAnswer(call, w) == Message("tool", <<"answer">>, w, <<>>, call.id)

\* MessageResponse: text <<>> is neither content nor refusal; tools tells
\* whether tool_calls is there at all, calls may then still be empty; finish
\* is finish_reason = "tool_calls".  by tells how it came: by the "stream", or
\* by the second request, as a "fallback" after a stream that failed or after
\* one that was "empty", with no choice before its [DONE].
Reply(text, tools, calls, finish, by) ==
    [text |-> text, tools |-> tools, calls |-> calls, finish |-> finish, by |-> by]

\* ChatSession::new.
NewSession(tools, streaming, generate) ==
    [messages |-> <<>>, tools |-> tools, tool_choice |-> NoChoice, schema |-> FALSE,
     streaming |-> streaming, generate_title |-> generate, title |-> NoTitle]

AddMessage(s, m) == [s EXCEPT !.messages = Append(@, m)]
SetMessages(s, ms) == [s EXCEPT !.messages = ms]
SetStreaming(s, on) == [s EXCEPT !.streaming = on]
SetToolChoice(s, choice) == [s EXCEPT !.tool_choice = choice]
SetResponseSchema(s) == [s EXCEPT !.schema = TRUE]
RemoveAllTools(s) == [s EXCEPT !.tools = {}]

\* add_tool refuses a second tool of a name, remove_tool drops all of a name.
AddTool(s, name) == [s EXCEPT !.tools = @ \cup {name}]
RemoveTool(s, name) == [s EXCEPT !.tools = @ \ {name}]

\* fork_at: a clone with the first idx messages (Vec::truncate).
ForkAt(s, idx) == [s EXCEPT !.messages = IF idx < Len(@) THEN SubSeq(@, 1, idx) ELSE @]

\* Mutant: a reply with calls loses them.
TextOnly(reply) ==
    IF reply.text = <<>> THEN <<>>
    ELSE <<Message("assistant", reply.text, 1, <<>>, 0)>>

\* message_response_to_messages: calls before text, text before nothing.
ReplyMessages(reply) ==
    IF reply.tools THEN <<Message("assistant", <<>>, 1, reply.calls, 0)>>
    ELSE IF reply.text = <<>> THEN <<>>
    ELSE <<Message("assistant", reply.text, 1, <<>>, 0)>>

\* What construct_chat_request_json puts into a request.
Request(s) ==
    [messages |-> s.messages, tools |-> s.tools, tool_choice |-> s.tool_choice,
     schema |-> s.schema, stream |-> s.streaming]

\* maybe_generate_title asks when a title is wanted, missing, and the messages
\* are long enough, which is a matter of their text; FALSE: it did not ask.
TitlesAfter(s) ==
    IF s.generate_title /\ s.title = NoTitle THEN {NoTitle, SomeTitle} ELSE {s.title}

\* The title request: the session's settings, but no tools and no stream.
TitleRequest(s) ==
    [Request(s) EXCEPT !.tools = {}, !.stream = FALSE,
        !.messages = Append(IF @ = <<>> THEN @ ELSE Front(@), UserMessage("title"))]

\* The end of setup_and_chat: a title and the messages of the first choice.
Received(s, title, reply) ==
    [s EXCEPT !.title = title, !.messages = @ \o ReplyMessages(reply)]
------------------------------------------------------------------------------
\* What the browser of the request was sent: [DONE]s, an error of the service,
\* anything after a [DONE].  odd: a stream of the request was not whole.
NoEvents == [done |-> 0, error |-> FALSE, late |-> FALSE, odd |-> FALSE]

\* A stream of which chunks were lost or did not parse may come without a
\* choice, or without the calls or the finish_reason that belong together.
CameWhole(reply) ==
    /\ reply.by # "empty"
    /\ reply.by = "stream" => (reply.finish <=> reply.tools)

Forwarded(sse, reply) ==
    [sse EXCEPT !.late = @ \/ sse.done > 0, !.odd = @ \/ ~CameWhole(reply)]

\* Mutant: [DONE] follows every answer.
AnsweredAlways(s, sse, reply) ==
    IF ~s.streaming THEN sse
    ELSE IF reply.by = "fallback" THEN [Forwarded(sse, reply) EXCEPT !.error = TRUE]
    ELSE [Forwarded(sse, reply) EXCEPT !.done = @ + 1]

\* chat_create of a session: a stream that fails tells so; one that comes to
\* its end forwards [DONE] unless the first choice, if there is one, finished
\* for tool calls.  Without a choice the answer is asked for again, after the
\* [DONE].  The answer to the second request is not streamed.  (A browser that
\* is gone is told nothing; it makes the stream fail and is left out.)
Answered(s, sse, reply) ==
    IF ~s.streaming THEN sse
    ELSE LET told == Forwarded(sse, reply)
             ended == reply.by = "empty" \/ (reply.by = "stream" /\ ~reply.finish)
         IN  [told EXCEPT !.error = @ \/ reply.by = "fallback",
                          !.done = IF ended THEN @ + 1 ELSE @]
==============================================================================
