----------------------------- MODULE ChatThreads -----------------------------
(****************************************************************************)
(* The chat plugin (plugins/apps/ea-test): a request loads a thread from    *)
(* its file or begins one, asks the language model, calls the tools it      *)
(* wants until it answers, and saves the thread and the list of threads.    *)
(* Paths below are relative to plugins/apps/ea-test/src.                    *)
(*                                                                          *)
(* A request of the plugin is a record in a slot that says where it is.     *)
(* fs::write is two actions, since it empties the file first: a file is     *)
(* Cut in between.  Fail is an error, a trap or a stop of the server: they  *)
(* leave the same behind, the files as they are at that moment.             *)
(****************************************************************************)
EXTENDS ChatSession, Selections, FiniteSets

CONSTANTS
    Slots,        \* requests under way at a time
    Threads,      \* ids of threads
    Contexts,     \* system contexts a request may bring
    NoContext,    \* the empty one
    Replies,      \* what the model may answer
    AnswerSizes,  \* lengths of tool answers
    Limit,        \* TOKEN_LIMIT
    MaxRequests,  \* bound: requests in a behaviour
    MaxRounds,    \* bound: replies with tool calls in a behaviour
    Absent, Cut   \* a file that is not there, one whose write is under way

VARIABLES
    threads,   \* thread-<id>.json: [title, messages], Absent or Cut
    summary,   \* threads_summary.json: id -> title, or Cut
    memories,  \* memories.md is there
    req,       \* slot -> request
    asked,     \* requests so far
    rounds,    \* replies with tool calls so far
    kept,      \* history: what was last saved whole of each thread
    broken     \* history: a request ended between two writes

vars == <<threads, summary, memories, req, asked, rounds, kept, broken>>

IsToolCall(c) == c \in [id : {c.id}, name : {c.name}, args : {c.args}]

ASSUME ThreadsAssumption ==
    /\ Limit \in Nat /\ AnswerSizes \subseteq Nat /\ MaxRequests \in Nat /\ MaxRounds \in Nat
    /\ Absent # Cut
    /\ "onboarding" \notin Contexts \* the text of a prompt of the plugin
    /\ \A reply \in Replies :
         /\ IsSeq(reply.calls) /\ \A i \in DOMAIN reply.calls : IsToolCall(reply.calls[i])
         /\ reply.by \in {"stream", "fallback", "empty"}

Phases == {"slash", "asking", "sending", "calling", "fixing",
           "saving", "writing", "reading", "listing", "ending"}
Idle == [phase |-> "idle"]

IsSystem(m) == m.role = "system"
Regular(ms) == Kept(ms, { i \in DOMAIN ms : ~IsSystem(ms[i]) })
Systems(ms) == Kept(ms, { i \in DOMAIN ms : IsSystem(ms[i]) })

Weight(ms) == FoldSeq(LAMBDA m, n : m.w + n, 0, ms)
TooLong(ms) == Weight(ms) > Limit

\* The longest end of ms that fits the room, if only the empty one.
LastThatFit(ms, room) ==
    LET fits == { k \in 1..Len(ms) : Weight(SubSeq(ms, k, Len(ms))) <= room } \cup {Len(ms) + 1}
        first == CHOOSE k \in fits : \A j \in fits : k <= j
    IN  SubSeq(ms, first, Len(ms))

\* Mutant: the oldest messages stay.
TrimmedAtTheEnd(ms) ==
    IF ~TooLong(ms) THEN ms
    ELSE Systems(ms)
         \o Reverse(LastThatFit(Reverse(Regular(ms)), Limit - Weight(Systems(ms))))

\* trim_messages: the system messages and the newest others.
Trimmed(ms) ==
    IF ~TooLong(ms) THEN ms
    ELSE Systems(ms) \o LastThatFit(Regular(ms), Limit - Weight(Systems(ms)))

\* ... which fails when the system messages alone are too long.
CanTrim(ms) == TooLong(ms) => ~TooLong(Systems(ms))

Init ==
    /\ threads = [t \in Threads |-> Absent]
    /\ summary = <<>>
    /\ memories = FALSE
    /\ req = [s \in Slots |-> Idle]
    /\ asked = 0
    /\ rounds = 0
    /\ kept = [t \in Threads |-> <<>>]
    /\ broken = FALSE
------------------------------------------------------------------------------
\* Mutant: the system message is added beside the old one.
LoadedBeside(file, ctx) ==
    [NewSession({}, TRUE, file.title = NoTitle) EXCEPT !.messages =
        (IF ctx = NoContext THEN <<>> ELSE <<SystemMessage(<<ctx>>)>>) \o file.messages]

\* load_existing_thread: another context than the first system message, which
\* holds more than the context when the thread was new, replaces them all.
Loaded(file, ctx) ==
    LET old == Systems(file.messages)
        same == ctx = NoContext \/ (old # <<>> /\ Head(old).text = <<ctx>>)
    IN  [NewSession({}, TRUE, file.title = NoTitle) EXCEPT !.messages =
            IF same THEN file.messages
            ELSE <<SystemMessage(<<ctx>>)>> \o Regular(file.messages)]

\* The messages of a new user and of a new thread.
Onboarding == IF memories THEN <<>> ELSE <<SystemMessage(<<"onboarding">>)>>
NewContext(ctx) ==
    IF ctx = NoContext THEN <<>> ELSE <<SystemMessage(<<ctx, "memories", "time">>)>>

\* initialize_chat_session: a thread that does not exist is a new one.  Without
\* an id in the request it gets a fresh one.  One that is cut cannot be read.
Begin(s, t, given, ctx, slash) ==
    /\ req[s] = Idle
    /\ asked < MaxRequests
    /\ threads[t] # Cut
    /\ ~given => threads[t] = Absent /\ \A o \in Slots : req[o] # Idle => req[o].thread # t
    /\ LET new == threads[t] = Absent
           base == IF new THEN NewSession({}, TRUE, TRUE) ELSE Loaded(threads[t], ctx)
           added == Onboarding \o IF new THEN NewContext(ctx) ELSE <<>>
       IN  req' = [req EXCEPT ![s] =
              [phase |-> IF slash THEN "slash" ELSE "asking", thread |-> t, context |-> ctx,
               session |-> [base EXCEPT !.messages = @ \o added],
               idx |-> 0, todo |-> <<>>, trimmed |-> FALSE,
               sse |-> NoEvents, by |-> "none", seen |-> <<>>, turn |-> <<>>]]
    /\ asked' = asked + 1
    /\ memories' = TRUE
    /\ UNCHANGED <<threads, summary, rounds, kept, broken>>

\* Slot s goes on as next.
Changes(s, next) ==
    /\ req' = [req EXCEPT ![s] = next]
    /\ UNCHANGED <<threads, summary, memories, asked, kept, broken>>

Becomes(s, next) == Changes(s, next) /\ UNCHANGED rounds

\* A slash command's output is a message of the user.
SlashCommand(s) ==
    /\ req[s].phase = "slash"
    /\ Becomes(s, [req[s] EXCEPT !.phase = "asking", !.turn = <<UserMessage("slash")>>,
                                 !.session = AddMessage(@, UserMessage("slash"))])

\* The session with its messages trimmed, about to be sent; added is what the
\* request has just added.
SendsTrimmed(s, session, idx, added) ==
    /\ CanTrim(session.messages)
    /\ LET ms == Trimmed(session.messages)
       IN  Becomes(s, [req[s] EXCEPT !.phase = "sending",
                           !.session = SetMessages(session, ms),
                           !.idx = IF idx = 0 THEN Len(ms) ELSE idx,
                           !.trimmed = @ \/ TooLong(session.messages),
                           !.turn = @ \o added])

\* process_user_message; pre_tool_call_idx is taken here.
Ask(s) ==
    /\ req[s].phase = "asking"
    /\ SendsTrimmed(s, AddMessage(req[s].session, UserMessage("question")), 0,
                    <<UserMessage("question")>>)

\* send, and the head of the loop of process_chat_with_tool_calls.
Receive(s, reply) ==
    /\ req[s].phase = "sending"
    /\ reply.tools => rounds < MaxRounds
    /\ rounds' = IF reply.tools THEN rounds + 1 ELSE rounds
    /\ \E title \in TitlesAfter(req[s].session) :
         Changes(s, [req[s] EXCEPT !.phase = IF reply.tools THEN "calling" ELSE "saving",
                         !.session = Received(@, title, reply),
                         !.turn = @ \o ReplyMessages(reply),
                         !.todo = reply.calls, !.by = reply.by,
                         !.sse = Answered(req[s].session, @, reply)])

\* The call at the head of todo is answered.
AnswersCall(s, session, w) ==
    LET answer == ToolAnswer(Head(req[s].todo), w)
    IN  Becomes(s, [req[s] EXCEPT !.phase = "calling", !.todo = Tail(@),
                        !.turn = Append(@, answer), !.session = AddMessage(session, answer)])

Calling(s) == req[s].phase = "calling" /\ req[s].todo # <<>>

\* process_meta_tool_getter.
GetTools(s) ==
    /\ Calling(s)
    /\ Head(req[s].todo).name = "get_tools_for"
    /\ AnswersCall(s, AddTool(req[s].session, "plugin"), 1)

\* process_regular_tool_call: what the plugin returns, or its error as text.
CallTool(s) ==
    /\ Calling(s)
    /\ Head(req[s].todo).name = "plugin"
    /\ \E w \in AnswerSizes : AnswersCall(s, req[s].session, w)

\* ... but for an error about JSON, which a fork of the session is asked to fix.
CallNeedsFix(s) ==
    /\ Calling(s)
    /\ Head(req[s].todo).name = "plugin"
    /\ Becomes(s, [req[s] EXCEPT !.phase = "fixing"])

\* What fix_tool_call sends.
Fork(s) ==
    LET fork == SetStreaming(RemoveAllTools(SetResponseSchema(
                    ForkAt(req[s].session, req[s].idx))), FALSE)
    IN  AddMessage(fork, Message("assistant", <<"fix">>, 1, <<>>, 0))

\* The newest message with a call of that id gets the fixed arguments.
WithFixedCall(ms, id) ==
    LET has == { i \in DOMAIN ms : \E c \in ToSet(ms[i].calls) : c.id = id }
        at == CHOOSE i \in has : \A j \in has : j <= i
        fix(c) == IF c.id = id THEN [c EXCEPT !.args = "fixed"] ELSE c
    IN  IF has = {} THEN ms
        ELSE [ms EXCEPT ![at].calls = [k \in DOMAIN @ |-> fix(@[k])]]

\* The plugin is called again, and this answer is final.
FixTool(s) ==
    /\ req[s].phase = "fixing"
    /\ \E w \in AnswerSizes :
         AnswersCall(s, SetMessages(req[s].session,
             WithFixedCall(req[s].session.messages, Head(req[s].todo).id)), w)

\* The loop of process_chat_with_tool_calls comes to its send.
SendAnswers(s) ==
    /\ req[s].phase = "calling"
    /\ req[s].todo = <<>>
    /\ SendsTrimmed(s, req[s].session, req[s].idx, <<>>)
------------------------------------------------------------------------------
\* save_thread_data.
OpenThread(s) ==
    /\ req[s].phase = "saving"
    /\ threads' = [threads EXCEPT ![req[s].thread] = Cut]
    /\ req' = [req EXCEPT ![s].phase = "writing"]
    /\ UNCHANGED <<summary, memories, asked, rounds, kept, broken>>

WriteThread(s) ==
    /\ req[s].phase = "writing"
    /\ LET session == req[s].session
       IN  /\ threads' = [threads EXCEPT ![req[s].thread] =
                             [title |-> session.title, messages |-> session.messages]]
           /\ kept' = [kept EXCEPT ![req[s].thread] = session.messages]
    /\ req' = [req EXCEPT ![s].phase = "reading"]
    /\ UNCHANGED <<summary, memories, asked, rounds, broken>>

\* update_thread_summary: a list that does not parse is an empty one.
ReadSummary(s) ==
    /\ req[s].phase = "reading"
    /\ Becomes(s, [req[s] EXCEPT !.phase = "listing",
                                 !.seen = IF summary = Cut THEN <<>> ELSE summary])

OpenSummary(s) ==
    /\ req[s].phase = "listing"
    /\ summary' = Cut
    /\ req' = [req EXCEPT ![s].phase = "ending"]
    /\ UNCHANGED <<threads, memories, asked, rounds, kept, broken>>

\* Mutant: the thread is only put on the list when it is not there yet.
ListedOnce(seen, t, title) ==
    [u \in DOMAIN seen \cup {t} |-> IF u \in DOMAIN seen THEN seen[u] ELSE title]

Listed(seen, t, title) ==
    [u \in DOMAIN seen \cup {t} |-> IF u = t THEN title ELSE seen[u]]

WriteSummary(s) ==
    /\ req[s].phase = "ending"
    /\ summary' = Listed(req[s].seen, req[s].thread, req[s].session.title)
    /\ req' = [req EXCEPT ![s] = Idle]
    /\ UNCHANGED <<threads, memories, asked, rounds, kept, broken>>

Fail(s) ==
    /\ req[s].phase \in Phases
    /\ req' = [req EXCEPT ![s] = Idle]
    /\ broken' = (broken \/ req[s].phase \in {"writing", "reading", "listing", "ending"})
    /\ UNCHANGED <<threads, summary, memories, asked, rounds, kept>>

Next ==
    \E s \in Slots :
        \/ \E t \in Threads, ctx \in Contexts, given, slash \in BOOLEAN :
             Begin(s, t, given, ctx, slash)
        \/ SlashCommand(s) \/ Ask(s)
        \/ \E reply \in Replies : Receive(s, reply)
        \/ GetTools(s) \/ CallTool(s) \/ CallNeedsFix(s) \/ FixTool(s) \/ SendAnswers(s)
        \/ OpenThread(s) \/ WriteThread(s) \/ ReadSummary(s) \/ OpenSummary(s) \/ WriteSummary(s)
        \/ Fail(s)

Spec == Init /\ [][Next]_vars
------------------------------------------------------------------------------
Busy(s) == req[s] # Idle
Quiet == \A s \in Slots : ~Busy(s)

\* The calls of a message are answered right after it, in their order.
Answered1(ms, i) ==
    \A k \in DOMAIN ms[i].calls :
        /\ i + k <= Len(ms)
        /\ ms[i + k].role = "tool"
        /\ ms[i + k].for = ms[i].calls[k].id

\* A tool answer stands where its call is, or, once older messages were
\* trimmed away, before all other messages but those of the system.
StandsWell(ms, i) ==
    ms[i].role = "tool" =>
        \/ \E c \in 1..i - 1 : i - c \in DOMAIN ms[c].calls
        \/ \A j \in 1..i : ms[j].role \in {"system", "tool"}

WellFormed(ms) == \A i \in DOMAIN ms : Answered1(ms, i) /\ StandsWell(ms, i)

(* Whatever is trimmed, fixed and loaded again, every call in what the model  *)
(* is sent is answered, in place: a service refuses anything else.  The same  *)
(* holds of the fork that fixes a call, as long as this request has trimmed   *)
(* nothing: afterwards pre_tool_call_idx points elsewhere.  An answer whose   *)
(* call was trimmed away (message_utils.rs:62) is let pass, see StandsWell.   *)
CallsAreAnswered ==
    \A s \in Slots :
        /\ req[s].phase = "sending" => WellFormed(req[s].session.messages)
        /\ req[s].phase = "fixing" /\ ~req[s].trimmed => WellFormed(Fork(s).messages)

(* The fork that fixes a call is one the service accepts, also after a trim   *)
(* in the same request (refuted in MCChatThreadsFork.cfg).                    *)
ForksAreAnswered ==
    \A s \in Slots : req[s].phase = "fixing" => WellFormed(Fork(s).messages)

(* What is sent has no answer without its call: refuted, trimming takes the   *)
(* newest messages by their size and may cut between the two.                 *)
AnswersHaveCalls ==
    \A s \in Slots :
        req[s].phase = "sending" =>
            LET ms == req[s].session.messages
            IN  \A i \in DOMAIN ms :
                    ms[i].role = "tool" => \E c \in 1..i - 1 : i - c \in DOMAIN ms[c].calls

(* A request that brings a context sends that one, and no older one, however  *)
(* often the thread was saved with others and trimmed in between.             *)
ContextIsCurrent ==
    \A s \in Slots :
        req[s].phase = "sending" /\ req[s].context # NoContext =>
            LET sent == Systems(req[s].session.messages)
                contexts == { i \in DOMAIN sent : Head(sent[i].text) # "onboarding" }
            IN  \E i \in contexts : contexts = {i} /\ Head(sent[i].text) = req[s].context

\* [DONE] comes once, after the last answer, if that came by the stream.
EndsOnce(q) ==
    /\ ~q.sse.late
    /\ q.phase \in {"saving", "writing", "reading", "listing", "ending"} =>
           IF q.by = "stream" THEN q.sse.done = 1 ELSE q.sse.done = 0 /\ q.sse.error
    /\ q.phase \in {"calling", "fixing"} => q.sse.done = 0

(* The browser is told [DONE] once, with the last answer and never before it, *)
(* unless that answer did not come by the stream; then it was told an error.  *)
(* This is of the requests whose streams all came whole.                      *)
StreamEndsOnce ==
    \A s \in Slots :
        Busy(s) /\ ~req[s].sse.odd => EndsOnce(req[s])

(* The same of every request, which is refuted: a stream without a choice is  *)
(* told [DONE] of before the answer is asked for again (llm.rs:493, :543),    *)
(* one that lost its finish_reason is told [DONE] of and followed by tools,   *)
(* and one that lost its calls is not told [DONE] of at all.                  *)
EveryStreamEndsOnce == \A s \in Slots : Busy(s) => EndsOnce(req[s])

(* When nothing is under way and no request ended between two writes, the     *)
(* list names exactly the threads that have a file, with the same titles.     *)
SummaryTellsThreads ==
    Quiet /\ ~broken =>
        /\ DOMAIN summary = { t \in Threads : threads[t] # Absent }
        /\ \A t \in DOMAIN summary : summary[t] = threads[t].title

\* The messages but for their arguments, which a fix changes.
Outline(ms) ==
    [i \in DOMAIN ms |-> [ms[i] EXCEPT !.calls = [k \in DOMAIN @ |-> @[k].id]]]

\* The thread is not saved, or its turn is at the end of what was saved of it.
SavesTurn(s) ==
    LET t == req[s].thread
        whole == Outline(Regular(kept[t]) \o req[s].turn)
        saved == Outline(Regular(kept'[t]))
    IN  kept'[t] # kept[t] =>
            IF req[s].trimmed THEN IsSuffix(saved, whole) ELSE saved = whole

(* Saving a thread adds the whole turn to what was last saved of it, and      *)
(* loses nothing but the oldest messages of a conversation that is too long.  *)
SavingKeepsHistory ==
    [][\A s \in Slots : Busy(s) /\ req[s].phase = "writing" => SavesTurn(s)]_vars

(* A thread that has a title on the list keeps one ("Get updated title if     *)
(* available", thread_storage.rs:19), which is refuted.                        *)
TitlesStay ==
    \A s \in Slots :
        req[s].phase = "listing" /\ req[s].thread \in DOMAIN req[s].seen =>
            (req[s].seen[req[s].thread] = SomeTitle => req[s].session.title = SomeTitle)
==============================================================================
