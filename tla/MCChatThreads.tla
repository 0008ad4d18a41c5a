---------------------------- MODULE MCChatThreads ----------------------------
(* Replies with no, one and two calls; ids are used again in every reply.     *)
(* Three streams are not whole: no choice came with one, the calls of one and *)
(* the finish_reason of one are lost.                                         *)
EXTENDS ChatThreads, TLC

CONSTANTS t1, t2, s1, s2

Call(id, name) == [id |-> id, name |-> name, args |-> "sent"]

Calls(cs) == Reply(<<>>, TRUE, cs, TRUE, "stream")

MCReplies ==
    {Reply(<<"text">>, FALSE, <<>>, FALSE, "stream"),
     Reply(<<"text">>, FALSE, <<>>, FALSE, "fallback"),
     Reply(<<"text">>, FALSE, <<>>, FALSE, "empty"),
     Reply(<<>>, FALSE, <<>>, TRUE, "stream"),
     Reply(<<>>, TRUE, <<Call(1, "get_tools_for")>>, FALSE, "stream"),
     Calls(<<>>),
     Calls(<<Call(1, "plugin"), Call(2, "plugin")>>)}

MCThreads == {t1, t2}
MCContexts == {"a", "b"}
MCAnswerSizes == {1, 4}
Swap == Permutations(MCThreads)
==============================================================================
