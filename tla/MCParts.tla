------------------------------- MODULE MCParts -------------------------------
(****************************************************************************)
(* Parts that share nothing: one run of a pipeline, the clock of a daemon,  *)
(* the stream of an answer and the tools of plugins.  A behaviour is one of *)
(* one part, the others stay in an initial state.                           *)
(****************************************************************************)
EXTENDS PipelineRun, DaemonSchedule, MessageStream, VectorTables, MdChunker,
        JsonManipulator, EnvVars

VARIABLE part

MCSymmetry == Permutations(Plugins) \cup Permutations(Organizations)

\* Every pipeline of up to four stages, at most three deep and three wide.
Paths == UNION { [1..n -> 0..2] : n \in 1..3 }

\* The stages are numbered without gaps below a parent that is a stage.
IsForest(S) ==
    \A p \in S : /\ Len(p) > 1 => Front(p) \in S
                 /\ Last(p) > 0 => Append(Front(p), Last(p) - 1) \in S

\* Every forest of n + 1 stages is one of n stages and a leaf.
Grown(forests) ==
    { T \in { S \cup {p} : S \in forests, p \in Paths } : T \notin forests /\ IsForest(T) }

Zero == {{}}
One == Grown(Zero)
Two == Grown(One)
Three == Grown(Two)
Four == Grown(Three)

\* Each stage selects nothing, any one position, or by wildcard any top stage.
AnyTop == { <<i>> : i \in 0..2 }
Wants(S) == [S -> {{}, {AnyTop}} \cup { {{p}} : p \in S \cup {Input} }]

MCNoConstructor == {{<<9>>}}

\* Without one, an empty one, one of two targets, one that selects a stage.
Constructors(S) == {MCNoConstructor, {}, {AnyTop, {Input}}} \cup { {{p}} : p \in S }

Pipes(forests, constructors(_)) ==
    UNION { [stages : {S}, wants : Wants(S), constructor : constructors(S)] : S \in forests }

Small == Pipes(Zero \cup One \cup Two \cup Three, Constructors)
NoneOf(S) == {MCNoConstructor}
Large == Pipes(Four, NoneOf)

MCPipelines == Small \cup Large

\* Requests to the vector store.
row(id, body, n) == [id |-> Text(id), body |-> Text(body), n |-> n]

AddRows(rows, key, upsert, create) ==
    [action |-> "add_rows", rows |-> rows, key |-> key, upsert |-> upsert, create |-> create]

MCRequests ==
    {AddRows(<<row("a", "x", Number(1)), row("b", "y", Number(-1))>>, "body", "id", TRUE),
     AddRows(<<row("a", "z", Number(2))>>, "body", "", TRUE),
     AddRows(<<[id |-> Text("a"), more |-> Text("w")]>>, "id", "", TRUE),
     AddRows(<<row("c", "x", Flag(TRUE))>>, "body", "id", TRUE),
     AddRows(<<[id |-> Text("a"), body |-> Number(1)]>>, "body", "", TRUE),
     AddRows(<<>>, "body", "", TRUE),
     [action |-> "add_columns", columns |-> <<<<Text("c")>>, <<Text("v")>>>>, embed |-> 2,
      names |-> <<"id", "body">>, upsert |-> "", create |-> TRUE, key |-> ""],
     [action |-> "create_table", schema |-> <<Field("id", "utf8"), Field("vector", "vector"), Field("body", "utf8")>>]}

\* Documents.
MCSettings == {[target |-> 6, min |-> 3, gap |-> g] : g \in {0, 1}}

\* Requests to the manipulator.
item(id, k) == Obj([id |-> Num(id), k |-> k])
MCInputs ==
    {Arr(items) : items \in
       {<<item(1, x), item(2, y), item(3, z)>> : x, y, z \in {Num(1), Num(2), Str("1"), Str("b"), Bool(TRUE)}}
       \cup {<<item(1, Num(1)), Obj([id |-> Num(2)]), item(3, Num(1))>>}}
    \cup {Obj([list |-> Arr(<<item(1, Num(1)), item(2, Num(1))>>), to |-> Obj([x |-> Num(1)])])}

Op(type, source) == [type |-> type, source |-> source]
All == <<"*">>
MCOperations ==
    {Op("select", All), Op("select", <<"list", "*">>), Op("count", All),
     [type |-> "join", source |-> <<"list", "*", "k">>, target |-> <<"to", "there">>, delimiter |-> ", "],
     [type |-> "join", source |-> <<"*", "k">>, target |-> <<>>, delimiter |-> ", "],
     [type |-> "join", source |-> <<"*", "*">>, target |-> <<>>, delimiter |-> ", "],
     [type |-> "merge", source |-> <<"list", "*">>, target |-> <<"to">>],
     [type |-> "merge", source |-> All, target |-> All],
     [type |-> "extract", source |-> All, key |-> "k"],
     [type |-> "group", source |-> All, key |-> "k"],
     [type |-> "transform", source |-> All, value |-> <<[key |-> "k", text |-> ""], [key |-> "none", text |-> ""]>>],
     [type |-> "transform", source |-> All, value |-> <<[key |-> "k", text |-> ""]>>],
     [type |-> "format", source |-> <<>>, key |-> "list"]}
    \cup {[type |-> "sort", source |-> All, key |-> "k", ascending |-> b] : b \in BOOLEAN}
    \cup {[type |-> "filter", source |-> All, condition |-> [field |-> "k", operator |-> o, threshold |-> t]] :
            o \in {">", "<", "==", "!="}, t \in {Num(1), Str("b"), Bool(TRUE)}}
MCKnown == {Num(1), Num(2), Bool(TRUE)}
MCAlphabet == <<"1", "2", "TRUE", "b">>
------------------------------------------------------------------------------
Init ==
    /\ part \in {"run", "schedule", "stream", "vector", "chunker", "json", "env"}
    /\ IF part = "run" THEN RunInit
       ELSE /\ pipeline = [stages |-> {}, wants |-> <<>>, constructor |-> NoConstructor]
            /\ todo = <<>> /\ phase = "calling" /\ acc = <<>> /\ inputs = <<>> /\ result = {}
    /\ ScheduleInit
    /\ StreamInit
    /\ VectorInit
    /\ IF part = "chunker" THEN ChunkerInit
       ELSE md = <<>> /\ settings = CHOOSE s \in Settings : TRUE
    /\ IF part = "json" THEN JsonInit
       ELSE data = (CHOOSE v \in Inputs : TRUE) /\ steps = <<>>
    /\ IF part = "env" THEN EnvInit
       ELSE /\ own = [plugin |-> "none", named |-> FALSE]
            /\ org = [o \in Organizations |->
                        [role |-> 0, env |-> [plugin |-> "none", pluginMin |-> 0, min |-> 0]]]
            /\ ids = <<>> /\ run = NoRun /\ constant = {} /\ changes = 0

Next ==
    /\ UNCHANGED part
    /\ \/ part = "run" /\ RunNext
       \/ part # "run" /\ UNCHANGED runVars
    /\ \/ part = "schedule" /\ ScheduleNext
       \/ part # "schedule" /\ UNCHANGED scheduleVars
    /\ \/ part = "stream" /\ StreamNext
       \/ part # "stream" /\ UNCHANGED streamVars
    /\ \/ part = "vector" /\ VectorNext
       \/ part # "vector" /\ UNCHANGED vectorVars
    /\ \/ part = "chunker" /\ ChunkerNext
       \/ part # "chunker" /\ UNCHANGED chunkerVars
    /\ \/ part = "json" /\ JsonNext
       \/ part # "json" /\ UNCHANGED jsonVars
    /\ \/ part = "env" /\ EnvNext
       \/ part # "env" /\ UNCHANGED envVars

Spec ==
    Init /\ [][Next]_<<part, runVars, scheduleVars, streamVars, vectorVars, chunkerVars,
                      jsonVars, envVars>>
==============================================================================
