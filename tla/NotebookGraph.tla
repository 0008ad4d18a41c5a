---------------------------- MODULE NotebookGraph ----------------------------
(****************************************************************************)
(* The notebook plugin (plugins/apps/nb-one): a graph of intents that the   *)
(* language model walks and extends.  A request works on a copy of the      *)
(* graph, the rows of the vector store are changed at once, and only a      *)
(* request that comes to its end saves its thread and then its graph.       *)
(* Paths below are relative to plugins/apps/nb-one/src.                     *)
(*                                                                          *)
(* A thread is its current_node: its messages go the way of ChatThreads,    *)
(* and nothing reads its graph_traces.  A file is CutFile while it is       *)
(* written.  FailVisit is an error, a trap or a stop of the server.         *)
(****************************************************************************)
EXTENDS Selections, SequencesExt, FiniteSetsExt

CONSTANTS
    Visitors,     \* requests under way at a time
    ThreadIds,    \* ids of threads
    MaxVisits,    \* bound: requests in a behaviour
    MaxReplies,   \* bound: replies with a call in a behaviour
    MaxMade,      \* bound: nodes made in a behaviour
    MaxPath,      \* bound: nodes of a new path
    NoFile, CutFile   \* a file that is not there, one whose write is under way

VARIABLES
    dag,           \* intent_dag.json: a graph, NoFile or CutFile
    rows,          \* table "nodes" of nb_data: node_idx -> what it describes
    current_node,  \* of thread-<id>.json, or NoFile or CutFile
    visit,         \* visitor -> request
    came,          \* requests so far
    replies,       \* replies with a call so far
    made,          \* nodes made so far, which names them
    failed,        \* history: a request has ended before its end
    torn           \* history: ... in the middle of writing files

notebookVars == <<dag, rows, current_node, visit, came, replies, made, failed, torn>>

\* daggy::Dag: nodes[i + 1] is the node of index i, a kind and a name; an edge
\* is a pair of indices at its place.
NodeKinds == {"root", "directive", "intention", "tool"}
GraphType == [nodes : Seq(NodeKinds \X Nat), edges : Seq(Nat \X Nat)]

ASSUME NotebookAssumption ==
    /\ {MaxVisits, MaxReplies, MaxMade, MaxPath} \subseteq Nat
    /\ NoFile # CutFile
    /\ {NoFile, CutFile} \cap GraphType = {}

Away == [phase |-> "idle"]
Whole(file) == file \notin {NoFile, CutFile}
------------------------------------------------------------------------------
Nodes(g) == 0..Len(g.nodes) - 1
NodeAt(g, i) == g.nodes[i + 1]

EdgesFrom(g, a) == Kept(g.edges, { i \in DOMAIN g.edges : g.edges[i][1] = a })

\* The walks that go on from these by one edge.
GoOn(g, w) ==
    LET out == EdgesFrom(g, Last(w)) IN [i \in DOMAIN out |-> Append(w, out[i][2])]
Longer(g, walks) == FlattenSeq([i \in DOMAIN walks |-> GoOn(g, walks[i])])

\* The walks from a of up to k edges, by length; in an acyclic graph they are
\* simple.  Two edges between the same nodes give the same walk twice.
Walks(g, a, k) ==
    LET Of[n \in 0..k] == IF n = 0 THEN << <<a>> >> ELSE Longer(g, Of[n - 1])
    IN  FlattenSeq([n \in 1..k |-> Of[n]])

\* These nodes and where their edges lead; the nodes that can be reached from a.
Onward(g, S) == S \cup { e[2] : e \in { f \in ToSet(g.edges) : f[1] \in S } }
Below(g, a) ==
    LET Step[n \in 0..Len(g.nodes)] == IF n = 0 THEN {a} ELSE Onward(g, Step[n - 1])
    IN  Step[Len(g.nodes)]

\* add_edge refuses a cycle and panics on a node that is not there.
CanAddEdge(g, a, b) == {a, b} \subseteq Nodes(g) /\ a \notin Below(g, b)

AddNode(g, node) == [g EXCEPT !.nodes = Append(@, node)]
AddEdge(g, a, b) == [g EXCEPT !.edges = Append(@, <<a, b>>)]

\* The last one takes the place of what is removed.
SwapRemoved(s, i) == [j \in 1..Len(s) - 1 |-> IF j = i THEN Last(s) ELSE s[j]]
RemoveEdge(g, e) == [g EXCEPT !.edges = SwapRemoved(@, e)]
RemoveNode(g, a) ==
    LET end == Len(g.nodes) - 1
        Moved(i) == IF i = end THEN a ELSE i
        kept == Kept(g.edges,
                       { i \in DOMAIN g.edges : a \notin {g.edges[i][1], g.edges[i][2]} })
    IN  [nodes |-> SwapRemoved(g.nodes, a + 1),
         edges |-> [i \in 1..Len(kept) |-> <<Moved(kept[i][1]), Moved(kept[i][2])>>]]

\* find_edge: of several the latest.
FindEdge(g, a, b) == Max({ e \in 1..Len(g.edges) : g.edges[e] = <<a, b>> })
------------------------------------------------------------------------------
RootIntention == <<"root", 0>>
BuildGraph == <<"directive", 1>>
BuildMemory == <<"directive", 2>>
FirstGraph == [nodes |-> <<RootIntention, BuildGraph, BuildMemory>>,
               edges |-> << <<0, 1>>, <<1, 2>> >>]
Top == 2   \* where a thread begins, and jumps back to

NotebookInit ==
    /\ dag = NoFile
    /\ rows = <<>>
    /\ current_node = [t \in ThreadIds |-> NoFile]
    /\ visit = [s \in Visitors |-> Away]
    /\ came = 0 /\ replies = 0 /\ made = 0
    /\ failed = FALSE /\ torn = FALSE

\* init_graph: a graph that is cut cannot be read; without one nb_data goes.
BeginVisit(s, t) ==
    /\ visit[s] = Away
    /\ came < MaxVisits
    /\ dag # CutFile
    /\ came' = came + 1
    /\ visit' = [visit EXCEPT ![s] =
          [phase |-> IF dag = NoFile THEN "founding" ELSE "opening", thread |-> t,
           dag |-> dag, current |-> 0, options |-> <<>>, listed |-> <<>>,
           path |-> <<>>, left |-> 0, at |-> 0, before |-> <<>>, astray |-> FALSE]]
    /\ dag' = IF dag = NoFile THEN CutFile ELSE dag
    /\ rows' = IF dag = NoFile THEN <<>> ELSE rows
    /\ UNCHANGED <<current_node, replies, made, failed, torn>>

Found(s) ==
    /\ visit[s].phase = "founding"
    /\ dag' = FirstGraph
    /\ rows' = [i \in Nodes(FirstGraph) |-> NodeAt(FirstGraph, i)]
    /\ visit' = [visit EXCEPT ![s].phase = "opening", ![s].dag = FirstGraph]
    /\ UNCHANGED <<current_node, came, replies, made, failed, torn>>

\* initialize_chat_session saves a new thread at once.
OpenNewThread(s) ==
    /\ visit[s].phase = "opening"
    /\ current_node[visit[s].thread] = NoFile
    /\ current_node' = [current_node EXCEPT ![visit[s].thread] = CutFile]
    /\ visit' = [visit EXCEPT ![s].phase = "beginning"]
    /\ UNCHANGED <<dag, rows, came, replies, made, failed, torn>>

WriteNewThread(s) ==
    /\ visit[s].phase = "beginning"
    /\ current_node' = [current_node EXCEPT ![visit[s].thread] = 0]
    /\ visit' = [visit EXCEPT ![s].phase = "opening"]
    /\ UNCHANGED <<dag, rows, came, replies, made, failed, torn>>
------------------------------------------------------------------------------
\* A walk as the edges between its nodes.
EdgesOf(g, walk) == [i \in 1..Len(walk) - 1 |-> FindEdge(g, walk[i], walk[i + 1])]

Edgewise(g, walks) == [i \in DOMAIN walks |-> EdgesOf(g, walks[i])]

ChildPaths(g, a) == Edgewise(g, Walks(g, a, 1))

WalksTo(walks, b) == Kept(walks, { i \in DOMAIN walks : Last(walks[i]) = b })

\* get_parent_paths: up to three edges, the nodes with the flag root left out.
ParentPaths(g, a) ==
    LET from == [i \in 1..Len(g.nodes) - 3 |-> Walks(g, Top + i, 3)]
    IN  Edgewise(g, WalksTo(FlattenSeq(from), a))

\* path_traversal_options: of the paths to a goal the first three; they come
\* in an order of their own.
TraversalOptions(g, a, goals) ==
    LET walks == Walks(g, a, Len(g.nodes))
        To(b) == LET all == WalksTo(walks, b)
                 IN  SubSeq(all, 1, Min({3, Len(all)}))
        toGoals == [i \in DOMAIN g.nodes |-> IF i - 1 \in goals THEN To(i - 1) ELSE <<>>]
    IN  Edgewise(g, FlattenSeq(toGoals)) \o ChildPaths(g, a) \o ParentPaths(g, a)

\* embedding_options and process_message up to its first send: the search
\* may find any rows; a thread at the root first goes to Top.
Search(s, goals) ==
    /\ visit[s].phase = "opening"
    /\ current_node[visit[s].thread] \notin {NoFile, CutFile}
    /\ goals \subseteq DOMAIN rows
    /\ LET was == current_node[visit[s].thread]
           now == IF was = 0 THEN Top ELSE was
           options == TraversalOptions(visit[s].dag, now, goals \ {was})
       IN  /\ now \in Nodes(visit[s].dag) \/ goals \subseteq {was}
           /\ visit' = [visit EXCEPT ![s].phase = "asking", ![s].current = now,
                                     ![s].options = options, ![s].listed = options]
    /\ UNCHANGED <<dag, rows, current_node, came, replies, made, failed, torn>>

\* The reply is a call; its answer is sent and the next reply awaited.
Goes(s, next) ==
    /\ replies < MaxReplies
    /\ replies' = replies + 1
    /\ visit' = [visit EXCEPT ![s] = next]
    /\ UNCHANGED <<dag, rows, current_node, came, made, failed, torn>>

Asking(s) == visit[s].phase = "asking"

\* A sub-intention lists its children, everything else lists nothing new.
ListedAt(s, a) ==
    IF NodeAt(visit[s].dag, a)[1] = "intention"
    THEN ChildPaths(visit[s].dag, a) ELSE visit[s].listed

\* choose_path: the options are those of the beginning of the request, and the
\* walk first goes to where the path starts.  An index of exactly Len(options)
\* is an error, and so may a tool be: Fail.
ChoosePath(s, i) ==
    /\ Asking(s)
    /\ i \in DOMAIN visit[s].options
    /\ LET path == visit[s].options[i]
           end == visit[s].dag.edges[Last(path)][2]
       IN  Goes(s, [visit[s] EXCEPT !.current = end, !.listed = ListedAt(s, end),
                        !.astray = i \in DOMAIN visit[s].listed /\ visit[s].listed[i] # path])

\* An index beyond that is told so.
OutOfRange(s) ==
    /\ Asking(s)
    /\ visit[s].current \in Nodes(visit[s].dag)
    /\ Goes(s, [visit[s] EXCEPT !.listed = ListedAt(s, visit[s].current)])

\* plan_path, and a call of anything else: a text.
Told(s) == Asking(s) /\ Goes(s, visit[s])

ConnectToNode(s, b) ==
    /\ Asking(s)
    /\ CanAddEdge(visit[s].dag, visit[s].current, b)
    /\ Goes(s, [visit[s] EXCEPT !.dag = AddEdge(@, visit[s].current, b), !.current = b])

\* Mutant: to the node that holds the root intention.
RootOfJump == 0

JumpTarget == Top

JumpToRoot(s) ==
    /\ Asking(s)
    /\ Goes(s, [visit[s] EXCEPT !.current = JumpTarget,
                    !.listed = ChildPaths(visit[s].dag, JumpTarget)
                               \o ParentPaths(visit[s].dag, JumpTarget)])
------------------------------------------------------------------------------
\* create_new_path: a new path of k nodes begins at the current one.
Making(s, k) ==
    Goes(s, [visit[s] EXCEPT !.phase = "making", !.left = k, !.path = <<>>,
                 !.at = visit[s].current,
                 !.before = <<visit[s].dag, visit[s].current>>])

CreateNewPath(s, k) == Asking(s) /\ Making(s, k)

RowsWith(i, node) == [j \in DOMAIN rows \cup {i} |-> IF j = i THEN node ELSE rows[j]]

\* CreateNewNode: the row is written before the edge is made; a row of that
\* index is replaced.
CreateNewNode(s, kind, fails) ==
    /\ visit[s].phase = "making"
    /\ visit[s].left > 0
    /\ made < MaxMade
    /\ LET node == <<kind, made + 1>>
           new == Len(visit[s].dag.nodes)
           grown == AddNode(visit[s].dag, node)
           edge == Len(grown.edges) + 1
       IN  /\ made' = made + 1
           /\ rows' = RowsWith(new, node)
           /\ ~CanAddEdge(grown, visit[s].at, new) => fails
           /\ visit' = [visit EXCEPT ![s] =
                  IF fails THEN Away
                  ELSE [visit[s] EXCEPT !.dag = AddEdge(grown, visit[s].at, new), !.at = new,
                                 !.left = @ - 1, !.path = Append(@, edge)]]
           /\ failed' = (failed \/ fails)
    /\ UNCHANGED <<dag, current_node, came, replies, torn>>

Made(s) == visit[s].phase = "making" /\ visit[s].left = 0

\* The new path is walked ...
WalkNewPath(s) ==
    /\ Made(s)
    /\ visit' = [visit EXCEPT ![s].phase = "asking", ![s].current = visit[s].at,
                              ![s].path = <<>>, ![s].before = <<>>]
    /\ UNCHANGED <<dag, rows, current_node, came, replies, made, failed, torn>>

\* Mutant: the walk's place is kept.
LeftThere(before, start) == start

Restored(before, start) == before

\* ... or an input for the tool at the end of edge e is not to be had.
WalkFails(s, e) ==
    /\ Made(s)
    /\ e \in ToSet(visit[s].path)
    /\ LET edge == visit[s].dag.edges[e]
       IN  /\ NodeAt(visit[s].dag, edge[2])[1] = "tool"
           /\ visit' = [visit EXCEPT ![s].phase = "undoing",
                  ![s].current = Restored(visit[s].before[2], edge[1])]
    /\ UNCHANGED <<dag, rows, current_node, came, replies, made, failed, torn>>

\* Mutant: from the first edge on.
FromTheFirst(path) == Reverse(path)

Undoing(path) == path

\* Mutant: the start of the edge is removed.
WithoutStart(g, e) ==
    IF e \in DOMAIN g.edges THEN RemoveNode(RemoveEdge(g, e), g.edges[e][1]) ELSE g

\* Edge e and its end are gone from g; an edge that is not there is skipped.
Without(g, e) ==
    IF e \in DOMAIN g.edges THEN RemoveNode(RemoveEdge(g, e), g.edges[e][2]) ELSE g

\* Mutant: the row of the node stays.
RowKept(g, e) == rows

RowsWithout(g, e) ==
    IF e \in DOMAIN g.edges THEN Restrict(rows, DOMAIN rows \ {g.edges[e][2]}) ELSE rows

\* handle_create_new_path undoes the path, the last edge first.
Undo(s) ==
    /\ visit[s].phase = "undoing"
    /\ visit[s].path # <<>>
    /\ LET path == Undoing(visit[s].path)
       IN  /\ rows' = RowsWithout(visit[s].dag, Last(path))
           /\ visit' = [visit EXCEPT ![s].dag = Without(@, Last(path)),
                                     ![s].path = Undoing(Front(path))]
    /\ UNCHANGED <<dag, current_node, came, replies, made, failed, torn>>

Undone(s) == visit[s].phase = "undoing" /\ visit[s].path = <<>>

\* ... and takes whatever call the model makes next for another path.
Retry(s, k) == Undone(s) /\ Making(s, k)
------------------------------------------------------------------------------
Answer(s) ==
    /\ Asking(s)
    /\ visit' = [visit EXCEPT ![s].phase = "saving"]
    /\ UNCHANGED <<dag, rows, current_node, came, replies, made, failed, torn>>

\* save_thread_storage; the list of threads is as in ChatThreads.
OpenThreadFile(s) ==
    /\ visit[s].phase = "saving"
    /\ current_node' = [current_node EXCEPT ![visit[s].thread] = CutFile]
    /\ visit' = [visit EXCEPT ![s].phase = "writing"]
    /\ UNCHANGED <<dag, rows, came, replies, made, failed, torn>>

WriteThreadFile(s) ==
    /\ visit[s].phase = "writing"
    /\ current_node' = [current_node EXCEPT ![visit[s].thread] = visit[s].current]
    /\ visit' = [visit EXCEPT ![s].phase = "saved"]
    /\ UNCHANGED <<dag, rows, came, replies, made, failed, torn>>

OpenGraph(s) ==
    /\ visit[s].phase = "saved"
    /\ dag' = CutFile
    /\ visit' = [visit EXCEPT ![s].phase = "ending"]
    /\ UNCHANGED <<rows, current_node, came, replies, made, failed, torn>>

WriteGraph(s) ==
    /\ visit[s].phase = "ending"
    /\ dag' = visit[s].dag
    /\ visit' = [visit EXCEPT ![s] = Away]
    /\ UNCHANGED <<rows, current_node, came, replies, made, failed, torn>>

FailVisit(s) ==
    /\ visit[s] # Away
    /\ visit' = [visit EXCEPT ![s] = Away]
    /\ failed' = TRUE
    /\ torn' = (torn \/ visit[s].phase \in {"founding", "beginning", "writing",
                                              "saved", "ending"})
    /\ UNCHANGED <<dag, rows, current_node, came, replies, made>>

NotebookNext ==
    \E s \in Visitors :
        \/ \E t \in ThreadIds : BeginVisit(s, t)
        \/ Found(s) \/ OpenNewThread(s) \/ WriteNewThread(s)
        \/ \E goals \in SUBSET DOMAIN rows : Search(s, goals)
        \/ Asking(s) /\ \E i \in DOMAIN visit[s].options : ChoosePath(s, i)
        \/ OutOfRange(s) \/ Told(s) \/ JumpToRoot(s)
        \/ Asking(s) /\ \E b \in Nodes(visit[s].dag) : ConnectToNode(s, b)
        \/ \E k \in 0..MaxPath : CreateNewPath(s, k) \/ Retry(s, k)
        \/ \E kind \in {"intention", "tool"}, fails \in BOOLEAN : CreateNewNode(s, kind, fails)
        \/ WalkNewPath(s) \/ Undo(s)
        \/ Made(s) /\ \E e \in ToSet(visit[s].path) : WalkFails(s, e)
        \/ Answer(s) \/ OpenThreadFile(s) \/ WriteThreadFile(s) \/ OpenGraph(s) \/ WriteGraph(s)
        \/ FailVisit(s)

NotebookSpec == NotebookInit /\ [][NotebookNext]_notebookVars
------------------------------------------------------------------------------
NobodyVisits == \A s \in Visitors : visit[s] = Away

\* The requests that walk or change a graph, and their graphs.
AtWork ==
    { s \in Visitors : /\ visit[s] # Away
                       /\ visit[s].phase \notin {"founding", "opening", "beginning"} }
Graphs == (IF Whole(dag) THEN {dag} ELSE {}) \cup { visit[s].dag : s \in AtWork }

(* No graph has a cycle, and all that was ever made can be reached from the   *)
(* node that jump_to_root goes to: nothing the model makes is lost to it.     *)
MadeIsReachable ==
    \A g \in Graphs :
        /\ \A e \in ToSet(g.edges) : e[1] \notin Below(g, e[2])
        /\ Nodes(g) \ {0, 1} \subseteq Below(g, Top)

(* The row of every saved node describes that node, however many paths were   *)
(* undone and requests lost since.  As long as none was lost, no row is left  *)
(* of a node that is not there.                                               *)
RowsTellNodes ==
    Whole(dag) =>
        /\ \A i \in Nodes(dag) : i \in DOMAIN rows /\ rows[i] = NodeAt(dag, i)
        /\ NobodyVisits /\ ~failed => DOMAIN rows = Nodes(dag)

(* A path that could not be walked leaves no trace in the graph and in the    *)
(* thread: "The nodes in the path have been deleted" (graph_utils.rs:555).    *)
UndoneWhole ==
    \A s \in Visitors : Undone(s) => visit[s].before = <<visit[s].dag, visit[s].current>>

(* What a request is going to save keeps every saved node and edge at its     *)
(* index, also while it undoes a path: threads and rows name them by these.   *)
CopyExtends ==
    Whole(dag) => \A s \in AtWork :
        /\ IsPrefix(dag.nodes, visit[s].dag.nodes)
        /\ IsPrefix(dag.edges, visit[s].dag.edges)

(* Unless a request ended between its writes, a thread stands at a node of    *)
(* the graph that the next request will load with it, and a request at one    *)
(* of the graph it will save.                                                 *)
ThreadsStandInGraph ==
    ~torn =>
        /\ Whole(dag) /\ (\A s \in AtWork : visit[s].phase # "saved") =>
               \A t \in ThreadIds : Whole(current_node[t]) => current_node[t] \in Nodes(dag)
        /\ \A s \in AtWork : visit[s].current \in Nodes(visit[s].dag)

(* A path the model chooses by its index in the list it was last shown is the *)
(* path of that list (message_utils.rs:303 writes the index), which is refuted. *)
TakenAsListed == \A s \in AtWork : ~visit[s].astray
==============================================================================
