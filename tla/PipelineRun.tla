----------------------------- MODULE PipelineRun -----------------------------
(****************************************************************************)
(* One execution of a pipeline (plugin-host/src/pipeline.rs run_pipeline,   *)
(* run_pipeline_stage): a forest of stages, each a plugin call whose input  *)
(* is selected from what earlier stages put out.                            *)
(*                                                                          *)
(* A stage is named by its path of indices from the top, counted from 0.    *)
(* An output is named by the stage that produced it, so that the            *)
(* accumulator, a tree of outputs, is a function from positions to stages.  *)
(* A JSONPath selector is the set of positions it can match: one for a      *)
(* plain path, several for a wildcard; <<>> is the input of the pipeline.   *)
(****************************************************************************)
EXTENDS Integers, FiniteSets, Sequences, SequencesExt

CONSTANTS
    Pipelines,      \* the pipelines that may be run
    NoConstructor   \* the output_constructor of a pipeline without one

Input == <<>>

VARIABLES
    pipeline,  \* [stages, wants, constructor], see PipelineOK
    todo,      \* the stages still to run, in order: the recursion's stack
    phase,     \* "calling", "called", "ok", "failed" or "panicked"
    acc,       \* PipelineAccumulator: position -> stage whose output is there
    inputs,    \* for every stage called: the outputs its selectors matched
    result     \* the outputs that make up the pipeline's output

runVars == <<pipeline, todo, phase, acc, inputs, result>>

Width(stages, p) == Cardinality({ q \in stages : q # <<>> /\ Front(q) = p })

\* The children of p in their order.
Kids(stages, p) == [i \in 1..Width(stages, p) |-> Append(p, i - 1)]

\* Stage q comes before stage p in the text of the pipeline: q is above p, or
\* branches off to an earlier sibling.
Before(q, p) ==
    \/ IsStrictPrefix(q, p)
    \/ \E i \in 1..Len(q) : /\ i <= Len(p)
                            /\ SubSeq(q, 1, i - 1) = SubSeq(p, 1, i - 1)
                            /\ q[i] < p[i]

\* A pipeline as serde accepts it: what is above a stage is a stage, children
\* are numbered without gaps.
PipelineOK(pl) ==
    /\ IsFiniteSet(pl.stages) /\ pl.stages \subseteq Seq(Nat) \ {<<>>}
    /\ \A p \in pl.stages : /\ \A k \in 1..Len(p) - 1 : SubSeq(p, 1, k) \in pl.stages
                            /\ Last(p) < Width(pl.stages, Front(p))
    /\ DOMAIN pl.wants = pl.stages
    /\ \A p \in pl.stages : \A sel \in pl.wants[p] : IsFiniteSet(sel)

ASSUME PipelinesAssumption == \A pl \in Pipelines : PipelineOK(pl)

\* jsonpath_lib::select on the accumulator: the outputs that sel finds.
Matches(sel) == { acc[at] : at \in sel \cap DOMAIN acc } \cup (sel \cap {Input})
------------------------------------------------------------------------------
\* pipeline.stages.len() - 1 underflows for an empty pipeline: a panic in a
\* build with overflow checks, in others a final path that nothing is at.
RunInit ==
    /\ pipeline \in Pipelines
    /\ todo = Kids(pipeline.stages, <<>>)
    /\ phase \in IF todo = <<>> THEN {"panicked", "calling"} ELSE {"calling"}
    /\ acc = <<>>
    /\ inputs = <<>>
    /\ result = {}

\* What the selectors of stage p match.
Matched(p) == { Matches(sel) : sel \in pipeline.wants[p] }

\* create_call_input: every selector must match something.
CallStage ==
    /\ phase = "calling"
    /\ todo # <<>>
    /\ {} \notin Matched(Head(todo))
    /\ phase' = "called"
    /\ inputs' = [p \in DOMAIN inputs \cup {Head(todo)} |->
                     IF p = Head(todo) THEN Matched(p) ELSE inputs[p]]
    /\ UNCHANGED <<pipeline, todo, acc, result>>

\* A selector matches nothing, or what it matched has no place to go in the
\* stage's default input.
BadSelector ==
    /\ phase = "calling"
    /\ todo # <<>>
    /\ Matched(Head(todo)) # {}
    /\ phase' = "failed"
    /\ UNCHANGED <<pipeline, todo, acc, inputs, result>>

\* The plugin is not there, or its work fails: the error ends the pipeline.
StageFails ==
    /\ phase = "called"
    /\ phase' = "failed"
    /\ UNCHANGED <<pipeline, todo, acc, inputs, result>>

\* run_plugin logs the first ten bytes of the input's text (plugin.rs:70),
\* and panics when a character spans the tenth.
StagePanics ==
    /\ phase = "called"
    /\ phase' = "panicked"
    /\ UNCHANGED <<pipeline, todo, acc, inputs, result>>

\* Where the output of stage p is pushed: after the last child of what
\* get_path_mut finds at p's parent, at the top level when it finds nothing.
PushedAt(p) ==
    LET parent == IF Front(p) \in DOMAIN acc THEN Front(p) ELSE <<>> IN
    Append(parent, Width(DOMAIN acc, parent))

\* Mutant: the children of a stage wait for the stages after it.
AfterStageBreadth(p) == Tail(todo) \o Kids(pipeline.stages, p)

\* Depth first: the children of a stage run before the stage after it.
AfterStage(p) == Kids(pipeline.stages, p) \o Tail(todo)

StageOk ==
    /\ phase = "called"
    /\ LET p == Head(todo) at == PushedAt(p) IN
       /\ acc' = [q \in DOMAIN acc \cup {at} |-> IF q = at THEN p ELSE acc[q]]
       /\ todo' = AfterStage(p)
    /\ phase' = "calling"
    /\ UNCHANGED <<pipeline, inputs, result>>

\* Mutant: the output pushed last.
FinalStageRanLast ==
    CHOOSE at \in DOMAIN acc \cup {<<>>} : \A q \in DOMAIN acc : q = at \/ Before(q, at)

FinalStage == <<Width(pipeline.stages, <<>>) - 1>>

\* The output is made by the constructor's selectors, or is the output of the
\* last stage at the top.
Finish ==
    /\ phase = "calling"
    /\ todo = <<>>
    /\ LET picked == { Matches(sel) : sel \in pipeline.constructor } IN
       IF pipeline.constructor # NoConstructor
       THEN IF {} \in picked
            THEN phase' = "failed" /\ UNCHANGED result
            ELSE phase' = "ok" /\ result' = UNION picked
       ELSE IF FinalStage \in DOMAIN acc
            THEN phase' = "ok" /\ result' = {acc[FinalStage]}
            ELSE phase' = "panicked" /\ UNCHANGED result
    /\ UNCHANGED <<pipeline, todo, acc, inputs>>

RunNext == CallStage \/ BadSelector \/ StageFails \/ StagePanics \/ StageOk \/ Finish

RunSpec == RunInit /\ [][RunNext]_runVars
------------------------------------------------------------------------------
EarlierStages(p) == { q \in pipeline.stages : Before(q, p) }

\* A stage is called with exactly the outputs that its selectors mean in the
\* pipeline's text, of the stages written before it, which are its ancestors
\* and everything under their earlier siblings; run_pipeline_stage pushes
\* outputs by position and never by path.
SeesExactlyEarlierStages ==
    \A p \in DOMAIN inputs :
        inputs[p] = { sel \cap (EarlierStages(p) \cup {Input}) : sel \in pipeline.wants[p] }

\* Whoever writes no output_constructor gets the output of the last top-level
\* stage, not of the stage that ran last, and a pipeline with stages
\* never panics over it.
LastTopStageWins ==
    pipeline.constructor = NoConstructor /\ todo = <<>> =>
        LET tops == { p \in pipeline.stages : Len(p) = 1 } IN
        /\ phase = "ok" => \E p \in tops : /\ result = {p}
                                           /\ \A q \in tops : q = p \/ Before(q, p)
        /\ phase = "panicked" => tops = {}
==============================================================================
