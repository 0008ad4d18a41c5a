---------------------------- MODULE PipelineJobs ----------------------------
(****************************************************************************)
(* Asynchronous pipeline executions (plugin-host/src/routes/                *)
(* pipeline_routes.rs pipelines_async_execute, pipeline.rs run_pipeline,    *)
(* routes/mod.rs job_status, host/host_impl.rs update_status) and the       *)
(* sweeper that drops old jobs (server.rs start_server).                    *)
(*                                                                          *)
(* A request pushes a PipelineJob on AppState.jobs and spawns a task.  The  *)
(* task, the plugin it runs and the sweeper each lock the jobs for a moment *)
(* and find the job by its id, a fresh uuid, so AppState.jobs is a function *)
(* from ids to jobs.  The inside of a stage is PipelineRun's; here a        *)
(* top-level stage succeeds, fails or panics.  No job is persisted.         *)
(****************************************************************************)
EXTENDS Integers

CONSTANTS
    Jobs,        \* job ids
    Totals,      \* the numbers of top-level stages of pipelines
    Retention,   \* how long a job is kept after its end (60 minutes)
    Period,      \* how long the sweeper sleeps (5 minutes)
    None,        \* no job
    MaxRestarts  \* bound on the restarts of a behaviour

ASSUME JobsAssumption ==
    /\ Totals \subseteq Nat
    /\ Retention \in Nat
    /\ Period \in Nat \ {0}
    /\ MaxRestarts \in Nat

\* result: Ok(None), Ok(Some(value)), Ok(Some(null)), Err(message).
Results == {"none", "value", "null", "error"}
Outcomes == Results \ {"none"}

\* struct PipelineJob; age is the time since end_time or, of an
\* unfinished job, since start_time; it stops once the sweeper must have acted.
Job == [stage : Nat, total : Totals, told : BOOLEAN, result : Results, age : Nat]
ASSUME NoneAssumption == None \notin Job

Phases == {"none", "start", "stage", "report", "output", "store", "done", "panicked"}

VARIABLES
    jobs,      \* AppState.jobs: id -> job
    phase,     \* where the task of each job is
    at,        \* the top-level stage the task is at
    outcome,   \* what the task is about to store
    issued,    \* the ids given out, in any life of the server
    sweep_in,  \* time until the sweeper wakes
    restarts   \* restarts so far

vars == <<jobs, phase, at, outcome, issued, sweep_in, restarts>>
------------------------------------------------------------------------------
Init ==
    /\ jobs = [j \in Jobs |-> None]
    /\ phase = [j \in Jobs |-> "none"]
    /\ at = [j \in Jobs |-> 0]
    /\ outcome = [j \in Jobs |-> "none"]
    /\ issued = {}
    /\ sweep_in = Period
    /\ restarts = 0

\* pipelines_async_execute of a registered pipeline with n stages.
Submit(j, n) ==
    /\ j \notin issued
    /\ jobs' = [jobs EXCEPT ![j] = [stage |-> 0, total |-> n, told |-> FALSE,
                                    result |-> "none", age |-> 0]]
    /\ issued' = issued \cup {j}
    /\ phase' = [phase EXCEPT ![j] = "start"]
    /\ at' = [at EXCEPT ![j] = 0]
    /\ UNCHANGED <<outcome, sweep_in, restarts>>

Goto(j, p) == phase' = [phase EXCEPT ![j] = p]

\* run_pipeline begins.  An empty pipeline panics at once or, in a build
\* without overflow checks, when it looks for its final stage.
Start(j) ==
    /\ phase[j] = "start"
    /\ Goto(j, IF jobs[j].total = 0 THEN "output" ELSE "stage")
    /\ UNCHANGED <<jobs, at, outcome, issued, sweep_in, restarts>>

\* The plugin that the stage runs sets the status text of its job.
UpdateStatus(j) ==
    /\ phase[j] = "stage"
    /\ jobs[j] # None
    /\ jobs' = [jobs EXCEPT ![j].told = TRUE]
    /\ UNCHANGED <<phase, at, outcome, issued, sweep_in, restarts>>

StageOk(j) ==
    /\ phase[j] = "stage"
    /\ Goto(j, "report")
    /\ UNCHANGED <<jobs, at, outcome, issued, sweep_in, restarts>>

\* The stage fails, and with it the pipeline.
StageFails(j) ==
    /\ phase[j] = "stage"
    /\ Goto(j, "store")
    /\ outcome' = [outcome EXCEPT ![j] = "error"]
    /\ UNCHANGED <<jobs, at, issued, sweep_in, restarts>>

\* The task panics: run_plugin cuts the input's text inside a character
\* (plugin.rs:70), or the pipeline has no stage.
TaskPanics(j) ==
    /\ \/ phase[j] = "stage"
       \/ phase[j] = "output" /\ jobs[j].total = 0
    /\ Goto(j, "panicked")
    /\ UNCHANGED <<jobs, at, outcome, issued, sweep_in, restarts>>

\* job.stage = i, after stage i, if the job is still there.
ReportStage(j) ==
    /\ phase[j] = "report"
    /\ jobs' = IF jobs[j] = None THEN jobs
               ELSE [jobs EXCEPT ![j].stage = at[j]]
    /\ at' = [at EXCEPT ![j] = @ + 1]
    /\ Goto(j, IF at[j] + 1 < jobs[j].total THEN "stage" ELSE "output")
    /\ UNCHANGED <<outcome, issued, sweep_in, restarts>>

\* The last stage's output, or what the output_constructor selects: a JSON
\* value, which may be null, or the error of a selector.
MakeOutput(j) ==
    /\ phase[j] = "output"
    /\ \E o \in Outcomes : outcome' = [outcome EXCEPT ![j] = o]
    /\ Goto(j, "store")
    /\ UNCHANGED <<jobs, at, issued, sweep_in, restarts>>

\* find(..).map(..).unwrap(): a panic when the job is gone.
StoreResult(j) ==
    /\ phase[j] = "store"
    /\ IF jobs[j] = None
       THEN Goto(j, "panicked") /\ UNCHANGED jobs
       ELSE /\ Goto(j, "done")
            /\ jobs' = [jobs EXCEPT ![j].result = outcome[j], ![j].age = 0]
    /\ UNCHANGED <<at, outcome, issued, sweep_in, restarts>>
------------------------------------------------------------------------------
Ended(job) == job.result # "none"

\* Mutant: jobs are dropped by start_time, finished or not.
SweptByStart(job) == job.age >= Retention

\* Mutant: end_time is not set when a pipeline fails.
SweptUnlessFailed(job) ==
    Ended(job) /\ job.result # "error" /\ job.age >= Retention

\* Jobs without an end_time are kept.
Swept(job) == Ended(job) /\ job.age >= Retention

Older(job) == IF job.age <= Retention + Period THEN [job EXCEPT !.age = @ + 1] ELSE job

\* The sweeper wakes, locks the jobs and retains the young and the unfinished.
Sweep ==
    /\ sweep_in = 0
    /\ jobs' = [j \in Jobs |-> IF jobs[j] = None THEN None
                               ELSE IF Swept(jobs[j]) THEN None ELSE jobs[j]]
    /\ sweep_in' = Period
    /\ UNCHANGED <<phase, at, outcome, issued, restarts>>

\* The sweeper wakes and gets the lock before the next unit of time passes.
Left(n) == IF n > 0 THEN n - 1 ELSE n

Elapse ==
    /\ Left(sweep_in) # sweep_in
    /\ sweep_in' = Left(sweep_in)
    /\ jobs' = [j \in Jobs |-> IF jobs[j] = None THEN None ELSE Older(jobs[j])]
    /\ UNCHANGED <<phase, at, outcome, issued, restarts>>

\* The server stops at any point and starts again with no jobs.
Restart ==
    /\ restarts < MaxRestarts
    /\ jobs' = [j \in Jobs |-> None]
    /\ phase' = [j \in Jobs |-> "none"]
    /\ sweep_in' = Period
    /\ restarts' = restarts + 1
    /\ at' = [j \in Jobs |-> 0]
    /\ outcome' = [j \in Jobs |-> "none"]
    /\ UNCHANGED issued
------------------------------------------------------------------------------
TaskStep(j) ==
    \/ Start(j)
    \/ StageOk(j)
    \/ StageFails(j)
    \/ TaskPanics(j)
    \/ ReportStage(j)
    \/ MakeOutput(j)
    \/ StoreResult(j)

Next ==
    \/ \E j \in Jobs, n \in Totals : Submit(j, n)
    \/ \E j \in Jobs : TaskStep(j) \/ UpdateStatus(j)
    \/ Sweep
    \/ Elapse
    \/ Restart

Spec == Init /\ [][Next]_vars

\* Plugins return, the runtime polls ready tasks, time passes.
Fairness ==
    /\ \A j \in Jobs : WF_vars(TaskStep(j))
    /\ WF_vars(Elapse)
    /\ WF_vars(Sweep)

FairSpec == Spec /\ Fairness
------------------------------------------------------------------------------
TypeOK ==
    /\ jobs \in [Jobs -> Job \cup {None}]
    /\ phase \in [Jobs -> Phases]
    /\ at \in [Jobs -> Nat]
    /\ outcome \in [Jobs -> Results]
    /\ issued \subseteq Jobs
    /\ sweep_in \in 0..Period
    /\ restarts \in 0..MaxRestarts

Working(j) == phase[j] \in {"start", "stage", "report", "output", "store"}

\* However long a pipeline takes, its job is there and has no result until
\* its own task stores one: the unwraps of pipeline_routes.rs:264 and 279 hold.
StoreFindsJob ==
    \A j \in Jobs : Working(j) => jobs[j] # None /\ (jobs[j] # None => ~Ended(jobs[j]))

\* No ended job stays for longer than its retention and one sleep of the
\* sweeper: the memory that results take is bounded by the rate of requests.
EndedJobsSwept ==
    \A j \in Jobs : jobs[j] # None =>
        (Ended(jobs[j]) => jobs[j].age <= Retention + Period)

\* The "result" of the JSON that job_status answers for a job it finds: a job
\* without a result answers null, an error is a string like many a result.
AnswerOf(job) == IF job.result \in {"none", "null"} THEN "null" ELSE "value"

ClientView(j) ==
    IF jobs[j] # None
    THEN [answer |-> AnswerOf(jobs[j]), stage |-> jobs[j].stage,
          total |-> jobs[j].total, told |-> jobs[j].told]
    ELSE [answer |-> IF j \in issued THEN "gone" ELSE "unknown",
          stage |-> 0, total |-> 0, told |-> FALSE]

\* The jobs keep what JobContract promises to the clients that poll
\* (routes/mod.rs job_status): no value is taken back, no stage goes down, and
\* no job that works below its last stage disappears while the server lives.
Contract == INSTANCE JobContract WITH
    view <- [j \in Jobs |-> ClientView(j)], server <- restarts

KeepsContract == Contract!Spec

\* A job ends unless its task panics or the server stops, and every ended job
\* is dropped in the end.
JobsEndAndGo ==
    \A j \in Jobs :
        /\ Working(j) ~> ~Working(j)
        /\ phase[j] = "done" ~> jobs[j] = None

\* A client that polls gets "the result when ready" (pipeline_routes.rs:201):
\* a submitted job ends, as long as the server lives.
ClientGetsResult ==
    \A j \in Jobs :
        (jobs[j] # None /\ (jobs[j] # None => ~Ended(jobs[j])))
        ~> (jobs[j] = None \/ (jobs[j] # None => Ended(jobs[j])))

\* "stage" is the "current stage index of execution" (pipeline_routes.rs:45).
StageIsCurrent ==
    \A j \in Jobs : phase[j] = "stage" => jobs[j].stage = at[j]

\* A client can "monitor the progress and get the result when ready"
\* (pipeline_routes.rs:200-201): an ended job does not answer like a pending one.
EndedJobsShow ==
    \A j \in Jobs : jobs[j] # None => (Ended(jobs[j]) => AnswerOf(jobs[j]) # "null")
==============================================================================
