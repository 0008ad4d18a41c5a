-------------------------- MODULE PipelineJobsProofs --------------------------
(****************************************************************************)
(* Every job is there until its own task stored its result; ended jobs are  *)
(* swept in time; and PipelineJobs implements JobContract: for any number   *)
(* of jobs, any pipelines, any retention and any period of the sweeper.     *)
(****************************************************************************)
EXTENDS PipelineJobs, TLAPS

\* A job that has reported its last stage.
AtEnd(job) == job.stage + 1 >= job.total

\* What ties a job to its task: while the task works, the job is there, is
\* unfinished and has the stage before the task's; only a task past its last
\* stage makes an output; an ended job is no older than its retention and the
\* time since the sweeper last woke.
JobInv(j) ==
    /\ jobs[j] # None => j \in issued
    /\ Working(j) =>
          /\ jobs[j] # None
          /\ jobs[j].result = "none"
          /\ (at[j] = 0 /\ jobs[j].stage = 0) \/ jobs[j].stage + 1 = at[j]
    /\ phase[j] = "store" => outcome[j] \in Outcomes
    /\ phase[j] = "output" => AtEnd(jobs[j])
    /\ phase[j] = "store" /\ outcome[j] = "null" => AtEnd(jobs[j])
    /\ jobs[j] # None => (jobs[j].result = "null" => AtEnd(jobs[j]))
    /\ jobs[j] # None =>
          (Ended(jobs[j]) => jobs[j].age <= Retention + Period - sweep_in)

IInv == TypeOK /\ \A j \in Jobs : JobInv(j)

------------------------------------------------------------------------------
(* Helpers *)

\* A job that is there is a record of a job.
LEMMA JobThere ==
    ASSUME TypeOK, NEW j \in Jobs, jobs[j] # None
    PROVE  jobs[j] \in Job
BY DEF TypeOK

\* Updates of single fields keep a job a job.
LEMMA JobUpdates ==
    ASSUME NEW job \in Job, NEW n \in Nat, NEW r \in Results
    PROVE  /\ [job EXCEPT !.stage = n] \in Job
           /\ [job EXCEPT !.told = TRUE] \in Job
           /\ [job EXCEPT !.result = r, !.age = n] \in Job
           /\ Older(job) \in Job
           /\ Older(job).stage = job.stage
           /\ Older(job).told = job.told
           /\ Older(job).total = job.total
           /\ Older(job).result = job.result
           /\ Older(job).age <= job.age + 1
<1>1. /\ [job EXCEPT !.stage = n] \in Job
      /\ [job EXCEPT !.told = TRUE] \in Job
  BY DEF Job
<1>2. [job EXCEPT !.result = r, !.age = n] \in Job
  BY DEF Job
<1>3. job.age \in Nat
  BY DEF Job
<1>4. CASE job.age <= Retention + Period
  <2>1. Older(job) = [job EXCEPT !.age = job.age + 1]
    BY <1>4 DEF Older
  <2>2. QED
    BY <1>1, <1>2, <1>3, <2>1 DEF Job
<1>5. CASE ~(job.age <= Retention + Period)
  <2>1. Older(job) = job
    BY <1>5 DEF Older
  <2>2. QED
    BY <1>1, <1>2, <1>3, <2>1
<1>6. QED
  BY <1>4, <1>5

------------------------------------------------------------------------------
(* Type correctness *)

LEMMA TypeStep == TypeOK /\ (\A j \in Jobs : JobInv(j)) /\ [Next]_vars => TypeOK'
<1> SUFFICES ASSUME TypeOK, \A j \in Jobs : JobInv(j), [Next]_vars
             PROVE  TypeOK'
  OBVIOUS
<1> USE JobsAssumption DEF TypeOK
<1>1. ASSUME NEW j \in Jobs, NEW n \in Totals, Submit(j, n)
      PROVE  TypeOK'
  <2>1. [stage |-> 0, total |-> n, told |-> FALSE, result |-> "none", age |-> 0] \in Job
    BY DEF Job, Results
  <2>2. QED
    BY <1>1, <2>1 DEF Submit, Phases
<1>2. ASSUME NEW j \in Jobs,
             Start(j) \/ StageOk(j) \/ StageFails(j) \/ TaskPanics(j) \/ MakeOutput(j)
      PROVE  TypeOK'
  BY <1>2 DEF Start, StageOk, StageFails, TaskPanics, MakeOutput, Goto, Phases, Results,
              Outcomes
<1>3. ASSUME NEW j \in Jobs, UpdateStatus(j)
      PROVE  TypeOK'
  <2>1. [jobs[j] EXCEPT !.told = TRUE] \in Job
    BY <1>3, JobThere, JobUpdates DEF UpdateStatus, Results
  <2>2. QED
    BY <1>3, <2>1 DEF UpdateStatus
<1>4. ASSUME NEW j \in Jobs, ReportStage(j)
      PROVE  TypeOK'
  <2>1. jobs[j] # None => [jobs[j] EXCEPT !.stage = at[j]] \in Job
    BY JobThere, JobUpdates DEF Results
  <2>2. QED
    BY <1>4, <2>1 DEF ReportStage, Goto, Phases
<1>5. ASSUME NEW j \in Jobs, StoreResult(j)
      PROVE  TypeOK'
  <2>1. jobs[j] # None => [jobs[j] EXCEPT !.result = outcome[j], !.age = 0] \in Job
    BY JobThere, JobUpdates
  <2>2. QED
    BY <1>5, <2>1 DEF StoreResult, Goto, Phases
<1>6. CASE Sweep
  BY <1>6 DEF Sweep
<1>7. CASE Elapse
  <2>1. \A j \in Jobs : jobs[j] # None => Older(jobs[j]) \in Job
    BY JobThere, JobUpdates DEF Results
  <2>2. QED
    BY <1>7, <2>1 DEF Elapse, Left
<1>8. CASE Restart
  BY <1>8 DEF Restart, Phases, Results
<1>9. CASE UNCHANGED vars
  BY <1>9 DEF vars
<1>10. QED
  BY <1>1, <1>2, <1>3, <1>4, <1>5, <1>6, <1>7, <1>8, <1>9 DEF Next, TaskStep

------------------------------------------------------------------------------
(* Each job and its task *)

LEMMA JobInvStep ==
    ASSUME IInv, [Next]_vars, NEW j \in Jobs
    PROVE  JobInv(j)'
<1> USE JobsAssumption
<1>0. TypeOK /\ JobInv(j) /\ TypeOK'
  BY TypeStep DEF IInv
<1>1. ASSUME /\ jobs'[j] = jobs[j]
             /\ phase'[j] = phase[j]
             /\ at'[j] = at[j]
             /\ outcome'[j] = outcome[j]
             /\ issued \subseteq issued'
             /\ sweep_in' = sweep_in
      PROVE  JobInv(j)'
  BY <1>0, <1>1 DEF JobInv, Working
<1>2. ASSUME NEW i \in Jobs, NEW n \in Totals, Submit(i, n)
      PROVE  JobInv(j)'
  <2>1. CASE i = j
    <3>1. /\ jobs'[j] = [stage |-> 0, total |-> n, told |-> FALSE,
                          result |-> "none", age |-> 0]
          /\ phase'[j] = "start"
          /\ at'[j] = 0
          /\ j \in issued'
      BY <1>0, <1>2, <2>1 DEF Submit, TypeOK
    <3>2. jobs'[j] \in Job
      BY <3>1 DEF Job, Results
    <3>3. jobs'[j] # None
      BY <3>2, NoneAssumption
    <3>4. jobs'[j].result = "none" /\ jobs'[j].stage = 0
      BY <3>1
    <3>5. QED
      BY <3>1, <3>3, <3>4 DEF JobInv, Working, Ended
  <2>2. CASE i # j
    BY <1>0, <1>1, <1>2, <2>2 DEF Submit, TypeOK
  <2>3. QED
    BY <2>1, <2>2
<1>3. ASSUME NEW i \in Jobs,
             Start(i) \/ StageOk(i) \/ StageFails(i) \/ TaskPanics(i) \/ MakeOutput(i)
      PROVE  JobInv(j)'
  <2>1. CASE i = j
    <3>1. /\ jobs' = jobs
          /\ at' = at
          /\ issued' = issued
          /\ sweep_in' = sweep_in
          /\ Working(j)
      BY <1>3, <2>1 DEF Start, StageOk, StageFails, TaskPanics, MakeOutput, Working
    <3>2. phase'[j] = "store" => outcome'[j] \in Outcomes
      BY <1>0, <1>3, <2>1 DEF Start, StageOk, StageFails, TaskPanics, MakeOutput, Goto,
         TypeOK, Results, Outcomes
    <3>3. phase'[j] = "output" => AtEnd(jobs[j])
      <4>1. CASE Start(i)
        <5>1. phase'[j] = "output" => jobs[j].total = 0
          BY <1>0, <2>1, <4>1 DEF Start, Goto, TypeOK
        <5>2. jobs[j].stage \in Nat
          BY <1>0, <3>1, JobThere DEF JobInv, Job
        <5>3. QED
          BY <5>1, <5>2 DEF AtEnd
      <4>2. CASE ~Start(i)
        BY <1>0, <1>3, <2>1, <4>2 DEF StageOk, StageFails, TaskPanics, MakeOutput, Goto, TypeOK
      <4>3. QED
        BY <4>1, <4>2
    <3>4. phase'[j] = "store" /\ outcome'[j] = "null" => AtEnd(jobs[j])
      <4>1. CASE MakeOutput(i)
        BY <1>0, <2>1, <4>1 DEF MakeOutput, JobInv
      <4>2. CASE StageFails(i)
        BY <1>0, <2>1, <4>2 DEF StageFails, TypeOK
      <4>3. CASE ~MakeOutput(i) /\ ~StageFails(i)
        BY <1>0, <1>3, <2>1, <4>3 DEF Start, StageOk, TaskPanics, Goto, TypeOK
      <4>4. QED
        BY <4>1, <4>2, <4>3
    <3>5. QED
      BY <1>0, <3>1, <3>2, <3>3, <3>4 DEF JobInv, Working, AtEnd
  <2>2. CASE i # j
    BY <1>0, <1>1, <1>3, <2>2 DEF Start, StageOk, StageFails, TaskPanics, MakeOutput, Goto,
       TypeOK
  <2>3. QED
    BY <2>1, <2>2
<1>4. ASSUME NEW i \in Jobs, UpdateStatus(i)
      PROVE  JobInv(j)'
  <2>1. CASE i = j
    <3>1. jobs[j] \in Job /\ jobs'[j] = [jobs[j] EXCEPT !.told = TRUE]
      BY <1>0, <1>4, <2>1, JobThere DEF UpdateStatus, TypeOK
    <3>2. /\ jobs'[j].result = jobs[j].result
          /\ jobs'[j].stage = jobs[j].stage
          /\ jobs'[j].total = jobs[j].total
          /\ jobs'[j].age = jobs[j].age
          /\ jobs'[j] # None
      BY <3>1, NoneAssumption DEF Job
    <3>3. QED
      BY <1>0, <1>4, <2>1, <3>2 DEF UpdateStatus, JobInv, Working, TypeOK, Ended, AtEnd
  <2>2. CASE i # j
    BY <1>0, <1>1, <1>4, <2>2 DEF UpdateStatus, TypeOK
  <2>3. QED
    BY <2>1, <2>2
<1>5. ASSUME NEW i \in Jobs, ReportStage(i)
      PROVE  JobInv(j)'
  <2>1. CASE i = j
    <3>1. /\ jobs[j] \in Job
          /\ jobs[j].result = "none"
          /\ at[j] \in Nat
          /\ jobs'[j] = [jobs[j] EXCEPT !.stage = at[j]]
      BY <1>0, <1>5, <2>1, JobThere DEF ReportStage, TypeOK, JobInv, Working
    <3>2. /\ jobs'[j].result = "none"
          /\ jobs'[j].stage = at[j]
          /\ jobs'[j].total = jobs[j].total /\ jobs[j].total \in Nat
          /\ jobs'[j] # None
      BY <3>1, NoneAssumption DEF Job
    <3>3. at'[j] = at[j] + 1 /\ phase'[j] \in {"stage", "output"}
      BY <1>0, <1>5, <2>1 DEF ReportStage, Goto, TypeOK
    <3>4. phase'[j] = "output" => AtEnd(jobs'[j])
      BY <1>0, <1>5, <2>1, <3>1, <3>2 DEF ReportStage, Goto, TypeOK, AtEnd
    <3>5. QED
      BY <1>0, <1>5, <2>1, <3>1, <3>2, <3>3, <3>4 DEF ReportStage, JobInv, Working, Ended
  <2>2. CASE i # j
    BY <1>0, <1>1, <1>5, <2>2 DEF ReportStage, Goto, TypeOK
  <2>3. QED
    BY <2>1, <2>2
<1>6. ASSUME NEW i \in Jobs, StoreResult(i)
      PROVE  JobInv(j)'
  <2>1. CASE i = j
    <3>1. /\ jobs[j] \in Job
          /\ jobs[j] # None
          /\ outcome[j] \in Outcomes
          /\ jobs'[j] = [jobs[j] EXCEPT !.result = outcome[j], !.age = 0]
          /\ phase'[j] = "done"
      BY <1>0, <1>6, <2>1, JobThere DEF StoreResult, Goto, TypeOK, JobInv, Working
    <3>2. /\ jobs'[j].age = 0
          /\ jobs'[j].result = outcome[j]
          /\ jobs'[j].stage = jobs[j].stage
          /\ jobs'[j].total = jobs[j].total
      BY <3>1 DEF Job
    <3>3. jobs'[j].result = "null" => AtEnd(jobs'[j])
      BY <1>0, <1>6, <2>1, <3>2 DEF StoreResult, JobInv, AtEnd
    <3>4. QED
      BY <1>0, <1>6, <2>1, <3>1, <3>2, <3>3 DEF StoreResult, JobInv, Working, TypeOK
  <2>2. CASE i # j
    BY <1>0, <1>1, <1>6, <2>2 DEF StoreResult, Goto, TypeOK
  <2>3. QED
    BY <2>1, <2>2
<1>7. CASE Sweep
  <2>1. CASE jobs[j] = None
    BY <1>0, <1>7, <2>1 DEF Sweep, JobInv, Working
  <2>2. CASE jobs[j] # None /\ Swept(jobs[j])
    BY <1>0, <1>7, <2>2 DEF Sweep, JobInv, Working, Swept, Ended
  <2>3. CASE jobs[j] # None /\ ~Swept(jobs[j])
    <3>1. jobs'[j] = jobs[j] /\ jobs[j].age \in Nat
      BY <1>0, <1>7, <2>3, JobThere DEF Sweep, Job
    <3>2. Ended(jobs[j]) => jobs[j].age < Retention
      BY <2>3, <3>1 DEF Swept
    <3>3. QED
      BY <1>0, <1>7, <3>1, <3>2 DEF Sweep, JobInv, Working, TypeOK
  <2>4. QED
    BY <2>1, <2>2, <2>3
<1>8. CASE Elapse
  <2>1. CASE jobs[j] = None
    BY <1>0, <1>8, <2>1 DEF Elapse, JobInv, Working
  <2>2. CASE jobs[j] # None
    <3>1. jobs[j] \in Job /\ jobs'[j] = Older(jobs[j])
      BY <1>0, <1>8, <2>2, JobThere DEF Elapse
    <3>2. /\ jobs'[j].stage = jobs[j].stage
          /\ jobs'[j].total = jobs[j].total
          /\ jobs'[j].result = jobs[j].result
          /\ jobs'[j].age <= jobs[j].age + 1
          /\ jobs'[j] \in Job
      BY <3>1, JobUpdates DEF Results
    <3>3. /\ sweep_in' = sweep_in - 1
          /\ sweep_in \in Nat
          /\ jobs[j].age \in Nat
          /\ jobs'[j].age \in Nat
      BY <1>0, <1>8, <3>1, <3>2 DEF Elapse, Left, TypeOK, Job
    <3>4. Ended(jobs'[j]) => jobs'[j].age <= Retention + Period - sweep_in'
      <4>1. Ended(jobs'[j]) => jobs[j].age <= Retention + Period - sweep_in
        BY <1>0, <2>2, <3>2 DEF JobInv, Ended
      <4>2. QED
        BY <3>2, <3>3, <4>1
    <3>5. jobs'[j] # None
      BY <3>2, NoneAssumption
    <3>6. QED
      BY <1>0, <1>8, <2>2, <3>2, <3>4, <3>5 DEF Elapse, JobInv, Working, AtEnd
  <2>3. QED
    BY <2>1, <2>2
<1>9. CASE Restart
  BY <1>9 DEF Restart, JobInv, Working
<1>10. CASE UNCHANGED vars
  BY <1>1, <1>10 DEF vars
<1>11. QED
  BY <1>2, <1>3, <1>4, <1>5, <1>6, <1>7, <1>8, <1>9, <1>10 DEF Next, TaskStep, IInv

------------------------------------------------------------------------------
(* Theorems *)

\* The inductive invariant holds in every reachable state.
THEOREM InductiveInvariant == Spec => []IInv
<1>1. Init => IInv
  BY JobsAssumption DEF Init, IInv, TypeOK, JobInv, Working, Phases, Results
<1>2. IInv /\ [Next]_vars => IInv'
  <2> SUFFICES ASSUME IInv, [Next]_vars PROVE IInv'
    OBVIOUS
  <2>1. TypeOK'
    BY TypeStep DEF IInv
  <2>2. \A j \in Jobs : JobInv(j)'
    BY JobInvStep
  <2>3. QED
    BY <2>1, <2>2 DEF IInv
<1>3. QED
  BY <1>1, <1>2, PTL DEF Spec

\* The variables keep their types.
THEOREM TypeCorrect == Spec => []TypeOK
<1>1. IInv => TypeOK
  BY DEF IInv
<1>2. QED
  BY <1>1, InductiveInvariant, PTL

\* A task that works finds its job, which has no result yet: for no number
\* of jobs and no speed of the sweeper does a result get lost.
THEOREM ResultsAreStored == Spec => []StoreFindsJob
<1>1. IInv => StoreFindsJob
  BY DEF IInv, JobInv, StoreFindsJob, Ended
<1>2. QED
  BY <1>1, InductiveInvariant, PTL

\* Ended jobs are gone by the time their retention and one sleep are over.
THEOREM EndedJobsGo == Spec => []EndedJobsSwept
<1>1. IInv => EndedJobsSwept
  <2> SUFFICES ASSUME IInv, NEW j \in Jobs, jobs[j] # None, Ended(jobs[j])
               PROVE  jobs[j].age <= Retention + Period
    BY DEF EndedJobsSwept
  <2>1. jobs[j].age \in Nat /\ sweep_in \in Nat
    BY JobThere, JobsAssumption DEF IInv, TypeOK, Job
  <2>2. jobs[j].age <= Retention + Period - sweep_in
    BY DEF IInv, JobInv
  <2>3. QED
    BY <2>1, <2>2, JobsAssumption
<1>2. QED
  BY <1>1, InductiveInvariant, PTL
------------------------------------------------------------------------------
(* PipelineJobs implements JobContract *)

\* A job that nothing touched looks the same to its client.
LEMMA SameView ==
    ASSUME NEW j \in Jobs, jobs'[j] = jobs[j], j \in issued' <=> j \in issued
    PROVE  ClientView(j)' = ClientView(j)
BY DEF ClientView, AnswerOf

\* One step of the server, seen by the client of job j.
ViewMoves(j) ==
    \/ ClientView(j)' = ClientView(j)
    \/ /\ ClientView(j) = [answer |-> "unknown", stage |-> 0, total |-> 0, told |-> FALSE]
       /\ ClientView(j)' = [answer |-> "null", stage |-> 0, total |-> ClientView(j)'.total,
                            told |-> FALSE]
    \/ /\ ClientView(j).answer = "null"
       /\ ClientView(j)'.answer = "null"
       /\ ClientView(j)'.stage \in {ClientView(j).stage, ClientView(j).stage + 1}
       /\ ClientView(j)'.total = ClientView(j).total
       /\ ClientView(j).told => ClientView(j)'.told
    \/ /\ ClientView(j).answer = "null"
       /\ ClientView(j)' = [ClientView(j) EXCEPT !.answer = "value"]
    \/ /\ ClientView(j).answer \in {"null", "value"}
       /\ ClientView(j).answer = "null" /\ ClientView(j).stage + 1 < ClientView(j).total
             => restarts' # restarts
       /\ ClientView(j)' = [answer |-> "gone", stage |-> 0, total |-> 0, told |-> FALSE]

\* What a client sees of a job that is there.
LEMMA ViewOfJob ==
    ASSUME NEW j \in Jobs, jobs[j] # None
    PROVE  /\ ClientView(j) = [answer |-> AnswerOf(jobs[j]), stage |-> jobs[j].stage,
                               total |-> jobs[j].total, told |-> jobs[j].told]
           /\ AnswerOf(jobs[j]) \in {"null", "value"}
           /\ AnswerOf(jobs[j]) = "null" <=> jobs[j].result \in {"none", "null"}
BY DEF ClientView, AnswerOf

LEMMA ViewStep ==
    ASSUME IInv, [Next]_vars, NEW j \in Jobs
    PROVE  ViewMoves(j)
<1>0. TypeOK /\ JobInv(j) /\ TypeOK'
  BY TypeStep DEF IInv
<1>1. ASSUME jobs'[j] = jobs[j], j \in issued' <=> j \in issued
      PROVE  ViewMoves(j)
  BY <1>1, SameView DEF ViewMoves
<1>2. ASSUME NEW i \in Jobs, NEW n \in Totals, Submit(i, n)
      PROVE  ViewMoves(j)
  <2>1. CASE i = j
    <3>1. jobs[j] = None /\ j \notin issued
      BY <1>0, <1>2, <2>1 DEF Submit, JobInv
    <3>2. jobs'[j] = [stage |-> 0, total |-> n, told |-> FALSE,
                      result |-> "none", age |-> 0]
      BY <1>0, <1>2, <2>1 DEF Submit, TypeOK
    <3>3. jobs'[j] \in Job
      BY <3>2 DEF Job, Results
    <3>4. jobs'[j] # None
      BY <3>3, NoneAssumption
    <3>5. jobs'[j].stage = 0 /\ jobs'[j].told = FALSE /\ jobs'[j].result = "none"
      BY <3>2
    <3>6. ClientView(j)' = [answer |-> "null", stage |-> 0, total |-> jobs'[j].total,
                            told |-> FALSE]
      BY <3>4, <3>5 DEF ClientView, AnswerOf
    <3>7. ClientView(j) = [answer |-> "unknown", stage |-> 0, total |-> 0, told |-> FALSE]
      BY <3>1 DEF ClientView
    <3>8. ClientView(j)'.total = jobs'[j].total
      BY <3>6
    <3>9. QED
      BY <3>6, <3>7, <3>8 DEF ViewMoves
  <2>2. CASE i # j
    BY <1>0, <1>1, <1>2, <2>2 DEF Submit, TypeOK
  <2>3. QED
    BY <2>1, <2>2
<1>3. ASSUME NEW i \in Jobs,
             Start(i) \/ StageOk(i) \/ StageFails(i) \/ TaskPanics(i) \/ MakeOutput(i)
      PROVE  ViewMoves(j)
  BY <1>1, <1>3 DEF Start, StageOk, StageFails, TaskPanics, MakeOutput
<1>4. ASSUME jobs[j] # None, jobs'[j] # None, jobs[j].result = "none",
             jobs'[j].result = "none",
             jobs'[j].stage \in {jobs[j].stage, jobs[j].stage + 1},
             jobs'[j].total = jobs[j].total,
             jobs[j].told => jobs'[j].told
      PROVE  ViewMoves(j)
  BY <1>4 DEF ViewMoves, ClientView, AnswerOf
<1>5. ASSUME NEW i \in Jobs, UpdateStatus(i)
      PROVE  ViewMoves(j)
  <2>1. CASE i = j
    <3>1. jobs[j] \in Job /\ jobs[j] # None /\ jobs[j].result = "none"
      BY <1>0, <1>5, <2>1, JobThere DEF UpdateStatus, JobInv, Working
    <3>2. jobs'[j] = [jobs[j] EXCEPT !.told = TRUE]
      BY <1>0, <1>5, <2>1 DEF UpdateStatus, TypeOK
    <3>3. /\ jobs'[j].stage = jobs[j].stage
          /\ jobs'[j].total = jobs[j].total
          /\ jobs'[j].told = TRUE
          /\ jobs'[j].result = "none"
      BY <3>1, <3>2 DEF Job
    <3>4. jobs'[j] # None
      BY <3>1, <3>2, JobUpdates, NoneAssumption DEF Results
    <3>5. QED
      BY <1>4, <3>1, <3>3, <3>4
  <2>2. CASE i # j
    BY <1>0, <1>1, <1>5, <2>2 DEF UpdateStatus, TypeOK
  <2>3. QED
    BY <2>1, <2>2
<1>6. ASSUME NEW i \in Jobs, ReportStage(i)
      PROVE  ViewMoves(j)
  <2>1. CASE i = j
    <3>1. /\ jobs[j] \in Job /\ jobs[j] # None /\ jobs[j].result = "none"
          /\ at[j] \in Nat
          /\ (at[j] = 0 /\ jobs[j].stage = 0) \/ jobs[j].stage + 1 = at[j]
      BY <1>0, <1>6, <2>1, JobThere DEF ReportStage, JobInv, Working, TypeOK
    <3>2. jobs'[j] = [jobs[j] EXCEPT !.stage = at[j]]
      BY <1>0, <1>6, <2>1, <3>1 DEF ReportStage, TypeOK
    <3>3. /\ jobs'[j].stage = at[j]
          /\ jobs'[j].total = jobs[j].total
          /\ jobs'[j].told = jobs[j].told
          /\ jobs'[j].result = "none"
      BY <3>1, <3>2 DEF Job
    <3>4. jobs'[j] # None
      BY <3>1, <3>2, JobUpdates, NoneAssumption DEF Results
    <3>5. jobs'[j].stage \in {jobs[j].stage, jobs[j].stage + 1}
      BY <3>1, <3>3
    <3>6. QED
      BY <1>4, <3>1, <3>3, <3>4, <3>5
  <2>2. CASE i # j
    BY <1>0, <1>1, <1>6, <2>2 DEF ReportStage, Goto, TypeOK
  <2>3. QED
    BY <2>1, <2>2
<1>7. ASSUME NEW i \in Jobs, StoreResult(i)
      PROVE  ViewMoves(j)
  <2>1. CASE i = j
    <3>1. /\ jobs[j] \in Job /\ jobs[j] # None /\ jobs[j].result = "none"
          /\ outcome[j] \in Outcomes
      BY <1>0, <1>7, <2>1, JobThere DEF StoreResult, JobInv, Working
    <3>2. jobs'[j] = [jobs[j] EXCEPT !.result = outcome[j], !.age = 0]
      BY <1>0, <1>7, <2>1, <3>1 DEF StoreResult, TypeOK
    <3>3. /\ jobs'[j].stage = jobs[j].stage
          /\ jobs'[j].total = jobs[j].total
          /\ jobs'[j].told = jobs[j].told
          /\ jobs'[j].result = outcome[j]
      BY <3>1, <3>2 DEF Job
    <3>4. jobs'[j] # None
      <4>1. outcome[j] \in Results
        BY <3>1 DEF Outcomes
      <4>2. [jobs[j] EXCEPT !.result = outcome[j], !.age = 0] \in Job
        BY <3>1, <4>1, JobUpdates
      <4>3. QED
        BY <3>2, <4>2, NoneAssumption
    <3>5. ClientView(j) = [answer |-> "null", stage |-> jobs[j].stage,
                           total |-> jobs[j].total, told |-> jobs[j].told]
      BY <3>1 DEF ClientView, AnswerOf
    <3>6. ClientView(j)' = [answer |-> IF outcome[j] = "null" THEN "null" ELSE "value",
                            stage |-> jobs[j].stage,
                            total |-> jobs[j].total, told |-> jobs[j].told]
      BY <3>1, <3>3, <3>4 DEF ClientView, AnswerOf, Outcomes
    <3>7. CASE outcome[j] = "null"
      BY <3>5, <3>6, <3>7 DEF ViewMoves
    <3>8. CASE outcome[j] # "null"
      <4>1. ClientView(j)' = [ClientView(j) EXCEPT !.answer = "value"]
        BY <3>5, <3>6, <3>8
      <4>2. ClientView(j).answer = "null"
        BY <3>5
      <4>3. QED
        BY <4>1, <4>2 DEF ViewMoves
    <3>9. QED
      BY <3>7, <3>8
  <2>2. CASE i # j
    BY <1>0, <1>1, <1>7, <2>2 DEF StoreResult, Goto, TypeOK
  <2>3. QED
    BY <2>1, <2>2
<1>8. ASSUME jobs[j] # None, jobs'[j] = None, issued' = issued,
             jobs[j].result = "none" => restarts' # restarts
      PROVE  ViewMoves(j)
  <2>1. j \in issued
    BY <1>0, <1>8 DEF JobInv
  <2>2. ClientView(j)' = [answer |-> "gone", stage |-> 0, total |-> 0, told |-> FALSE]
    BY <1>8, <2>1 DEF ClientView
  <2>3. /\ ClientView(j).answer = AnswerOf(jobs[j])
        /\ ClientView(j).stage = jobs[j].stage
        /\ ClientView(j).total = jobs[j].total
    BY <1>8, ViewOfJob
  <2>4. jobs[j].result = "null" => ~(jobs[j].stage + 1 < jobs[j].total)
    <3>1. jobs[j].stage \in Nat /\ jobs[j].total \in Nat
      BY <1>0, <1>8, JobThere, JobsAssumption DEF Job
    <3>2. QED
      BY <1>0, <1>8, <3>1 DEF JobInv, AtEnd
  <2>5. QED
    BY <1>8, <2>2, <2>3, <2>4, ViewOfJob DEF ViewMoves
<1>9. CASE Sweep
  <2>1. CASE jobs[j] # None /\ Swept(jobs[j])
    BY <1>8, <1>9, <2>1 DEF Sweep, Swept, Ended
  <2>2. CASE jobs[j] = None \/ ~Swept(jobs[j])
    BY <1>1, <1>9, <2>2 DEF Sweep
  <2>3. QED
    BY <2>1, <2>2
<1>10. CASE Elapse
  <2>1. CASE jobs[j] = None
    BY <1>1, <1>10, <2>1 DEF Elapse
  <2>2. CASE jobs[j] # None
    <3>1. jobs[j] \in Job /\ jobs'[j] = Older(jobs[j]) /\ issued' = issued
      BY <1>0, <1>10, <2>2, JobThere DEF Elapse
    <3>2. /\ jobs'[j].stage = jobs[j].stage
          /\ jobs'[j].total = jobs[j].total
          /\ jobs'[j].told = jobs[j].told
          /\ jobs'[j].result = jobs[j].result
          /\ jobs'[j] # None
      BY <3>1, JobUpdates, NoneAssumption DEF Results
    <3>3. ClientView(j)' = ClientView(j)
      BY <2>2, <3>1, <3>2 DEF ClientView, AnswerOf
    <3>4. QED
      BY <3>3 DEF ViewMoves
  <2>3. QED
    BY <2>1, <2>2
<1>11. CASE Restart
  <2>1. restarts' # restarts /\ issued' = issued /\ jobs'[j] = None
    BY <1>0, <1>11 DEF Restart, TypeOK
  <2>2. QED
    BY <1>1, <1>8, <2>1
<1>12. CASE UNCHANGED vars
  BY <1>1, <1>12 DEF vars
<1>13. QED
  BY <1>2, <1>3, <1>5, <1>6, <1>7, <1>9, <1>10, <1>11, <1>12 DEF Next, TaskStep

\* Every step of the server is a step, or no step, of the contract.
LEMMA ContractStep == IInv /\ [Next]_vars => [Contract!Next]_Contract!vars
<1> SUFFICES ASSUME IInv, [Next]_vars PROVE Contract!Next \/ UNCHANGED Contract!vars
  OBVIOUS
<1>1. restarts' \in {restarts, restarts + 1}
  BY DEF Next, vars, TaskStep, Submit, Start, UpdateStatus, StageOk, StageFails, TaskPanics,
         ReportStage, MakeOutput, StoreResult, Sweep, Elapse, Restart
<1>2. ASSUME NEW j \in Jobs
      PROVE  \/ [i \in Jobs |-> ClientView(i)]'[j] = [i \in Jobs |-> ClientView(i)][j]
             \/ Contract!Accepted(j)
             \/ Contract!Progresses(j)
             \/ Contract!Ends(j)
             \/ Contract!Forgotten(j)
  <2> DEFINE V == [i \in Jobs |-> ClientView(i)]
             M == [answer |-> "unknown", stage |-> 0, total |-> 0, told |-> FALSE]
             W == [answer |-> "gone", stage |-> 0, total |-> 0, told |-> FALSE]
  <2>1. V[j] = ClientView(j) /\ V'[j] = ClientView(j)'
    OBVIOUS
  <2>2. Contract!Unknown = M /\ Contract!Gone = W
    BY DEF Contract!Unknown, Contract!Gone
  <2>3. \/ V'[j] = V[j]
        \/ /\ V[j] = M
           /\ V'[j] = [answer |-> "null", stage |-> 0, total |-> V'[j].total, told |-> FALSE]
        \/ /\ V[j].answer = "null"
           /\ V'[j].answer = "null"
           /\ V'[j].stage \in {V[j].stage, V[j].stage + 1}
           /\ V'[j].total = V[j].total
           /\ V[j].told => V'[j].told
        \/ V[j].answer = "null" /\ V'[j] = [V[j] EXCEPT !.answer = "value"]
        \/ /\ V[j].answer \in {"null", "value"}
           /\ V[j].answer = "null" /\ V[j].stage + 1 < V[j].total => restarts' # restarts
           /\ V'[j] = W
    <3> HIDE DEF V
    <3>1. ViewMoves(j)
      BY ViewStep
    <3>2. QED
      BY <2>1, <3>1 DEF ViewMoves
  <2> HIDE DEF M, W
  <2>4. CASE V[j] = M /\ V'[j] = [answer |-> "null", stage |-> 0, total |-> V'[j].total,
                                 told |-> FALSE]
    BY <2>2, <2>4 DEF Contract!Accepted
  <2>5. CASE V[j].answer = "null" /\ V'[j] = [V[j] EXCEPT !.answer = "value"]
    BY <2>5 DEF Contract!Ends
  <2>6. CASE /\ V[j].answer \in {"null", "value"}
             /\ V[j].answer = "null" /\ V[j].stage + 1 < V[j].total => restarts' # restarts
             /\ V'[j] = W
    BY <2>2, <2>6 DEF Contract!Forgotten, Contract!Found
  <2>7. CASE /\ V[j].answer = "null"
             /\ V'[j].answer = "null"
             /\ V'[j].stage \in {V[j].stage, V[j].stage + 1}
             /\ V'[j].total = V[j].total
             /\ V[j].told => V'[j].told
    BY <2>7 DEF Contract!Progresses
  <2>8. QED
    BY <2>3, <2>4, <2>5, <2>6, <2>7
<1>3. QED
  BY <1>1, <1>2 DEF Contract!Next

\* Whatever the server does, the client of a job sees only what JobContract
\* allows: no value is taken back, no stage goes down, no job that answers
\* null below its last stage disappears while the server lives.
THEOREM ImplementsContract == Spec => KeepsContract
<1>1. Init => Contract!Init
  BY DEF Init, Contract!Init, Contract!Unknown, ClientView
<1>2. QED
  BY <1>1, ContractStep, InductiveInvariant, PTL DEF Spec, KeepsContract, Contract!Spec
==============================================================================
