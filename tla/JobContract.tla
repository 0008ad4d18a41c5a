----------------------------- MODULE JobContract -----------------------------
(****************************************************************************)
(* What the client of an asynchronous pipeline execution may rely on when   *)
(* it polls /jobs/{id} (plugin-host/src/routes/mod.rs job_status), whatever *)
(* the server does meanwhile.  The answer is a "result", which is null or a *)
(* value, a "stage", "totalStages" and a "status".  A job it was given is   *)
(* found, with a stage that only goes up, until it shows a value, which is  *)
(* final, or has reported its last stage; and once it is not found it is    *)
(* never found again.  A null says neither that the job works nor that it   *)
(* ended with null: only below the last stage does it promise that the job  *)
(* stays.  A restart of the server, which keeps no jobs, may take any job   *)
(* away.                                                                    *)
(****************************************************************************)
EXTENDS Naturals

CONSTANT Jobs

VARIABLES
    view,    \* for each job, what the client can know of it
    server   \* which life of the server this is

vars == <<view, server>>

Unknown == [answer |-> "unknown", stage |-> 0, total |-> 0, told |-> FALSE]
Gone == [answer |-> "gone", stage |-> 0, total |-> 0, told |-> FALSE]

Found(j) == view[j].answer \in {"null", "value"}

Init ==
    /\ view = [j \in Jobs |-> Unknown]
    /\ server = 0

Accepted(j) ==
    /\ view[j] = Unknown
    /\ view'[j] = [answer |-> "null", stage |-> 0, total |-> view'[j].total, told |-> FALSE]

\* A stage was passed, or a plugin set the status text.
Progresses(j) ==
    /\ view[j].answer = "null"
    /\ view'[j].answer = "null"
    /\ view'[j].stage \in {view[j].stage, view[j].stage + 1}
    /\ view'[j].total = view[j].total
    /\ view[j].told => view'[j].told

\* The output or the error is there.
Ends(j) ==
    /\ view[j].answer = "null"
    /\ view'[j] = [view[j] EXCEPT !.answer = "value"]

Forgotten(j) ==
    /\ Found(j)
    /\ view[j].answer = "null" /\ view[j].stage + 1 < view[j].total => server' # server
    /\ view'[j] = Gone

\* Several jobs may be forgotten in one step.
Next ==
    /\ server' \in {server, server + 1}
    /\ \A j \in Jobs : \/ view'[j] = view[j]
                       \/ Accepted(j)
                       \/ Progresses(j)
                       \/ Ends(j)
                       \/ Forgotten(j)

Spec == Init /\ [][Next]_vars
==============================================================================
