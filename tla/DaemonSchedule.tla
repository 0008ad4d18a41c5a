--------------------------- MODULE DaemonSchedule ---------------------------
(****************************************************************************)
(* When an active daemon runs (plugin-host/src/daemon.rs): two clocks meet. *)
(* The task's tokio interval ticks every Frequency units from the moment    *)
(* the task started; next_run is set to Frequency units after the END of    *)
(* the last run.  A tick that finds next_run in the future is lost.         *)
(*                                                                          *)
(* One enabled daemon of either kind, one task.  A unit of time is longer   *)
(* than the jitter of the timer and shorter than a run that calls a plugin, *)
(* which takes at least one unit.  Other runs and handlers may hold the     *)
(* registry's lock meanwhile.                                               *)
(****************************************************************************)
EXTENDS Integers

CONSTANTS
    Frequency,  \* frequency_seconds
    MaxRun,     \* the longest a run takes
    MaxWait     \* the longest a task waits for the registry's lock

ASSUME ScheduleAssumption ==
    /\ Frequency \in Nat \ {0}
    /\ MaxRun \in Nat \ {0}
    /\ MaxWait \in Nat

VARIABLES
    task_at,    \* where the task is
    tick_in,    \* time until the interval's next tick; negative: overdue
    next_run,   \* time until the daemon is due
    busy,       \* time spent there
    since_end,  \* time since the last run ended (since registering, at first)
    since_called, \* the same for the last run that called its plugin or
                \* pipeline, counted up to Frequency
    since_begin \* time since the last run began (since registering, at first)

scheduleVars == <<task_at, tick_in, next_run, busy, since_end, since_called, since_begin>>

Pos(n) == IF n > 0 THEN n ELSE 0

\* The longest time a daemon waits between two runs.
MaxGap == 2 * Frequency + MaxWait

\* Daemon::new sets next_run; the first tick of an interval is immediate.
ScheduleInit ==
    /\ task_at = "ticking"
    /\ tick_in = 0
    /\ next_run = Frequency
    /\ busy = 0
    /\ since_end = 0
    /\ since_called = 0
    /\ since_begin = 0

\* interval.tick().await: overdue ticks come in a burst, each moves the
\* deadline by one period.
TickReceived ==
    /\ task_at = "ticking"
    /\ tick_in <= 0
    /\ task_at' = "locking"
    /\ tick_in' = tick_in + Frequency
    /\ busy' = 0
    /\ UNCHANGED <<next_run, since_end, since_called, since_begin>>

ShouldRun == next_run = 0

\* The task has the lock and the daemon is due: Daemon::run begins.
RunBegins ==
    /\ task_at = "locking"
    /\ ShouldRun
    /\ task_at' = "running"
    /\ busy' = 0
    /\ since_begin' = 0
    /\ UNCHANGED <<tick_in, next_run, since_end, since_called>>

\* The task has the lock and the daemon is not due: the tick is lost.
TickLost ==
    /\ task_at = "locking"
    /\ ~ShouldRun
    /\ task_at' = "ticking"
    /\ busy' = 0
    /\ UNCHANGED <<tick_in, next_run, since_end, since_called, since_begin>>

\* Mutant: next_run counts from the moment the run began.
NextRunFromBegin == Pos(Frequency - since_begin)

\* Mutant: the next run is scheduled a period too late.
NextRunLate == 2 * Frequency + 1

\* chrono::Utc::now() + frequency, when the run is over.
NextRun == Frequency

\* The plugin or the pipeline came back, well or not.
RunEnds ==
    /\ task_at = "running"
    /\ busy >= 1
    /\ task_at' = "ticking"
    /\ next_run' = NextRun
    /\ since_end' = 0
    /\ since_called' = 0
    /\ busy' = 0
    /\ UNCHANGED <<tick_in, since_begin>>

\* No such pipeline: the run returns early, having only looked it up, and
\* leaves the daemon due.
RunMissed ==
    /\ task_at = "running"
    /\ busy = 0
    /\ task_at' = "ticking"
    /\ since_end' = 0
    /\ busy' = 0
    /\ UNCHANGED <<tick_in, next_run, since_called, since_begin>>

\* Time passes while the interval has no tick ready, while others hold the
\* lock, and while the run takes.
Elapse ==
    /\ \/ task_at = "ticking" /\ tick_in > 0
       \/ task_at = "locking" /\ busy < MaxWait
       \/ task_at = "running" /\ busy < MaxRun
    /\ tick_in' = tick_in - 1
    /\ next_run' = Pos(next_run - 1)
    /\ busy' = IF task_at = "ticking" THEN 0 ELSE busy + 1
    /\ since_end' = since_end + 1
    /\ since_called' = IF since_called < Frequency THEN since_called + 1 ELSE since_called
    /\ since_begin' = since_begin + 1
    /\ UNCHANGED task_at

ScheduleNext == TickReceived \/ RunBegins \/ TickLost \/ RunEnds \/ RunMissed \/ Elapse

ScheduleSpec == ScheduleInit /\ [][ScheduleNext]_scheduleVars
------------------------------------------------------------------------------
\* A run begins no sooner than Frequency after the end of the last one that
\* called its plugin or pipeline, however long that took, however many overdue
\* ticks it left behind and however many runs found no pipeline in between.
RunsSpaced ==
    [][task_at # "running" /\ task_at' = "running" => since_called >= Frequency]_scheduleVars

\* An active daemon is never idle for longer than two periods and one wait
\* for the lock: at most one tick that finds it idle is lost.
IdleBounded == task_at # "running" => since_end <= MaxGap

\* frequency_seconds is "how often the daemon should run" (daemon.rs:35): with
\* runs shorter than a period, no whole period passes without a run beginning.
KeepsFrequency == since_begin < 2 * Frequency
==============================================================================
