SPECIFICATION FairSpec
CONSTANTS
    Ids = {d1, d2}
    Tasks = {t1, t2}
    Configs <- Variants
    Modes = {"app", "tenant"}
    None = None
    ErrorCap = 3
    MaxRegistrations = 2
    MaxRestarts = 1
\* A server without a live task and with no request coming is idle.
CHECK_DEADLOCK FALSE
INVARIANT OneRunAtATime
INVARIANT StatusTellsErrors
PROPERTY RunsNeverAborted
PROPERTY OnlyRegisteringDetaches
PROPERTY PolledDaemonsRun
