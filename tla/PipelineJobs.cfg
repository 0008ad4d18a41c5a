SPECIFICATION FairSpec
CONSTANTS
    None = None
    j1 = j1
    j2 = j2
    Jobs = {j1, j2}
    Totals = {0, 2}
    Retention = 2
    Period = 2
    MaxRestarts = 1
PROPERTIES
    KeepsContract
    JobsEndAndGo
