SPECIFICATION FairSpec
CONSTANTS
    None = None
    j1 = j1
    Jobs = {j1}
    Totals = {1}
    Retention = 2
    Period = 2
    MaxRestarts = 0
PROPERTIES
    ClientGetsResult
