SPECIFICATION NotebookSpec
CONSTANTS
    t1 = t1
    t2 = t2
    s1 = s1
    s2 = s2
    Visitors = {s1}
    ThreadIds <- MCThreadIds
    MaxVisits = 3
    MaxReplies = 3
    MaxMade = 4
    MaxPath = 2
    NoFile = NoFile
    CutFile = CutFile
SYMMETRY Swap
CHECK_DEADLOCK FALSE
INVARIANTS
    MadeIsReachable
    RowsTellNodes
    UndoneWhole
    CopyExtends
    ThreadsStandInGraph
