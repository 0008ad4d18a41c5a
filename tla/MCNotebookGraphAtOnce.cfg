SPECIFICATION NotebookSpec
CONSTANTS
    t1 = t1
    t2 = t2
    s1 = s1
    s2 = s2
    Visitors = {s1, s2}
    ThreadIds <- MCThreadIds
    MaxVisits = 2
    MaxReplies = 2
    MaxMade = 2
    MaxPath = 2
    NoFile = NoFile
    CutFile = CutFile
SYMMETRY Swap
CHECK_DEADLOCK FALSE
INVARIANTS
    RowsTellNodes
