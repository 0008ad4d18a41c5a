SPECIFICATION Spec
CONSTANTS
    t1 = t1
    t2 = t2
    s1 = s1
    s2 = s2
    Slots = {s1, s2}
    Threads <- MCThreads
    Contexts <- MCContexts
    NoContext = "none"
    Replies <- MCReplies
    AnswerSizes <- MCAnswerSizes
    Limit = 9
    MaxRequests = 2
    MaxRounds = 2
    Absent = Absent
    Cut = Cut
    NoTitle = NoTitle
    SomeTitle = SomeTitle
    NoChoice = NoChoice
SYMMETRY Swap
CHECK_DEADLOCK FALSE
PROPERTIES
    SavingKeepsHistory
