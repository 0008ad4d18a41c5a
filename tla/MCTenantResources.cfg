SPECIFICATION Spec
CHECK_DEADLOCK FALSE
CONSTANTS
    u1 = u1
    u2 = u2
    o1 = o1
    None = None
    n1 = n1
    Users = {u1, u2}
    Orgs = {o1}
    Names = {n1}
    Slots = {1, 2}
    MaxRequests = 4
    MaxSaves = 1
    MaxRestarts = 1
SYMMETRY UsersAlike
INVARIANTS
    RefsResolve
    ListedAreMembers
    SharedIsEarned
