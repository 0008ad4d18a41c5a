SPECIFICATION Spec
CONSTANTS
    None = None
    k1 = k1
    p1 = p1
    o1 = o1
    m1 = m1
    l1 = l1
    d1 = d1
    s1 = s1
    s2 = s2
    Files = {"file 1", "file 2", "file 3"}
    Facts = {k1}
    Kind <- OneKey
    Changes = {"add", "remove"}
    Slots = {s1, s2}
    MaxRestarts = 0
INVARIANTS
    FileParses
