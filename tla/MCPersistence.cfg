SPECIFICATION Spec
CONSTANTS
    None = None
    k1 = k1
    p1 = p1
    o1 = o1
    m1 = m1
    l1 = l1
    d1 = d1
    s1 = s1
    s2 = s2
    Files = {"file 1", "file 2"}
    Facts = {k1, p1, o1}
    Kind <- KeyPluginOrganization
    Changes = {"add", "remove"}
    Slots = {s1}
    MaxRestarts = 1
INVARIANTS
    SavedWhenQuiet
PROPERTIES
    ImplementsStateFile
