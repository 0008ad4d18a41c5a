SPECIFICATION MCSpec
CONSTANTS
    None = None
    u1 = u1
    u2 = u2
    u3 = u3
    o1 = o1
    a1 = a1
    a2 = a2
    b1 = b1
    s1 = s1
    s2 = s2
    Users = {u1, u2, u3}
    Orgs = {o1}
    Hashes = {a1, a2, b1}
    Slots = {s1, s2}
    Operations = {"upload", "remove", "share", "add user"}
    PluginId <- TwoPlugins
    Founder <- FoundedByU1
INVARIANTS
    AloneRefsHaveWorkers
    OneVersionEach
    VisibleIsEarned
PROPERTIES
    AloneCleanupIsComplete
