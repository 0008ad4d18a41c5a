SPECIFICATION Spec
CONSTANTS
    None = None
    n1 = n1
    n2 = n2
    n3 = n3
    n4 = n4
    k1 = k1
    s1 = s1
    s2 = s2
    Names = {n1, n2, n3, n4}
    Keys = {k1}
    Slots = {s1, s2}
    Registrars = {s1}
SYMMETRY Alike
INVARIANTS
    SidesAgree
PROPERTIES
    RemovedKeysOpenNothing
