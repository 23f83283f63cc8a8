CONSTANTS
    Conn = {c1, c2}
    NoConn = NoConn
    Name = {n1}
    NoName = NoName
    Sub = {s1, s2}
    NoSub = NoSub
    k1 = k1
    k2 = k2
    Kind = {k1, k2}
    KindOf <- SameKind
    Lists <- SameLists
    Faults = {"fetch", "send", "close"}
    LiveUpdates = TRUE
    Enabling = TRUE
SPECIFICATION Spec
SYMMETRY SameSymmetry
INVARIANTS TypeOK QueueWellFormed
