CONSTANTS
    Conn = {c1, c2, c3}
    NoConn = NoConn
    Name = {n1, n2}
    NoName = NoName
    Sub = {s1, s2, s3}
    NoSub = NoSub
    k1 = k1
    k2 = k2
    Kind = {k1, k2}
    KindOf <- SameKind
    Lists <- SameLists
    Faults = {}
    LiveUpdates = FALSE
    Enabling = FALSE
SPECIFICATION Spec
SYMMETRY SameSymmetry
INVARIANT RejudgeWaitsForReserveOnly
PROPERTY ReserveKept
