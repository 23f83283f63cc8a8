CONSTANTS
    Conn = {c1, c2}
    NoConn = NoConn
    Name = {n1}
    NoName = NoName
    Sub = {s1, s2}
    NoSub = NoSub
    k1 = k1
    Kind = {k1}
    KindOf <- OneKind
    Lists <- OneList
    Faults = {}
    LiveUpdates = FALSE
    Enabling = TRUE
    Worker = {w1}
    Levels = {1, 3}
    Cases = 2
    Flags = {TRUE, FALSE}
    Aborting = FALSE
    Outages = FALSE
SPECIFICATION Spec
SYMMETRY RowSymmetry
INVARIANTS ResultComplete FinishedIsForgotten
