CONSTANTS
    Conn = {c1}
    NoConn = NoConn
    Name = {n1}
    NoName = NoName
    Sub = {s1}
    NoSub = NoSub
    k1 = k1
    Kind = {k1}
    KindOf <- OneKind
    Lists <- OneList
    Faults = {}
    LiveUpdates = FALSE
    Enabling = FALSE
    Worker = {w1}
    Levels = {1, 2}
    Cases = 2
    Flags = {FALSE}
    Aborting = TRUE
    Outages = FALSE
SPECIFICATION Spec

INVARIANT ResultComplete
