CONSTANTS
    Conn = {c1, c2}
    NoConn = NoConn
    Name = {n1}
    NoName = NoName
    Sub = {s1}
    NoSub = NoSub
    k1 = k1
    Kind = {k1}
    KindOf <- OneKind
    Lists <- OneList
    Faults = {}
    LiveUpdates = FALSE
    Enabling = FALSE
    Worker = {w1}
    Levels = {1, 2}
    Cases = 1
    Flags = {FALSE}
    Aborting = TRUE
    Outages = TRUE
SPECIFICATION FairSpec
INVARIANT RefusedOnlyWhileJudged
PROPERTY EventuallyFinal
