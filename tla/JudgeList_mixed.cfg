CONSTANTS
    Conn = {c1, c2}
    NoConn = NoConn
    Name = {n1, n2}
    NoName = NoName
    Sub = {s1, s2, s3}
    NoSub = NoSub
    k1 = k1
    k2 = k2
    Kind = {k1, k2}
    KindOf <- MixedKind
    Lists <- MixedLists
    Faults = {}
    LiveUpdates = FALSE
    Enabling = FALSE
SPECIFICATION Spec
SYMMETRY MixedSymmetry
INVARIANTS MapTracksWork SingleGrading HighPriorityNeverWaits
PROPERTIES NeverOvertaken KeepsPromise
