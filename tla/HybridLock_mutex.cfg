SPECIFICATION FairSpec
CONSTANTS
    p1 = p1
    p2 = p2
    p3 = p3
    Nobody = Nobody
    Proc = {p1, p2, p3}
    Timed = {p3}
    Signalled = {p3}
    Unlinkers = {p1, p2}
    Starters = {}
    Mortal = {p2}
INVARIANTS
    TypeOK
    MutualExclusion
    PermitConserved
    HolderIsPublished
PROPERTIES
    ImplementsBinaryLock
    WaiterServed
CHECK_DEADLOCK FALSE
