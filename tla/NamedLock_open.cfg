SPECIFICATION Spec
CONSTANTS
    p1 = p1
    p2 = p2
    p3 = p3
    Proc = {p1, p2, p3}
    Modes <- Uses
    Faulty = {p1}
    Mortal = {p2}
    MaxSems = 2
    MaxPages = 2
INVARIANTS
    TypeOK
    NameIsNeverDestroyed
    OverwriteMakesWay
    PageMeansSemaphore
    DestructionReachesAll
CHECK_DEADLOCK FALSE
