SPECIFICATION Spec
CONSTANTS
    MaxCache = 7
    Length = {1, 3, 5, 7}
    r1 = r1
    r2 = r2
    Reader = {r1, r2}
    Start = Start
    MaxLines = 5
INVARIANTS
    TypeOK
    CacheIsTail
    WholeNewLines
    NothingMissed
