SPECIFICATION FairSpec
CONSTANTS
    c1 = c1
    c2 = c2
    Conn = {c1, c2}
    Leaving = {c1}
    Resizing = {c2}
INVARIANTS
    TypeOK
    OneWorkerPerConnection
    NoCallIsCutShort
PROPERTIES
    ConnectionServed
    DeadConnectionLetGo
    LastWorkerEndsShutdown
CHECK_DEADLOCK FALSE
