SPECIFICATION FairSpec
CONSTANTS
    MinProcs = 1
    MaxProcs = 2
    MemLimited = TRUE
    Wait = TRUE
    Clients = 1
    Crashing = {1, 2}
    MaxForks = 3
    Main = Main
    Monitor = Monitor
    Owner = Owner
    Nobody = Nobody
    Torn = Torn
CONSTRAINT Followed
INVARIANTS
    TypeOK
    
    EveryChildTracked
PROPERTIES
    CrashedChildReplaced
    CallsGoOn
CHECK_DEADLOCK FALSE
