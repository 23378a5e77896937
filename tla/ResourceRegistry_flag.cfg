SPECIFICATION Spec
CONSTANTS
    srv = srv
    mgr = mgr
    s1 = s1
    s2 = s2
    m1 = m1
    Proc = {srv, mgr}
    Thread = {s1, s2, m1}
    Main = {s1, m1}
    Home <- Homes
    Task <- Tasks
    Nobody = Nobody
    Zeros = Zeros
    Mortal = {srv}
CONSTRAINT Followed
INVARIANTS
    LockAcquired
CHECK_DEADLOCK FALSE
