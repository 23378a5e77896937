SPECIFICATION SpecRecover
CONSTANTS
    p1 = p1
    p2 = p2
    p3 = p3
    Nobody = Nobody
    Proc = {p1, p2, p3}
    Timed = {p3}
    Signalled = {}
    Unlinkers = {}
    Starters = {p2}
    Mortal = {}
PROPERTIES
    ForcedUnlockSparesTheLiving
