SPECIFICATION FairSpec
CONSTANTS
    w1 = w1
    w2 = w2
    r1 = r1
    r2 = r2
    Client = Client
    Manager = Manager
    Nobody = Nobody
    NoRequest = NoRequest
    NoReply = NoReply
    Worker = {w1, w2}
    Late = {w2}
    Mortal = {}
    MaxKills = 0
    Request = {r1, r2}
    RequestSize = {2, 3}
    ReplySize = {2, 6}
    PageSize = 4
    MapSize <- Lengths
INVARIANTS
    TypeOK
    CriticalArea
    MessagesUseTheNewestMap
    OldMapsAreInvalid
    RequestStaysPosted
    ConnectionSurvives
PROPERTIES
    ImplementsRpcCall
    CallReturns
