SPECIFICATION Spec
CONSTANTS
    w1 = w1
    w2 = w2
    r1 = r1
    r2 = r2
    Client = Client
    Manager = Manager
    Nobody = Nobody
    NoRequest = NoRequest
    NoReply = NoReply
    Worker = {w1, w2}
    Late = {}
    Mortal = {w1}
    MaxKills = 1
    Request = {r1, r2}
    RequestSize = {2}
    ReplySize = {2, 6}
    PageSize = 4
    MapSize <- Lengths
CONSTRAINT Followed
INVARIANTS
    AnswerIsForThisCall
CHECK_DEADLOCK FALSE
