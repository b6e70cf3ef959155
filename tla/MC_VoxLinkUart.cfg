SPECIFICATION FairSpec
CONSTANTS
    p1 = p1
    p2 = p2
    Registry <- MCRegistry
    Value = {"off", "on"}
    Default <- MCDefault
    RejectCode = {"BAD_LENGTH"}
    NoValue = NoValue
    Seq8 = {0, 1}
    QueueCapacity = 3
    TxCapacity = 10
    HighWater = 7
    Size <- MCSize
    HeartbeatTimeout = 2
    HeartbeatInterval = 1
    ChunkFrames = 3
    DrainBudget = 5
    TickStep = {1, 3}
    ClientSends <- MCClientSends
    MaxFrames = 4
INVARIANTS
    MirrorConverges
    RevisionsInOrder
    StateFollowsEngine
    OneAnswerPerSeq
PROPERTIES
    SilentLinkDrops
    ResponsesLeave
