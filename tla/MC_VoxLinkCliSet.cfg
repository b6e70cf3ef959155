SPECIFICATION CliSpec
CONSTANTS
    p1 = p1
    p2 = p2
    Registry <- MCRegistry
    Value = {"off", "on"}
    Default <- MCDefault
    RejectCode = {"BAD_TYPE"}
    NoValue = NoValue
    Seq8 = {0, 1, 2}
    QueueCapacity = 3
    TxCapacity = 20
    HighWater = 14
    Size <- MCSize
    HeartbeatTimeout = 2
    HeartbeatInterval = 1
    Command <- OnlySet
    Chunk = 4
    StressSends = 1
    MaxCommands = 2
    MaxFaults = 1
    MaxKills = 1
    MaxBeats = 1
INVARIANT
    SetsAreConfirmed
CHECK_DEADLOCK FALSE
