SPECIFICATION FairSpec
CONSTANTS
    Registry <- MCRegistry
    Value = {"config", "default", "set"}
    Default <- MCDefault
    Config <- MCConfig
    Modes <- AnyMode
    Capacity = 3
    MaxSets = 3
INVARIANTS
    AcceptedSetsArrive
PROPERTY
    BootSettles
CHECK_DEADLOCK FALSE
