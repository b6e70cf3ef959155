SPECIFICATION Spec
CONSTANTS
    Registry <- MCRegistry
    Value = {"config", "default", "set"}
    Default <- MCDefault
    Config <- MCConfig
    Modes <- NoChanges
    Capacity = 3
    MaxSets = 3
INVARIANT
    BootCoherence
CHECK_DEADLOCK FALSE
