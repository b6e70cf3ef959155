SPECIFICATION Spec
CONSTANTS
    Registry <- MCRegistry
    Value = {"config", "default", "set"}
    Default <- MCDefault
    Config <- MCConfig
    Modes <- OneChange
    Capacity = 3
    MaxSets = 3
INVARIANT
    SettledCoherence
CHECK_DEADLOCK FALSE
