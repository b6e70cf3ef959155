SPECIFICATION Spec
CONSTANTS
    Capacity = 4
    Change = {c1, c2}
    NoChange = NoChange
INVARIANTS
    TypeOK
    LiveEntriesWhole
    ReadIntact
    PoppedWhole
PROPERTIES
    ImplementsFifo
