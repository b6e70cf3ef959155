SPECIFICATION FairPathSpec
CONSTANTS
    Audio = Audio
    Worker = Worker
    User <- MCUser
    Capacity = 3
    Window = 3
    Hop = 2
    MaxInput = 6
INVARIANTS
    TypeOK
    ResetIsAlone
    WindowContiguous
PROPERTIES
    HopsApart
    SamplesInOrder
    
    ResetEnds
