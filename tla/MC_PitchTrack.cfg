SPECIFICATION FairSpec
CONSTANTS
    Period = {8, 10}
    HopStep = {3, 7}
    Lag = {5, 20}
    History = 24
    Far = 36
    Attack = 2
    Release = 3
    MaxCoastHops = 2
    Byte = 4
INVARIANTS
    TypeOK
    LockedIsEarned
PROPERTIES
    MarksIncrease
    LockedSurvivesTwo
    SilenceUnlocks
    CoastingEnds
