SPECIFICATION FairSpec
CONSTANTS
    Scripts <- AllScripts
    Patience = 2
    Grace = 1
    MaxRuns = 2
    MaxFaults = 2
INVARIANTS
    EvidenceFirst
    PassIsEarned
    ExitIsHonest
    OwnRows
    CaseOfOneBoot
PROPERTY RunEnds
CHECK_DEADLOCK FALSE
