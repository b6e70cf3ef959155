SPECIFICATION ShareSpec
CONSTANTS
    Publisher = {worker, other}
    Reader = {audio}
    Field = {hz, timestamp}
    SeqModulus = 6
    MaxPublications = 3
    Capacity = 3
    Part = {low, high}
    CounterModulus = 6
    MaxMarks = 5
    Worker = worker
    Audio = audio
    Timestamp = timestamp
INVARIANTS
    SnapshotsWhole
    MarksWhole
PROPERTIES
    SnapshotsFresh
    SnapshotExact
    MarksReachPitch
