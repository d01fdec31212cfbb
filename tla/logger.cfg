\* Three entries for a queue of two: it fills up, batches hold one or two entries.
SPECIFICATION FairSpec
CONSTANTS
    Entries = {e1, e2, e3}
    QueueSize = 2
    BatchSize = 2
CHECK_DEADLOCK FALSE
INVARIANTS
    TypeOK
    UnfinishedCount
    NothingVanishes
    DroppedCount
    FlushedMeansSettled
PROPERTIES
    GivenUpIsFinal
    ImplementsWriteBehind
    WorkerDrains
    StopEnds
