\* A batch whose insert arrived but whose reply was lost.
SPECIFICATION Spec
CONSTANTS
    Entries = {e1, e2}
    QueueSize = 2
    BatchSize = 2
CHECK_DEADLOCK FALSE
INVARIANT DroppedAreGone
