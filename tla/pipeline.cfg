\* A limit of three bytes and bodies of up to six, in any chunks, so that the
\* limit is met, reached exactly, and passed by the first or a later chunk.
SPECIFICATION Spec
CONSTANTS
    MaxBytes = 3
    MaxBody = 6
CHECK_DEADLOCK FALSE
INVARIANTS
    OversizeIsRefused
    LogTellsTheAnswer
    HeadersOnEveryAnswer
