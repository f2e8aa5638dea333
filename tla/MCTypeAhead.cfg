CONSTANTS
    Windows = {w1, w2}
    MaxQueuedEvents = 2
    MaxKeys = 5
SPECIFICATION Spec
SYMMETRY WindowSymmetry
INVARIANTS
    KeysKept
    AnswerIsFresh
CHECK_DEADLOCK FALSE
