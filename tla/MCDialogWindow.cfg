CONSTANTS
    MaxLines = 2
    MaxShakes = 2
SPECIFICATION Spec
INVARIANTS
    NothingLeft
    QuitIsHeeded
PROPERTIES
    NotKilledUnasked
    EndIsHeard
CHECK_DEADLOCK FALSE
