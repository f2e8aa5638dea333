CONSTANTS
    Daemons = {d1, d2}
    MaxTrouble = 3
SPECIFICATION Spec
INVARIANTS
    OneDaemon
CHECK_DEADLOCK FALSE
