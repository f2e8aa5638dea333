CONSTANTS
    Daemons = {d1, d2}
    MaxTrouble = 3
SPECIFICATION Spec
INVARIANTS
    NameIsServed
PROPERTIES
    Reconnects
CHECK_DEADLOCK FALSE
