CONSTANTS
    NumCrtcs = 2
    NumSteps = 4
    MaxTrouble = 2
SPECIFICATION Spec
INVARIANTS
    Recoverable
    NoFadeLeft
PROPERTIES
    BrightAgain
CHECK_DEADLOCK FALSE
