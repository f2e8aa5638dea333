SPECIFICATION Spec
CONSTANTS
    LockTimeouts <- MCLockTimeouts
    PrefSpace <- MCActivating
    MaxPending = 2
PROPERTY
    PresentUserKeepsDesktop
CHECK_DEADLOCK FALSE
