SPECIFICATION Spec
CONSTANTS
    LockTimeouts <- MCLockTimeouts
    PrefSpace <- MCPrefs
    MaxPending = 2
PROPERTY
    LockOutlastsActivity
CHECK_DEADLOCK FALSE
