SPECIFICATION FairSpec
CONSTANTS
    LockTimeouts <- MCLockTimeouts
    PrefSpace <- MCPrefs
    MaxPending = 1
INVARIANTS
    Synchronised
    InactiveIsClean
    DialogOnlyWhenLocked
    GrabHasOwner
    NoDarkDesktop
PROPERTIES
    NoSilentUnlock
    ImplementsScreenSaver
    DesktopComesBack
    PermissionEndsScreen
    LockFollows
CHECK_DEADLOCK FALSE
