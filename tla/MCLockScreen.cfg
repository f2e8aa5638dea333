SPECIFICATION Spec
CONSTANTS
    MaxMonitors = 3
    MaxPending = 2
INVARIANTS
    OneDialog
    WindowsFollowMonitors
    UnlockReachable
PROPERTIES
    OkIsNotLost
    HotplugBringsDialog
    ImplementsScreenSaver
CHECK_DEADLOCK FALSE
