SPECIFICATION Spec
CONSTANTS
    N = 3
    Files = {f}
    Clients = {k1, k2}
    MaxTime = 3
    MaxChanges = 3
    MaxCrashes = 0
    MaxInbox = 2
    SameSecond = FALSE
    CallsMayFail = FALSE
CHECK_DEADLOCK FALSE
INVARIANT BackupCurrent
