SPECIFICATION Spec
CONSTANTS
    N = 2
    Files = {f}
    Clients = {k1}
    MaxTime = 1
    MaxChanges = 0
    MaxCrashes = 1
    MaxInbox = 2
    SameSecond = FALSE
    CallsMayFail = FALSE
CHECK_DEADLOCK FALSE
INVARIANT BackupRestored
