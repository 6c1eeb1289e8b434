SPECIFICATION Spec
CONSTANTS
    N = 2
    Files = {f}
    Clients = {k1}
    MaxTime = 1
    MaxChanges = 1
    MaxCrashes = 1
    MaxInbox = 1
    SameSecond = TRUE
    CallsMayFail = FALSE
CHECK_DEADLOCK FALSE
INVARIANTS TypeOK ReplicasApart ReplicasHold
