SPECIFICATION FairSpec
CONSTANTS
    None = None
    Callers = {c1, c2, c3}
    MaxCalls = 2
    MayBreak = TRUE
    Spurious = TRUE
CHECK_DEADLOCK FALSE
INVARIANTS TypeOK OneOutstanding
PROPERTY DropReleasesAll
