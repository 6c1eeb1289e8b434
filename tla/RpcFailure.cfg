SPECIFICATION Spec
CONSTANTS
    None = None
    Callers = {c1, c2}
    MaxCalls = 1
    MayBreak = FALSE
    Spurious = FALSE
CHECK_DEADLOCK FALSE
PROPERTY FailureMeansDown
