SPECIFICATION Spec
CONSTANTS
    None = None
    Names = {f, g}
    Users = {u, v}
    Modes = {"W"}
    Hash <- OneBucket
    MaxFiles = 2
    MaxAcl = 1
    MaxRequests = 1
INVARIANTS OverlapHarmless
SYMMETRY TableSymmetry
