SPECIFICATION Spec
CONSTANTS
    None = None
    Names = {f, g, h}
    Users = {u, v}
    Modes = {"W"}
    Hash <- OneBucket
    MaxFiles = 3
    MaxAcl = 1
    MaxRequests = 1
INVARIANTS TypeOK IndexSound Recoverable
PROPERTIES RightsGranted ImplementsStore
SYMMETRY TableSymmetry
