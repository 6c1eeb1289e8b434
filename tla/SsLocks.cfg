SPECIFICATION Spec
CONSTANTS
    a = a  b = b  x = x  y = y
    Base = {a, b, x, y}
    NoBase = NoBase
    None = None
    Main = Main
    Clients = {c1, c2}
    InitialFiles = {f}
    Files = {f}
    InitialText <- OneSentence
    Tags = {v1}
    Requests = {"READ", "WRITE", "CREATE", "DELETE", "UNDO"}
    Indices = {0, 1}
    Inserts <- InsertX
    EditKinds = {"insert"}
    SyncTexts = {}
    MaxEdits = 0
    MaxWords = 4
    MaxCommits = 2
    MaxCrashes = 1
    MayBeKilled = TRUE
    DiskMayFail = TRUE
SYMMETRY ClientSymmetry
VIEW CountsAside
INVARIANTS TypeOK LockTable FlagNotStuck
PROPERTY ImplementsLocks
