SPECIFICATION Spec
CONSTANTS
    a = a  b = b  x = x  y = y
    Base = {a, b, x, y}
    NoBase = NoBase
    None = None
    Main = Main
    Clients = {c1, c2}
    InitialFiles = {f}
    Files = {f}
    InitialText <- TwoSentences
    Tags = {v1}
    Requests = {"WRITE", "DELETE"}
    Indices = {0, 1}
    Inserts <- InsertX
    EditKinds = {"insert"}
    SyncTexts = {}
    MaxEdits = 0
    MaxWords = 4
    MaxCommits = 2
    MaxCrashes = 0
    MayBeKilled = FALSE
    DiskMayFail = FALSE
PROPERTY RollbackRefused
CHECK_DEADLOCK FALSE
