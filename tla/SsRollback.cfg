SPECIFICATION Spec
CONSTANTS
    a = a  b = b  x = x  y = y
    Base = {a, b, x, y}
    NoBase = NoBase
    None = None
    Main = Main
    Clients = {c1}
    InitialFiles = {f}
    Files = {f}
    InitialText <- TwoSentences
    Tags = {v1}
    Requests = {"READ", "CREATE", "DELETE", "UNDO", "CHECKPOINT", "REVERT", "SYNC"}
    Indices = {0, 1}
    Inserts <- InsertX
    EditKinds = {"insert"}
    SyncTexts <- RemoteTexts
    MaxEdits = 0
    MaxWords = 4
    MaxCommits = 2
    MaxCrashes = 0
    MayBeKilled = FALSE
    DiskMayFail = FALSE
INVARIANT CountsMatch
PROPERTIES WholeTexts UndoIsPrevious
