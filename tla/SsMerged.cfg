SPECIFICATION Spec
CONSTANTS
    a = a  b = b  x = x  y = y
    Base = {a, b, x, y}
    NoBase = NoBase
    None = None
    Main = Main
    Clients = {c1, c2}
    InitialFiles = {f}
    Files = {f}
    InitialText <- TwoSentences
    Tags = {v1}
    Requests = {"WRITE"}
    Indices = {0, 1}
    Inserts <- InsertX
    EditKinds = {"insert"}
    SyncTexts = {}
    MaxEdits = 1
    MaxWords = 4
    MaxCommits = 2
    MaxCrashes = 0
    MayBeKilled = FALSE
    DiskMayFail = FALSE
INVARIANT CommitMerged
