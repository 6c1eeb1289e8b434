SPECIFICATION Spec
CONSTANTS
    a = a  b = b  x = x  y = y
    Base = {a, b, x, y}
    NoBase = NoBase
    None = None
    Main = Main
    Clients = {c1, c2}
    InitialFiles = {f}
    Files = {f}
    InitialText <- TwoSentences
    Tags = {v1}
    Requests = {"WRITE"}
    Indices = {0, 1, 2}
    Inserts <- InsertXY
    EditKinds = {"insert"}
    SyncTexts = {}
    MaxEdits = 1
    MaxWords = 3
    MaxCommits = 1
    MaxCrashes = 1
    MayBeKilled = TRUE
    DiskMayFail = TRUE
SYMMETRY ClientSymmetry
VIEW CountsAside
PROPERTIES WholeTexts UndoIsPrevious EditMerged
