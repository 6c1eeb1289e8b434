SPECIFICATION FairSpec
CONSTANTS
    a = a  b = b  x = x  y = y
    Base = {a, b, x, y}
    NoBase = NoBase
    None = None
    Main = Main
    Clients = {c1}
    InitialFiles = {f}
    Files = {f}
    InitialText <- OneSentence
    Tags = {v1}
    Requests = {"WRITE", "UNDO", "REVERT", "CHECKPOINT"}
    Indices = {0}
    Inserts <- InsertX
    EditKinds = {"replace", "delete"}
    SyncTexts = {}
    MaxEdits = 1
    MaxWords = 4
    MaxCommits = 2
    MaxCrashes = 0
    MayBeKilled = FALSE
    DiskMayFail = FALSE
PROPERTY HandlerReturns
