SPECIFICATION Spec
CONSTANTS
    d1 = d1
    d2 = d2
    d3 = d3
    x1 = x1
    x2 = x2
    s1 = s1
    r1 = r1
    r2 = r2
    i1 = i1
    c1 = c1
    NoIdem = NoIdem
    NoKey = NoKey
    Docs <- TwoDocs
    Removers <- OneRemover
    Readers <- NoReader
    Source <- SameUpload
    Idem <- NoIdems
    Results <- OneResult
    BatchLimit = 1
    MaxAttempts = 1
    MaxCrashes = 0
    QuietStore = FALSE
    DeletesWait = TRUE
INVARIANTS LiveObjectsPresent
CHECK_DEADLOCK FALSE
