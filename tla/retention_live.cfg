SPECIFICATION FairSpec
CONSTANTS
    d1 = d1
    d2 = d2
    d3 = d3
    x1 = x1
    x2 = x2
    s1 = s1
    r1 = r1
    r2 = r2
    i1 = i1
    c1 = c1
    NoIdem = NoIdem
    NoKey = NoKey
    Docs <- TwoDocs
    Removers <- TwoRemovers
    Readers <- NoReader
    Source <- SameUpload
    Idem <- NoIdems
    Results <- TwoResults
    BatchLimit = 1
    MaxAttempts = 2
    MaxCrashes = 0
    QuietStore = TRUE
    DeletesWait = TRUE
PROPERTIES DeletionErases RetentionEnforced
CHECK_DEADLOCK FALSE
