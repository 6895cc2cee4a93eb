SPECIFICATION Spec
CONSTANTS
    d1 = d1
    d2 = d2
    d3 = d3
    x1 = x1
    x2 = x2
    s1 = s1
    r1 = r1
    r2 = r2
    i1 = i1
    c1 = c1
    NoIdem = NoIdem
    NoKey = NoKey
    Docs <- ThreeDocs
    Removers <- TwoRemovers
    Readers <- OneReader
    Source <- SameUpload
    Idem <- RetryOfFirst
    Results <- OneResult
    BatchLimit = 2
    MaxAttempts = 1
    MaxCrashes = 1
    QuietStore = TRUE
    DeletesWait = TRUE
INVARIANTS TypeOK LiveObjectsPresent NothingLeftBehind OneAnswerPerKey FailedReadsAreDeletions
CHECK_DEADLOCK FALSE
