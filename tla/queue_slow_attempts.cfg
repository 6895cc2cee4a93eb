SPECIFICATION Spec
CONSTANTS
    w1 = w1
    w2 = w2
    w3 = w3
    Jobs <- TwoJobs
    Workers <- TwoWorkers
    GpuJobs <- AllCpu
    GpuWorkers <- AllCpu
    MaxAttempts = 2
    CandidateLimit = 2
    MaxCrashes = 1
    LeaseOutlivesWork = FALSE
    ShortSessions = TRUE
SYMMETRY WorkerSymmetry
INVARIANTS TypeOK BilledOnce DocMirrorsJob NoFreeBills
PROPERTIES EndedStaysEnded KeepsPromise ClaimsOnlyClaimable
CHECK_DEADLOCK FALSE
