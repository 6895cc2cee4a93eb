SPECIFICATION FairSpec
CONSTANTS
    w1 = w1
    w2 = w2
    w3 = w3
    Jobs <- TwoJobs
    Workers <- TwoWorkers
    GpuJobs <- AllCpu
    GpuWorkers <- AllCpu
    MaxAttempts = 2
    CandidateLimit = 1
    MaxCrashes = 1
    LeaseOutlivesWork = TRUE
    ShortSessions = FALSE
INVARIANT ExclusiveAttempt
PROPERTY EndsUnlessAbandoned
CHECK_DEADLOCK FALSE
