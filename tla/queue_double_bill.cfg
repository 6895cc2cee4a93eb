SPECIFICATION Spec
CONSTANTS
    w1 = w1
    w2 = w2
    w3 = w3
    Jobs <- OneJob
    Workers <- TwoWorkers
    GpuJobs <- AllCpu
    GpuWorkers <- AllCpu
    MaxAttempts = 2
    CandidateLimit = 8
    MaxCrashes = 0
    LeaseOutlivesWork = FALSE
    ShortSessions = FALSE
INVARIANT BilledOnce
CHECK_DEADLOCK FALSE
