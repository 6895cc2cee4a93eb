SPECIFICATION FairSpec
CONSTANTS
    NoDelivery = NoDelivery
    e1 = e1
    x1 = x1
    x2 = x2
    Deliveries <- OneDelivery
    Dispatchers <- TwoDispatchers
    MaxTries = 2
    CandidateLimit = 1
    MaxCrashes = 1
    MaxEscapes = 2
INVARIANTS TypeOK TriesBounded NoSharedPost DeliveredOnce
PROPERTIES ClosedForGood EveryDeliveryCloses
CHECK_DEADLOCK FALSE
