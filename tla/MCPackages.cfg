SPECIFICATION Spec
CONSTANTS
    CfCalls = {a1, a2}
    Configs <- ThreeConfigs
    Used <- DetectOrCookies
    Pages <- FourPages
    CookieTTL = 0
    CfAttempts = 2
    CfMaxClock = 1
    MaxCookies = 3
    Getters = {a1, a2, a3}
    IntelTTL = 2
    IntelMaxClock = 4
    FirstSize = 1
    MaxSize = 2
    Waiters = {w1}
    Filters <- AllOrOne
    Cooldowns = {0, 2}
    MaxWaits = {2}
    PoolMaxClock = 4
    TripWorkers = {a1, a2}
    MinRequests = 4
    MaxConsecFailures = 2
    FailNum = 2
    FailDen = 3
    InitialWait = 4
    MaxWait = 14
    JitterNum = 3
    JitterDen = 10
    MaxRequests = 9
    Workers = {a1, a2, a3}
    MaxAttempts = 2
    EntryTTL = 1
    TrackerMaxClock = 4
    Requests = {a1, a2}
    MaxRetries = 3
    RetryWait = 2
    RetryMaxWait = 3
    MaxDuration = 4
    MinDelay = 1
    RandomDelay = 2
    WindowCap = 2
    WindowLength = 2
    RetryAfters = {0, 2}
    PipeMaxClock = 5
    Objects = {o1, o2}
    Users = {a1, a2}
    SessionMaxClock = 2
    MaxCount = 2
    Closers = {a1, a2}
    MaxOptions = 3
CHECK_DEADLOCK FALSE
SYMMETRY Symmetry
INVARIANTS TypeOK ChallengeHandled ChainFaithful FreshWhenAsked StaysOut WaitIsRewarded
INVARIANTS BackoffSound Overshoot RetriesBounded CountExact Ownership
PROPERTIES AnalyzedOnExpiry SendsInTime RestoredIsSaved
