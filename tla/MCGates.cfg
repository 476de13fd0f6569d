\* Two requests on a token with a limit or none; a window of five seconds
\* with other users of the key; four calls at a breaker of three failures; two
\* requests of a token and of an API key at the gates, in minutes of three.
SPECIFICATION MCFairSpec

CONSTANTS
    c1 = c1
    c2 = c2
    c3 = c3
    c4 = c4
    u1 = u1
    Calls <- MCCalls
    Limits <- MCLimits
    Costs <- MCCosts
    Lifetimes <- MCLifetimes
    CacheTime = 2
    Day = 2
    Month = 3
    MaxUsed = 3
    Buckets = 5
    Limit = 3
    Crowd = 2
    Burst = 2
    Attempts <- MCAttempts
    FailThreshold = 3
    OpenTime = 2
    ProbeTime = 3
    Users = {u1}
    ApiKey = ApiKey
    Requests = {c1, c2}
    Outside = Outside
    RpmOf <- MCRpmOf
    GlobalRpm = 3
    TpmLimit = 2
    Uses = {0, 1, 2}
    Minute = 3
    Rush = 2
    MaxSpent = 3

INVARIANT ClosedCountsStreak
INVARIANT WindowExact
INVARIANT CacheCoherent
INVARIANT FreeRidesBounded
INVARIANT NeighboursShielded
PROPERTY HintIsEarliest
PROPERTY QuotaComesBack
PROPERTY AdmitsBelowTpm
