\* By hand, expected to be violated: one account with two keys, no mishaps.
SPECIFICATION MCSpec

CONSTANTS
    k1 = k1
    k2 = k2
    c1 = c1
    c2 = c2
    c3 = c3
    NoKey = NoKey
    Keys <- MCKeys
    Calls <- MCCalls
    EnvChoices <- OneEnv
    ResetDelays <- MCResetDelays
    RateCooldown = 1
    AuthCooldown = 2
    QuotaFallback = 3
    QuotaMargin = 1
    Forever = 4
    Rows <- TwoKeys
    Interval = 2
    IdleTime = 3
    Early = 1
    AuthWait = 2
    Floor = 4
    SessionWait = 3
    Resets = {4}
    MaxMishaps = 0

PROPERTY FailureRetried
