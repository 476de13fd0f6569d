\* Two keys, three requests; probes of three keys and sessions, one round of
\* which throws or one restart.
SPECIFICATION MCSpec

CONSTANTS
    k1 = k1
    k2 = k2
    c1 = c1
    c2 = c2
    c3 = c3
    NoKey = NoKey
    Keys <- MCKeys
    Calls <- MCCalls
    EnvChoices <- OneEnv
    ResetDelays <- MCResetDelays
    RateCooldown = 1
    AuthCooldown = 2
    QuotaFallback = 3
    QuotaMargin = 1
    Forever = 4
    Rows <- TwoRows
    Interval = 2
    IdleTime = 2
    Early = 1
    AuthWait = 3
    Floor = 3
    SessionWait = 3
    Resets = {3}
    MaxMishaps = 1

INVARIANT HeldStaysOff
INVARIANT PersistCovers
INVARIANT NoGhost
PROPERTY CooldownNeverShortened
PROPERTY ProbesGoOn
