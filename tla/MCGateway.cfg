\* One request of any of the four kinds, one chat, one slot.
SPECIFICATION MCFairSpec

CONSTANTS
    r1 = r1
    r2 = r2
    k1 = k1
    k2 = k2
    NoKey = NoKey
    Requests <- TwoRequests
    Keys <- TwoKeys
    Shapes <- AllShapes
    MaxConcurrent = 1
    FailThreshold = 2
    OpenTime = 1
    ProbeTime = 1

INVARIANT LoadExact
INVARIANT RetryElsewhere
PROPERTY EveryRequestEnds
