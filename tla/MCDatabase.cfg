\* Three rows, or two and the caches, batches of two, one retry, two lives of
\* the process; two processes at one file.
SPECIFICATION MCSpec

CONSTANTS
    r1 = r1
    r2 = r2
    r3 = r3
    k1 = k1
    NoKey = NoKey
    Requests = {r1, r2, r3}
    Keys = {k1}
    KeyOf <- MCKeyOf
    Observed = {r3}
    Views = {"history", "ips", "tokens", "keys", "trend"}
    BatchMax = 2
    RetryMax = 1
    MaxStarts = 2
    Processes = {p, q}

CHECK_DEADLOCK FALSE

INVARIANT TotalsCover
INVARIANT RaceLosesNothing
PROPERTY LogImplemented
PROPERTY QueueDrains
