\* Messages streams only.
SPECIFICATION Spec

CONSTANTS
    r1 = r1
    r2 = r2
    k1 = k1
    k2 = k2
    NoKey = NoKey
    Requests <- TwoRequests
    Keys <- TwoKeys
    Shapes <- MessagesStreams
    MaxConcurrent = 1
    FailThreshold = 2
    OpenTime = 1
    ProbeTime = 1

INVARIANT NoSilentEnd
