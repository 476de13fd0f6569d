\* One connection, or two of which one at a time is with the upstream; every stream
\* of up to five chunks, of which three pieces of text can be kept.
SPECIFICATION MCSpec
CONSTANTS
    Conns = {c, d}
    Configs <- TwoSettings
    MaxConcurrency = 1
    Marks = {"none", "quota", "fault", "permanent", "credentials"}
    StatusCodes = {400, 503}
    Hints = {0, 2}
    Took = {0, 1}
    Growth <- Doubling
    PermDelay = 1
    ClientDelay = 1
    SwapFirst = 1
    SwapCap = 2
    CoolFallback = 1
    NetFirst = 1
    NetCap = 2
    BackoffCap = 2
    HintCap = 2
    Chunks <- MCChunks
    Cap = 3
    MaxChunks = 5
SYMMETRY Symmetry
CHECK_DEADLOCK FALSE
INVARIANT EffortBounded
INVARIANT OneAnswer
INVARIANT WellFormed
INVARIANT NothingLost
