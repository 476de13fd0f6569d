SPECIFICATION ShieldSpec
CONSTANTS
    Conns = {c, d}
    Configs <- TwoSettings
    MaxConcurrency = 1
    Marks = {"none", "quota", "fault", "permanent", "credentials"}
    StatusCodes = {400, 503}
    Hints = {0}
    Took = {0, 1}
    Growth <- Doubling
    PermDelay = 1
    ClientDelay = 1
    SwapFirst = 1
    SwapCap = 2
    CoolFallback = 1
    NetFirst = 1
    NetCap = 2
    BackoffCap = 2
    HintCap = 2
SYMMETRY Symmetry
INVARIANT HeadFirst
