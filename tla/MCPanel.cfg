\* Two sessions, of which one can be remembered as logged out; one key.
\* Two accounts, two keys, either of which the environment may name; two
\* device codes.
\* Two workspaces of the old console, two requests at once, two writes.
SPECIFICATION MCSpec

CONSTANTS
    a1 = a1
    t1 = t1
    Sessions = {c, d}
    Passwords = {p1, p2}
    NoPassword = NoPassword
    TTL = 2
    MaxRevoked = 1
    UpstreamKeys = {k1}
    Lists = {l1, l2}
    NoList = NoList
    Unread = Unread
    EnvPassword = p1
    CodeList = l1
    Aliases = {a1}
    Targets = {t1, t2}
    EnvTarget <- MCEnvTarget
    NoTarget = NoTarget
    Unset = Unset
    Null = Null
    Keys = {e, k}
    Workspaces = {w}
    NoWorkspace = NoWorkspace
    AccountLists = {l}
    Unlimited = Unlimited
    Unasked = Unasked
    NoToken = NoToken
    MaxId = 2
    Codes = {c, d}
    Polls = {p, q}
    MaxSessions = 1
    MaxStarts = 1
    MaxTurn = 3
    LegacyWorkspaces = {p, q}
    NoLegacyWorkspace = NoLegacyWorkspace
    Gone = Gone
    Handlers = {c, d}
    Pages = {"keys", "go"}
    MaxChanges = 2

SYMMETRY Symmetry
CHECK_DEADLOCK FALSE

INVARIANT RestartKeeps
INVARIANT LogoutLasts
INVARIANT GateSeesRow
INVARIANT RowsOwned
INVARIANT PoolIsRows
INVARIANT ListsInForce
INVARIANT SignInKept
INVARIANT PagesTrue
