SPECIFICATION MCSpec
CONSTANTS
    Tokens = {t1, t2, t3}
    NoToken = NoToken
    Calls = {a, b}
    NoCall = NoCall
    Cookies = {v}
    NoCookie = NoCookie
    MaxWrites = 1
SYMMETRY Symmetry
CHECK_DEADLOCK FALSE
INVARIANT TokenLives
INVARIANT ReadSeesWrites
INVARIANT NobodyForgotten
