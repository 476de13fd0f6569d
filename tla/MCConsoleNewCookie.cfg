SPECIFICATION Spec
CONSTANTS
    Tokens = {t1, t2, t3}
    NoToken = NoToken
    Calls = {a}
    NoCall = NoCall
    Cookies = {v, w}
    NoCookie = NoCookie
    MaxWrites = 1
CHECK_DEADLOCK FALSE
PROPERTY NewCookieTried
