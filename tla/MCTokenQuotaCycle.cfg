\* The operator changes the cycle of a token.
SPECIFICATION Spec

CONSTANTS
    c1 = c1
    c2 = c2
    c3 = c3
    Calls <- MCCalls
    Limits <- MCLimits
    Costs <- MCCosts
    Lifetimes <- NoEnd
    CacheTime = 2
    Day = 2
    Month = 3
    MaxUsed = 3

PROPERTY OnlySettlingUses
