--------------------------- MODULE MCTokenQuota ---------------------------
(* A small instance of TokenQuota: a limit that a request may overrun, and  *)
(* tokens with and without an end.                                          *)
EXTENDS TokenQuota

CONSTANTS c1, c2, c3

MCCalls == {c1, c2}
MCLimits == {0, 2}
MCCosts == {0, 1, 2}
MCLifetimes == {Never, 2}
NoEnd == {Never}

============================================================================
