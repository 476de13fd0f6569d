------------------------------ MODULE MCGates ------------------------------
(* What stands between a request and its handler: the quota of a token, the *)
(* window of one limit, the breaker, and the gates in their order.  They    *)
(* share no state: a behaviour is one of them, and the others rest.  The     *)
(* gates are followed with two arrivals in a second and no tokens used, and  *)
(* with one arrival and all kinds of use.                                    *)
EXTENDS MCTokenQuota, RateLimit, CircuitBreaker, Gates

CONSTANTS c4, u1

MCAttempts == {c1, c2, c3, c4}
MCRpmOf == [u \in Users |-> 2]

VARIABLE focus

allVars == <<vars, rateVars, breakerVars, gateVars, focus>>

MCInit ==
    /\ Init /\ RateInit /\ BreakerInit /\ GatesInit
    /\ focus \in {"quota", "window", "breaker", "rpm", "tpm"}

MCNext ==
    /\ \/ focus = "quota" /\ Next /\ UNCHANGED <<rateVars, breakerVars, gateVars>>
       \/ focus = "window" /\ RateNext /\ UNCHANGED <<vars, breakerVars, gateVars>>
       \/ focus = "breaker" /\ BreakerNext /\ UNCHANGED <<vars, rateVars, gateVars>>
       \/ /\ focus \in {"rpm", "tpm"} /\ GatesNext
          /\ focus = "rpm" => UNCHANGED spent
          /\ focus = "tpm" => Arrived' <= 1
          /\ UNCHANGED <<vars, rateVars, breakerVars>>
    /\ UNCHANGED focus

MCSpec == MCInit /\ [][MCNext]_allVars

(* Time passes for the quota. *)
MCFairSpec == MCSpec /\ WF_vars(focus = "quota" /\ Tick)

=============================================================================
