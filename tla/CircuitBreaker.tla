--------------------------- MODULE CircuitBreaker ---------------------------
(***************************************************************************)
(* The circuit breaker with the requests around it.  A request passes the   *)
(* entry check, and later its upstream call reports a failure, a success,   *)
(* or nothing at all (it was turned away by a later gate, or its client     *)
(* left).  Reports come in any order and however late: a call admitted      *)
(* while the breaker was closed may report when it is open or half-open.    *)
(***************************************************************************)
EXTENDS Breaker, FiniteSets

CONSTANT Attempts  \* requests that can be under way at once

VARIABLES
    circuit,    \* the module-level variable of that name
    underway,   \* calls admitted that have not reported yet
    streak      \* history: failures reported since the last success

breakerVars == <<circuit, underway, streak>>

BreakerInit ==
    /\ circuit = ClosedBreaker
    /\ underway = {}
    /\ streak = 0

(* server.ts, before the concurrency gate: the breaker lets the call in. *)
Enter(c) ==
    /\ c \notin underway /\ ~ShouldReject(circuit)
    /\ circuit' = AfterEntry(circuit)
    /\ underway' = underway \cup {c}
    /\ UNCHANGED streak

(* postUpstreamChat(): the fetch threw, and not because the client left. *)
Fail(c) ==
    /\ c \in underway
    /\ circuit' = AfterFailure(circuit)
    /\ underway' = underway \ {c}
    /\ streak' = IF streak < FailThreshold THEN streak + 1 ELSE streak

(* postUpstreamChat(): the fetch resolved. *)
Succeed(c) ==
    /\ c \in underway
    /\ circuit' = AfterSuccess(circuit)
    /\ underway' = underway \ {c}
    /\ streak' = 0

(* The call ends without a report: refused by a later gate (concurrency,    *)
(* authentication, quota, model), no key in the pool, or client gone.       *)
Vanish(c) ==
    /\ c \in underway
    /\ underway' = underway \ {c}
    /\ UNCHANGED <<circuit, streak>>

BreakerTick == circuit' = AfterTick(circuit) /\ UNCHANGED <<underway, streak>>

BreakerNext ==
    \/ \E c \in Attempts : Enter(c) \/ Fail(c) \/ Succeed(c) \/ Vanish(c)
    \/ BreakerTick

BreakerSpec == BreakerInit /\ [][BreakerNext]_breakerVars

(* Time passes; nothing is assumed of clients and calls. *)
BreakerFairSpec == BreakerSpec /\ WF_breakerVars(BreakerTick)

----------------------------------------------------------------------------

BreakerTypeOK ==
    /\ circuit \in Breakers
    /\ underway \subseteq Attempts
    /\ streak \in 0 .. FailThreshold

(* While closed, the counter is exactly the run of failures since the last  *)
(* success: nothing that happened in the open or half-open state leaks into *)
(* it, so the breaker opens on a full run of failures and on nothing else.  *)
ClosedCountsStreak ==
    circuit.state = "closed" => circuit.fails = streak /\ streak < FailThreshold

(* Requests are turned away for at most one period at a time: the breaker   *)
(* is never stuck, also when the probe never reports (upstream.ts:39, "not  *)
(* stuck half-open").                                                       *)
RejectionEnds == ShouldReject(circuit) ~> ~ShouldReject(circuit)

=============================================================================
