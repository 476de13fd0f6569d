------------------------------ MODULE Breaker ------------------------------
(***************************************************************************)
(* The state of the upstream circuit breaker (src/upstream.ts) and the four *)
(* things that happen to it, as functions on a record; the modules that     *)
(* have a breaker apply them.                                               *)
(*                                                                          *)
(* `left` replaces the two deadlines of the code by the time left: of the   *)
(* open period (openUntil) while open, of the probe's window                *)
(* (probeStartedAt + CIRCUIT_PROBE_MAX_MS) while half-open.                 *)
(***************************************************************************)
EXTENDS Naturals

CONSTANTS
    FailThreshold,  \* CIRCUIT_FAIL_THRESHOLD: failures in a row that open it
    OpenTime,       \* CIRCUIT_OPEN_MS
    ProbeTime       \* CIRCUIT_PROBE_MAX_MS

ASSUME BreakerAssumption ==
    /\ FailThreshold \in Nat \ {0}
    /\ OpenTime \in Nat \ {0}
    /\ ProbeTime \in Nat \ {0}

Breakers == [state : {"closed", "open", "half-open"},
             fails : 0 .. FailThreshold,
             left  : 0 .. (OpenTime + ProbeTime)]

ClosedBreaker == [state |-> "closed", fails |-> 0, left |-> 0]

(* circuitShouldReject(), its answer and its effect: an expired period      *)
(* lets one request through and starts a probe window.                      *)
ShouldReject(b) == b.state # "closed" /\ b.left > 0
AfterEntry(b) ==
    IF b.state = "closed" \/ b.left > 0 THEN b
    ELSE [b EXCEPT !.state = "half-open", !.left = ProbeTime]

(* circuitRecordFailure(): a fetch that threw.  In the open state it counts *)
(* for nothing.                                                             *)
AfterFailure(b) ==
    CASE b.state = "closed" /\ b.fails + 1 < FailThreshold ->
            [b EXCEPT !.fails = @ + 1]
      [] b.state = "closed" /\ b.fails + 1 >= FailThreshold ->
            [state |-> "open", fails |-> FailThreshold, left |-> OpenTime]
      [] b.state = "half-open" -> [state |-> "open", fails |-> 0, left |-> OpenTime]
      [] OTHER -> b

(* Mutant: closing keeps the old count. *)
AfterSuccessCounting(b) ==
    IF b.state = "open" THEN b ELSE [b EXCEPT !.state = "closed", !.left = 0]

(* circuitRecordSuccess(): a fetch that resolved, with any status. *)
AfterSuccess(b) == IF b.state = "open" THEN b ELSE ClosedBreaker

(* Mutant: the probe's window has no end. *)
AfterTickOpen(b) == IF b.state = "open" /\ b.left > 0 THEN [b EXCEPT !.left = @ - 1] ELSE b

(* One unit of time. *)
AfterTick(b) == IF b.left > 0 THEN [b EXCEPT !.left = @ - 1] ELSE b

============================================================================
