----------------------------- MODULE MCGateway -----------------------------
(* A small instance of Gateway: two keys, and two requests that compete for *)
(* one slot; a breaker that opens on the second failure in a row.           *)
EXTENDS Gateway

CONSTANTS r1, r2, k1, k2

TwoRequests == {r1, r2}
TwoKeys == {k1, k2}
MessagesStreams == {"messages-stream"}

(* The first request is of any kind; the other one is always the same, and  *)
(* its client stays.                                                        *)
MCNext == Next /\ shape'[r2] \in {"none", "chat"} /\ ~gone'[r2]

(* The fairness that FairSpec states for every request. *)
MCFairSpec ==
    /\ Init /\ [][MCNext]_vars
    /\ \A r \in Requests : HandlerRuns(r)

============================================================================
