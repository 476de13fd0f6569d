------------------------------ MODULE UsageLog ------------------------------
(***************************************************************************)
(* What the usage database promises of its rows, whatever its timers,       *)
(* retries, prunes and restarts do: a finished request joins those that     *)
(* wait, and those that wait share one fate.  They are written together, or *)
(* lost together; what is written never waits again, and leaves the table   *)
(* only by growing old there.  UsageDb is shown to implement this.          *)
(***************************************************************************)
CONSTANT Requests

VARIABLES
    ended,      \* the requests that are over
    waiting,    \* those of them whose row is in memory
    kept        \* those whose row is on disk

vars == <<ended, waiting, kept>>

Init == ended = {} /\ waiting = {} /\ kept = {}

Postponed(rows) == waiting' = rows /\ kept' = kept
Lost == waiting' = {} /\ kept' = kept
Written(rows) ==
    /\ waiting' = {}
    /\ \E old \in SUBSET kept : kept' = (kept \ old) \cup rows

Fate(rows) == Postponed(rows) \/ Lost \/ Written(rows)

(* The end of a request, with or without a database to record it. *)
End(r) ==
    /\ r \notin ended
    /\ ended' = ended \cup {r}
    /\ Fate(waiting \cup {r}) \/ UNCHANGED <<waiting, kept>>

Batch == Fate(waiting) /\ UNCHANGED ended

Next == (\E r \in Requests : End(r)) \/ Batch

Spec == Init /\ [][Next]_vars

(* No row is in two places, and none is of a request that still runs. *)
Once == waiting \cap kept = {} /\ waiting \cup kept \subseteq ended
=============================================================================
