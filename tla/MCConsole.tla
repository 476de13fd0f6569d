----------------------------- MODULE MCConsole -----------------------------
(* The console channel of one account.  A behaviour is that of the rotating *)
(* token, with the probe and one call at a time, or that of two calls at    *)
(* once, and the probe rests.                                               *)
EXTENDS Console, TLC

VARIABLE focus

MCInit == Init /\ focus \in {"tokens", "calls"}

MCNext ==
    /\ Next /\ UNCHANGED focus
    /\ focus = "tokens" => \A c, f \in Calls : "idle" \in {call'[c].pc, call'[f].pc} \/ c = f
    /\ focus = "calls" => job'["probe"] = Idle

MCSpec == MCInit /\ [][MCNext]_<<vars, focus>>

Symmetry == Permutations(Tokens) \cup Permutations(Calls)
=============================================================================
