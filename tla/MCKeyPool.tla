----------------------------- MODULE MCKeyPool -----------------------------
(* A small instance of KeyPool for TLC, one key configured by the           *)
(* environment, one that comes and goes through the panel; and of           *)
(* ProbeRound, one account with two keys, one with a session only.  A       *)
(* behaviour is one of them, and the other rests.                           *)
EXTENDS KeyPool, ProbeRound

CONSTANTS k1, k2, c1, c2, c3

MCKeys == {k1, k2}
MCCalls == {c1, c2, c3}
OneEnv == {{k1}}
MCResetDelays == {0, 1}

TwoRows == <<  <<"k1", "k2">>, <<>>  >>
TwoKeys == <<  <<"k1", "k2">>  >>

VARIABLE focus

MCInit ==
    /\ Init /\ RoundsInit /\ focus \in {"pool", "probes"}
    /\ focus = "pool" => manual = {}

MCNext ==
    /\ \/ focus = "pool" /\ Next /\ UNCHANGED roundVars
       \/ focus = "probes" /\ RoundsNext /\ UNCHANGED vars
    /\ UNCHANGED focus

(* The fairness is that of ProbeRound (RoundsFairness). *)
MCSpec ==
    /\ MCInit /\ [][MCNext]_<<vars, roundVars, focus>>
    /\ WF_roundVars(focus = "probes" /\ RoundTick)
    /\ WF_roundVars(focus = "probes" /\ TimerTicks)
    /\ WF_roundVars(focus = "probes" /\ KeyAnswers)
    /\ WF_roundVars(focus = "probes" /\ (SkipManual \/ AskKey \/ Conclude))

(* ProbedAgain, of the behaviours that are about the probes. *)
ProbesGoOn == focus = "probes" => ProbedAgain

============================================================================
