------------------------------- MODULE MCOta -------------------------------
(* The fetching of an update and what becomes of it on disk meet in one      *)
(* step: a behaviour has one or the other.  The fairness is FairSpec's.  It  *)
(* excludes behaviours that only fetch, in which Boot never happens: the    *)
(* temporal properties are about the disk, the invariants about both.  The   *)
(* check of the panel and the one in the background do not overlap here:     *)
(* they meet in nothing but the list of versions.                            *)
EXTENDS OtaGuard, OtaFetch

VARIABLE focus

SecondIsBad == {2}
Everything == {"kill", "io", "deploy"}
SecondIsUnsound == {<<2, 1>>}

MCInit == Init /\ FetchInit /\ focus \in {"disk", "fetch"}

MCNext ==
    /\ \/ focus = "disk" /\ Next /\ UNCHANGED fetchVars
       \/ /\ focus = "fetch" /\ FetchNext /\ UNCHANGED vars
          /\ "idle" \in {job'["panel"].pc, job'["background"].pc}
    /\ UNCHANGED focus

MCSpec ==
    /\ MCInit /\ [][MCNext]_<<vars, fetchVars, focus>>
    /\ WF_vars(Boot) /\ WF_vars(restart /\ Stop) /\ WF_vars(running \in Bad /\ Crash)

=============================================================================
