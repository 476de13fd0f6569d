------------------------------ MODULE MCShield ------------------------------
(* Two settings: the second one shorter, with a verdict let through; delays *)
(* that double once.                                                        *)
EXTENDS Shield, TLC

Long  == [tries |-> [main |-> 2, swap |-> 4, auth |-> 1, perm |-> 1, client |-> 1],
          budget |-> [main |-> 2, swap |-> 2, auth |-> 1, perm |-> 1, client |-> 1],
          passthrough |-> {}]
Short == [tries |-> [main |-> 1, swap |-> 1, auth |-> 1, perm |-> 1, client |-> 1],
          budget |-> [main |-> 1, swap |-> 1, auth |-> 1, perm |-> 1, client |-> 1],
          passthrough |-> {"swap"}]

Symmetry == Permutations(Conns)
Doubling == <<1, 2>>
TwoSettings == {Long, Short}
=============================================================================
