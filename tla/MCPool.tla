------------------------------- MODULE MCPool -------------------------------
(* Constants and symmetry for checking Pool.                               *)
EXTENDS Pool, TLC

CONSTANTS k1, k2, a, b, d, x1, x2, x3, t1, t2

\* Every connection goes to the first key, or the last one to the second.
OneHost  == [c \in Conns |-> k1]
TwoHosts == [c \in Conns |-> IF c = d THEN k2 ELSE k1]

Symmetry == Permutations(Checkouts) \cup Permutations(Connects)

=============================================================================
