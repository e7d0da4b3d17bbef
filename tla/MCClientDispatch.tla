-------------------------- MODULE MCClientDispatch --------------------------
(* Instances of ClientDispatch for TLC.                                    *)
EXTENDS ClientDispatch

CONSTANTS r1, r2, r3, r4

=============================================================================
