---------------------------- MODULE MCWorstSlack ----------------------------
(***************************************************************************)
(* Four endpoints whose slacks take three values, and a queue that is      *)
(* sorted when it has two vertices: every initQueue prunes, and ties at    *)
(* the threshold keep more vertices than the minimum size.                 *)
(***************************************************************************)
EXTENDS WorstSlack, TLC

CONSTANTS e1, e2, e3, e4
SymEndpoints == {e1, e2, e3, e4}
EndpointSymmetry == Permutations(SymEndpoints)
MCSlacks == {-1, 2, 5}
MCInfinity == 100
=============================================================================
