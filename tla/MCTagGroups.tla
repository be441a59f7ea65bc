---------------------------- MODULE MCTagGroups ----------------------------
(* TagGroups on two vertices of a level and one above them, two threads, one *)
(* tag of each kind, and tables that grow from their first group on.         *)
EXTENDS TagGroups, TLC

CONSTANTS v1, v2, v3, t1, t2, plain, filter

MCVertices == {v1, v2, v3}
MCLevel == (v1 :> 0) @@ (v2 :> 0) @@ (v3 :> 1)
MCThreads == {t1, t2}
MCTagValues == {plain, filter}
MCFilterValues == {filter}
Symmetry == Permutations(MCThreads)
=============================================================================
