---------------------------- MODULE MCLevelize ----------------------------
(***************************************************************************)
(* Edits: the net driven by r and b leads to a and e, and an instance has  *)
(* the input a and the outputs b and d.  Connecting and disconnecting pins *)
(* closes and opens the loop of a and b, cuts it off from r, or takes a    *)
(* load off; and the instance's cell may be replaced.                      *)
(*                                                                         *)
(* Nested loops: two inputs x and y of the gate that drives b lead back to *)
(* it from c, the output of the buffer it drives.  No root leads to them.  *)
(***************************************************************************)
EXTENDS Levelize

MCVertices == {"r", "a", "b", "d", "e"}
MCWires == {"r", "b"} \X {"a", "e"}
MCArcs == {<<"a", "b">>, <<"a", "d">>}
MCCells == {MCArcs}

NestedVertices == {"b", "u", "c", "x", "y"}
NestedWires == {<<"b", "u">>, <<"c", "x">>, <<"c", "y">>}
NestedArcs == {<<"x", "b">>, <<"y", "b">>, <<"u", "c">>}
NestedCells == {}
=============================================================================
