------------------------------ MODULE MCSearch ------------------------------
(***************************************************************************)
(* Small designs for Search.  Two input ports drive a gate y; y drives an  *)
(* output port o and, through a load b and a second gate, the output port  *)
(* p, two levels deeper:                                                   *)
(*                                                                         *)
(*    i1 --+                                                               *)
(*         +-> y --> o                                                     *)
(*    i2 --+   +---> b --> z --> p                                         *)
(***************************************************************************)
EXTENDS Search

MCVertices == {"i1", "i2", "y", "o", "b", "z", "p"}
MCEdges == {<<"i1", "y">>, <<"i2", "y">>, <<"y", "o">>, <<"y", "b">>,
            <<"b", "z">>, <<"z", "p">>}
MCLevel == [v \in MCVertices |->
              CASE v \in {"i1", "i2"} -> 0
                [] v = "y" -> 1
                [] v \in {"o", "b"} -> 2
                [] v = "z" -> 3
                [] v = "p" -> 4]
MCInputs == {"i1", "i2"}
MCOutPorts == {"o", "p"}
MCDelays == {1, 2}
MCInitDelay == [e \in MCEdges |-> 1]
MCInputArrival == 10
MCInfinity == 1000

\* Required times around the arrivals (12 or more at o, 14 or more at p), and
\* never so small that a required time upstream is zero.
MCEndReqs == {11, 14}
MCWires == {<<"y", "o">>, <<"y", "b">>}
MCAnnotEdges == {<<"i2", "y">>, <<"b", "z">>}
MCEndPins == {"o", "b"}

\* The same design up to z, now an output port, and fewer places to edit, for
\* the runs that enable every kind of edit.
FewVertices == MCVertices \ {"p"}
FewEdges == MCEdges \ {<<"z", "p">>}
FewLevel == [v \in FewVertices |-> MCLevel[v]]
FewInitDelay == [e \in FewEdges |-> 1]
FewOutPorts == {"o", "z"}
FewWires == {<<"y", "b">>}
FewAnnotEdges == {<<"i2", "y">>}
FewEndPins == {"o"}

\* The arrival of y is that through i1, whatever the delay from i2.
MaskedInitDelay == [MCInitDelay EXCEPT ![<<"i1", "y">>] = 2]

MCInitEndReq == [v \in MCVertices |->
                   CASE v \in {"o", "b"} -> 11
                     [] v = "p" -> 14
                     [] OTHER -> MCInfinity]
FewInitEndReq == [v \in FewVertices |->
                    CASE v = "o" -> 11
                      [] v = "z" -> 14
                      [] OTHER -> MCInfinity]
=============================================================================
