--------------------------- MODULE MCGraphDelayCalc ---------------------------
(***************************************************************************)
(* A port i drives the gate y, whose load b drives z.  z and n, which a    *)
(* floating input f drives, share the net of the data input d of a latch.  *)
(* The port k drives its enable c and the other input e of y and n; the    *)
(* latch drives q and the load o.                                          *)
(*                                                                         *)
(*   i -> a -> y -> b -> z -> d -> q -> o     f -> n -> d                  *)
(*   k -> e -> y, n                           k -> c -> q                  *)
(***************************************************************************)
EXTENDS GraphDelayCalc

MCVertices == {"i", "a", "y", "b", "z", "d", "q", "o", "f", "n", "k", "c", "e"}
MCLevel == [v \in MCVertices |->
              CASE v \in {"i", "f", "k"} -> 0 [] v \in {"a", "c", "e"} -> 1
                [] v \in {"y", "q", "n"} -> 2 [] v \in {"b", "o"} -> 3
                [] v = "z" -> 4 [] v = "d" -> 5]
MCDrivers == {"i", "y", "z", "q", "n", "k"}
MCWires == {<<"i", "a">>, <<"y", "b">>, <<"z", "d">>, <<"n", "d">>, <<"k", "c">>, <<"q", "o">>,
            <<"k", "e">>}
MCArcs == {<<"a", "y">>, <<"b", "z">>, <<"f", "n">>, <<"c", "q">>, <<"e", "y">>, <<"e", "n">>}
MCLatchArcs == {<<"d", "q">>}
MCChecks == {<<"c", "d">>}

\* A slew of 3 at a gate, or a load, gives a slower output; other slews do not.
MCSlews == -1..4
MCCaps == 0..2
MCGateDelay == [s \in MCSlews, c \in MCCaps |-> s + c + 2]
MCGateSlew == [s \in MCSlews, c \in MCCaps |-> (IF s >= 3 THEN 2 ELSE 1) + (IF c > 1 THEN 1 ELSE 0)]
MCCheckDelay == [s \in MCSlews, t \in MCSlews |-> s + 5 * t + 6]

NoEdits == {}
MCSlewEdits == {"i"}
MCCapEdits == {"y"}
MCAnnotateEdits == {"b"}
MCWireEdits == {<<"i", "a">>}
MCDisableEdits == {<<"e", "n">>}
\* Where z alone drives d, and it is its net that has the capacitance.
MCSingleWires == MCWires \ {<<"n", "d">>}
MCDeepCapEdits == {"z"}
\* The edits are those for which the proofs hold: f, e and k, on which n
\* depends, keep their slews.
MCQuiet == {"f", "e", "k"}
ASSUME MCHandledEdits == HandledEdits(MCQuiet)
=============================================================================
