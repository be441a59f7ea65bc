---------------------------- MODULE MCExceptions ----------------------------
(***************************************************************************)
(* Registers A and B clocked by k1 or k2, internal pins x and y, end       *)
(* points C and D, and commands over them.                                 *)
(***************************************************************************)
EXTENDS Exceptions

MCCommand(type, min_max, value, pts) ==
  [type |-> type, min_max |-> min_max, value |-> value, pts |-> pts]
MCReset(min_max, pts) == [min_max |-> min_max, pts |-> pts]

MCCommands ==
  {MCCommand("multi_cycle", "all", 2, <<{"A", "B"}, {"C", "D"}>>),
   MCCommand("multi_cycle", "all", 3, <<{"A", "k1"}, {"C"}>>),
   MCCommand("path_delay", "max", 5, <<{"A", "B"}, {"x"}, {Absent}>>),
   MCCommand("path_delay", "max", 4, <<{"B"}, {"x"}, {Absent}>>),
   MCCommand("false_path", "all", 0, <<{Absent}, {"y"}, {"C", "D"}>>)}
MCResets == {MCReset("all", <<{"A"}, {Absent}>>), MCReset("all", <<{Absent}, {"D"}>>)}
MCPaths == {[clk |-> clk, pins |-> pins, end_clk |-> "k2"] :
              clk \in {"k1", "k2"},
              pins \in {<<"A", "x", "C">>, <<"A", "y", "D">>, <<"B", "x", "D">>, <<"A", "y", "C">>}}
\* Two commands over two -thrus, of which the second overrides a part of the
\* first.
ThruCommands ==
  {MCCommand("multi_cycle", "all", 2, <<{Absent}, {"x", "y"}, {"C", "D"}, {Absent}>>),
   MCCommand("multi_cycle", "all", 3, <<{Absent}, {"x"}, {"C"}, {Absent}>>)}

MCIds == Permutations(Ids)
=============================================================================
