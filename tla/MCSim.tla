------------------------------- MODULE MCSim --------------------------------
(***************************************************************************)
(* A design with a constrained input, a tie cell, a ground net, an OR gate *)
(* that may be wired into a loop with an AND gate, and a register.  Edits  *)
(* move the inputs of the gates between nets, and the driver of a net.     *)
(***************************************************************************)
EXTENDS Sim

CONSTANTS Port, Tie, Or, And, Reg, na, nt, no, nand, gnd

Out == "Z"
Arc(x, z) == [from |-> x, to |-> z, when |-> {}]
ArcWhen(x, z, f) == [from |-> x, to |-> z, when |-> {f}]
Gate(ins, f, arcs) ==
  [ins |-> ins, outs |-> {Out}, func |-> (Out :> f), data |-> <<>>, arcs |-> arcs]

PortCell == [ins |-> {}, outs |-> {Out}, func |-> <<>>, data |-> <<>>, arcs |-> {}]
TieHigh == Gate({}, {{}}, {})
OrSet == {{"A"}, {"B"}, {"A", "B"}}
OrCell == Gate({"A", "B"}, OrSet, {Arc("A", Out), Arc("B", Out)})
\* The same function, with an arc from A for each value of B.
OrCellWhen == Gate({"A", "B"}, OrSet, {ArcWhen("A", Out, {{"B"}, {"A", "B"}}),
                                       Arc("A", Out), Arc("B", Out)})
AndCell == Gate({"A", "B"}, {{"A", "B"}}, {Arc("A", Out), Arc("B", Out)})
RegCell == [ins |-> {"D"}, outs |-> {Out}, func |-> <<>>, data |-> (Out :> {{"D"}}), arcs |-> {}]

MCInstances == {Port, Tie, Or, And, Reg}
MCInitialInstances == {Port, Tie, Or, And, Reg}
MCCells == {PortCell, TieHigh, OrCell, OrCellWhen, AndCell, RegCell}
MCInitialCell == (Port :> PortCell) @@ (Tie :> TieHigh) @@ (Or :> OrCell)
                   @@ (And :> AndCell) @@ (Reg :> RegCell)
MCAlternatives == (Port :> {PortCell}) @@ (Tie :> {TieHigh}) @@ (Or :> {OrCell, OrCellWhen})
                    @@ (And :> {AndCell}) @@ (Reg :> {RegCell})
MCNets == {na, nt, no, nand, gnd}
MCSupply == [n \in MCNets |-> IF n = gnd THEN "zero" ELSE "unknown"]
MCNoNet == "none"
MCInitialNet ==
  (<<Port, Out>> :> na) @@ (<<Tie, Out>> :> nt) @@ (<<Or, Out>> :> no)
    @@ (<<And, Out>> :> nand)
    @@ (<<Or, "A">> :> nt) @@ (<<Or, "B">> :> nand)
    @@ (<<And, "A">> :> na) @@ (<<And, "B">> :> no)
    @@ (<<Reg, Out>> :> MCNoNet) @@ (<<Reg, "D">> :> no)
MCEditNets ==
  [p \in DOMAIN MCInitialNet |->
     CASE p = <<Or, "A">> -> {nt}
       [] p = <<And, "A">> -> {gnd}
       [] p = <<And, "B">> -> {no}
       [] p = <<And, Out>> -> {nand}
       [] OTHER -> {}]
MCCasePins == {<<And, "A">>}
=============================================================================
