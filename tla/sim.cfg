SPECIFICATION Spec
CONSTANTS
  Port = Port
  Tie = Tie
  Or = Or
  And = And
  Reg = Reg
  na = na
  nt = nt
  no = no
  nand = nand
  gnd = gnd
  Instances <- MCInstances
  InitialInstances <- MCInitialInstances
  Cells <- MCCells
  Alternatives <- MCAlternatives
  InitialCell <- MCInitialCell
  Nets <- MCNets
  Supply <- MCSupply
  InitialNet <- MCInitialNet
  EditNets <- MCEditNets
  CasePins <- MCCasePins
  NoNet <- MCNoNet
INVARIANTS TypeOK ValuesCurrent NoLostChange
PROPERTY PropagationEnds
