SPECIFICATION Spec
CONSTANTS
  NumBlocks = 3
  BlockSize = 2
  MaxRead = 3
  MaxBlocks = 4
  MaxOpens = 2
  Modes = {"line", "msix", "poll"}
INVARIANTS
  TypeOK
  CreditsConserved
  ScanStops
  NoEmptyBlock
PROPERTY
  ImplementsFifo
