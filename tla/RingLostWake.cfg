SPECIFICATION Spec
CONSTANTS
  NumBlocks = 3
  BlockSize = 2
  MaxRead = 3
  MaxBlocks = 5
  MaxOpens = 2
  Modes = {"line"}
INVARIANT
  WokenForPacket
