SPECIFICATION Spec
CONSTANTS
  Devices <- MCDevices
  Limits <- MCLimits
  Grants = {0, 5}
  PollModes = {"poll", "missing"}
  MaxUser = 1
  MaxChannels = 2
  MaxBars = 3
  MaxStarts = 2
  Files = {f1}
  Nodes <- MCNodes
  Requests = {q1, q2}
  None = None
SYMMETRY Symmetry
CONSTRAINT Pairs
CHECK_DEADLOCK FALSE
INVARIANTS
  TypeOK
  Undone
  Routed
  AnsweredOnce
  FreshHandles
  AddressModeAgrees
PROPERTIES
  StaleOnlyAfterFailure
  UnmappedByCleanup
