SPECIFICATION FairSpec
CONSTANTS
  r2 = r2
  Requests = {r1, r2}
  NoReq = NoReq
  Splits <- MCSplits
  Cpus = {c1, c2}
  HwErrors = {"read", "descriptor"}
  CanHang = TRUE
  Patient = TRUE
  MaxOpens = 0
CHECK_DEADLOCK FALSE
INVARIANTS
  SuccessMeansMoved
  TimesOutItsOwn
  NoDmaAfterCompletion
  InterruptComesBack
  NeverStuck
PROPERTIES
  ImplementsService
  CompletesUnlessHung
  ThreadExits
