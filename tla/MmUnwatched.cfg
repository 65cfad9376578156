SPECIFICATION FairSpec
CONSTANTS
  r2 = r2
  Requests = {r1, r2}
  NoReq = NoReq
  Splits <- MCSplits
  Cpus = {c1, c2}
  HwErrors = {"read"}
  CanHang = TRUE
  Patient = TRUE
  MaxOpens = 0
CHECK_DEADLOCK FALSE
PROPERTY
  Completes
