SPECIFICATION Spec
CONSTANTS
  r2 = r2
  Requests = {r1, r2}
  NoReq = NoReq
  Splits <- MCSplits
  Cpus = {c1, c2}
  HwErrors = {"read", "write"}
  CanHang = FALSE
  Patient = TRUE
  MaxOpens = 0
SYMMETRY CpuSymmetry
CHECK_DEADLOCK FALSE
INVARIANT
  SuccessMeansMoved
