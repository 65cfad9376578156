SPECIFICATION Spec
CONSTANTS
  r2 = r2
  Requests = {r1, r2}
  NoReq = NoReq
  Splits <- MCSplits
  Cpus = {c1, c2}
  HwErrors = {"read"}
  CanHang = TRUE
  Patient = FALSE
  MaxOpens = 0
SYMMETRY CpuSymmetry
CHECK_DEADLOCK FALSE
INVARIANT
  TimesOutItsOwn
