SPECIFICATION FairSpec
CONSTANTS
  r1 = r1
  r2 = r2
  r3 = r3
  Requests = {r1, r2, r3}
  NoReq = NoReq
  Lists <- MCLists
  Capacity = 11
  AdjMax = 3
  PageDescs = 8
  Offsets = {0, 3, 6}
  CanHang = TRUE
CHECK_DEADLOCK FALSE
INVARIANTS
  TypeOK
  AnsweredBeforeReturn
  CleanStart
  FetchesWithinLimits
  NeverStuck
PROPERTIES
  ServiceUntilFailure
  CompletedOnce
  AlwaysAnswered
