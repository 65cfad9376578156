SPECIFICATION FairSpec
CONSTANTS
  mm = mm
  st = st
  ev = ev
  th = th
  MMs = {mm}
  STs = {st}
  Events = {ev}
  Order <- MCOrder
  Readers = {th}
  EventOf <- MCEventOf
  Cpus = {c1, c2}
  Modes = {"line", "msi", "vectors"}
INVARIANTS
  TypeOK
  DisabledIsRecorded
  RequestedIsSeen
  NeverStuck
PROPERTIES
  EnginesServed
  HeldEventTold
