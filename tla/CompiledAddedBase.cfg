SPECIFICATION Spec
CONSTANTS
  RegisterCount = 32
  Programs <- AddedBase
  Count = 2
  Times = {1}
  Dts = {4}
  Shell = "CAbi"
INVARIANTS
  HalvesMatchTheWhole
CHECK_DEADLOCK FALSE
