SPECIFICATION Spec
CONSTANTS
  RegisterCount = 32
  Programs <- AllPrograms
  Count = 2
  Times = {1, 2}
  Dts = {4}
  Shell = "Device"
INVARIANTS
  RendersFromShowTime
  FaultsCostOnlyTheRest
  ShowsWhatTheEffectMeans
  ElementsMoveAsWritten
  CompilerIsDisciplined
CHECK_DEADLOCK FALSE
