SPECIFICATION Spec
CONSTANTS
  Width = 10
  Shift = 6
  TableBits = 3
  SinQuarter <- MCSin
  Log2Mantissa <- MCLog2
  Exp2Fraction <- MCExp2
  AtanTable <- MCAtan
  Pi = 201
  Tau = 402
  MicrosPerSecond = 10
  Operands <- MCOperands
  MaxMicros = 200
  Hashed <- MCHashed
  Stops = 4
  Palettes <- MCPalettes
INVARIANTS
  NothingFlashes
  RootIsExact
  CircleHasNoSeams
  ShowTimeRuns
CHECK_DEADLOCK FALSE
