SPECIFICATION FormatsSpec
CONSTANTS
  Base = 32
  Minors = 4
  AmbientFloor = 7
  UuidLen = 3
  SigLen = 4
  HashLen = 2
  Bands = 2
  TagLen = 2
  Samples <- AllSamples
  TypeCode <- Codes
  Overwrites <- Changes
  Appends <- NewFields
  OpCode <- OpCodes
  VmVersion = 1
  Stops = 2
  Scripts <- AllScripts
  ImageOverwrites <- Changes
  RegisterCount = 32
  Cost <- OpCosts
INVARIANTS
  DecodedReencodes
PROPERTIES
  RoundTrip
  PartsAreRefused
  ProgramsReadAsBuilt
CHECK_DEADLOCK FALSE
