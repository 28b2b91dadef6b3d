SPECIFICATION Spec
CONSTANTS
  One = 256
  FullCode = 15
  Period = 16
  Phases = 32
  Frames <- MCFrames
  Brightnesses = {90, 256}
  Supplies <- MCSupplies
  NoSupply = NoSupply
INVARIANTS
  WithinSupply
  NoDimmerThanNeeded
  HueHolds
  DitherAverages
