SPECIFICATION FairSpec
CONSTANTS
  RegisterCount = 1
  Cost <- MixedCost
  Programs <- EverySection
  Profile = "Sim"
  Values = {0, 1}
  InputCount = 1
  StackDepth = 2
  SpentMax = 6
  Limits = {0, 5}
  ShortLength = 3
  LongLength = 4
INVARIANTS
  StacksWellFormed
  LoopFreeWithinCost
  OpenBlocksFollowText
PROPERTIES
  InvocationsEnd
