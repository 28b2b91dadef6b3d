SPECIFICATION Spec
CONSTANTS
  Capacity = 3
  SequenceModulus = 16
  Lengths = {0, 2, 3, 4}
  MaxLength = 4
  Chunks = {0, 2}
  MaxMessages = 3
  MaxInFlight = 2
  FirstSequence = 14
PROPERTIES
  EveryMessageArrives
INVARIANTS
  OnlyWholeMessages
  HeldIsAPrefix
CHECK_DEADLOCK FALSE
