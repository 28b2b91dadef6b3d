SPECIFICATION Spec
CONSTANTS
  Senders = {s1, s2}
  Capacity = 2
  SequenceModulus = 8
  WindowBits = 2
  MaxLength = 2
  Chunk = 1
  MaxMessages = 2
  MaxReboots = 1
  MaxDamaged = 1
  FirstSequence = 0
INVARIANTS
  NoncesUnique
  OnlyWholeMessages
  HandedUpAtMostOnce
PROPERTIES
  NothingFromAnEarlierBoot
  EveryMessageArrives
CHECK_DEADLOCK FALSE
