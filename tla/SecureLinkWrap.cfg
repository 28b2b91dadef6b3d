SPECIFICATION Spec
CONSTANTS
  Senders = {s1}
  Capacity = 3
  SequenceModulus = 16
  WindowBits = 2
  MaxLength = 3
  Chunk = 1
  MaxMessages = 1
  MaxReboots = 0
  MaxDamaged = 0
  FirstSequence = 14
PROPERTIES
  EveryMessageArrives
CHECK_DEADLOCK FALSE
