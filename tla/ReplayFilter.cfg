SPECIFICATION Spec
CONSTANTS
  WindowBits = 3
  MaxSequence = 8
INVARIANTS
  BitmapExact
PROPERTIES
  VerdictsTruthful
  ImplementsAtMostOnce
