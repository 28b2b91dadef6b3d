SPECIFICATION Spec
CONSTANTS
  Block = 2
  HeaderLen = 3
  Bytes = {0, 1}
  PayloadMax = 3
  MaxSealed = 2
INVARIANTS
  SeamNeverShows
  TagsTellDatagramsApart
CHECK_DEADLOCK FALSE
