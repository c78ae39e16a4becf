CONSTANTS
  a = a
  b = b
  Pools = {a, b}
  MaxBlocks = 2
  LastBlock = 7
  Disconnects = TRUE
  FilterExpires = FALSE
  Crashes = FALSE
  LongGaps = TRUE
SPECIFICATION Spec
INVARIANTS
  NoLostChange
