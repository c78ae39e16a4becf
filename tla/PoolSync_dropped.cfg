CONSTANTS
  a = a
  b = b
  Pools = {a, b}
  MaxBlocks = 2
  LastBlock = 5
  Disconnects = FALSE
  FilterExpires = TRUE
  Crashes = FALSE
  LongGaps = TRUE
SPECIFICATION Spec
INVARIANTS
  NoLostChange
