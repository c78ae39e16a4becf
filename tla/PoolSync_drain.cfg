CONSTANTS
  a = a
  b = b
  Pools = {a, b}
  MaxBlocks = 1
  LastBlock = 5
  Disconnects = FALSE
  FilterExpires = FALSE
  Crashes = FALSE
  LongGaps = TRUE
SPECIFICATION FairSpec
PROPERTIES
  DrainEnds
