CONSTANTS
  a = a
  b = b
  Pools = {a, b}
  MaxBlocks = 3
  LastBlock = 6
  Disconnects = TRUE
  FilterExpires = TRUE
  Crashes = TRUE
  LongGaps = FALSE
SPECIFICATION FairSpec
INVARIANTS
  TypeOK
  NoLostChange
  SavedIsReplayable
  SearchUpToLastBlock
PROPERTIES
  DrainEnds
  ChangeIsSearched
