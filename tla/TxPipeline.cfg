CONSTANTS
  Stock <- MCStock
  MaxArbs = 3
  MaxBurners = 2
  MaxRounds = 2
  ConnectionErrors = {"loop"}
SPECIFICATION FairSpec
INVARIANTS
  TypeOK
  BurnersAlive
  NonceFresh
  AllSettled
  StockExact
PROPERTIES
  RoundEnds
CHECK_DEADLOCK FALSE
