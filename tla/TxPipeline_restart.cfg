CONSTANTS
  Stock <- MCStock
  MaxArbs = 3
  MaxBurners = 2
  MaxRounds = 2
  ConnectionErrors = {"confirm"}
SPECIFICATION Spec
INVARIANTS
  DestroyedNotOffered
CHECK_DEADLOCK FALSE
