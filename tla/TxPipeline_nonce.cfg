CONSTANTS
  Stock <- MCStock
  MaxArbs = 3
  MaxBurners = 2
  MaxRounds = 2
  ConnectionErrors = {}
SPECIFICATION Spec
INVARIANTS
  NonceIsNext
CHECK_DEADLOCK FALSE
