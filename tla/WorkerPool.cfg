CONSTANTS
  N = 2
  a = a
  b = b
  q1 = q1
  q2 = q2
  q3 = q3
  Pools = {a, b}
  Reserves = {0, 1}
  Paths = {q1, q2}
  PoolsOf <- MCPoolsOf
  PathOrder <- MCPathOrder
  PoolOrder <- MCPoolOrder
  SameHashSeed = TRUE
  MaxDeaths = 1
  Absent = Absent
SPECIFICATION FairSpec
INVARIANTS
  TypeOK
  SearchSeesMainPools
  OneAnswerPerID
  BroadcastReachesAll
  EachPathSearchedOnce
  BlacklistedNotSearched
PROPERTIES
  CallReturns
CHECK_DEADLOCK FALSE
