CONSTANTS
  N = 2
  a = a
  b = b
  q1 = q1
  q2 = q2
  q3 = q3
  Pools = {a}
  Reserves = {0, 1}
  Paths = {q1, q2, q3}
  PoolsOf <- MCPoolsOfThree
  PathOrder <- MCPathOrderThree
  PoolOrder <- MCPoolOrderOne
  SameHashSeed = FALSE
  MaxDeaths = 0
  Absent = Absent
SPECIFICATION Spec
INVARIANTS
  EachPathSearchedOnce
