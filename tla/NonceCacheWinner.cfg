SPECIFICATION CacheSpec
CONSTANTS
  None = None
  Calls = {c1, c2}
  Nonces = {n1}
  Ttls = {1}
  DefaultTtl = 2
  Resends = 0
  Horizon = 2
SYMMETRY CallSymmetry
INVARIANT
  FirstInstanceWins
CHECK_DEADLOCK FALSE
