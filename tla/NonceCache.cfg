SPECIFICATION CacheSpec
CONSTANTS
  None = None
  Calls = {c1, c2, c3}
  Nonces = {n1}
  Ttls = {0, 1}
  DefaultTtl = 2
  Resends = 1
  Horizon = 2
SYMMETRY CallSymmetry
INVARIANTS
  CacheTypeOK
  StoreMatchesLeases
  LeasesDisjoint
  TrueMeansGranted
  FalseMeansTaken
  WinnersApart
CHECK_DEADLOCK FALSE
