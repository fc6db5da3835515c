SPECIFICATION FlowSpec
CONSTANTS
  None = None
  n1 = n1
  N1 = N1
  Calls = {c1, c2}
  Nonces = {n1, N1}
  Ttls <- MCTtls
  DefaultTtl = 1
  Resends = 1
  Horizon = 3
  Bytes32 = {n1}
  BytesOf <- MCBytesOf
  Window = 2
  RecordsWindow = TRUE
SYMMETRY AttemptSymmetry
INVARIANTS
  FlowTypeOK
  UsedOnceInWindow
  WindowGuarded
PROPERTIES
  ImplementsLedger
CHECK_DEADLOCK FALSE
