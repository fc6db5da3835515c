SPECIFICATION Spec
CONSTANTS
  n1 = n1
  N1 = N1
  n2 = n2
  b1 = b1
  b2 = b2
  None = None
  Amounts = {5}
  ChainIds = {3, 7}
  Exact = 4
  Deadlines = {1, 3, 9}
  Nonces <- MCNonces
  BytesOf <- MCBytesOf
  Generated <- MCGenerated
  Timeout = 7
  MaxWindow = 2
  MaxAttempts = 3
  Horizon = 6
INVARIANTS ExchangeTypeOK PaidOnce ClearMeansDead HeaderHonoured
PROPERTIES ImplementsPurchase
CHECK_DEADLOCK FALSE
