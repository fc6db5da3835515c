SPECIFICATION FairSpec
CONSTANTS
  n1 = n1
  N1 = N1
  g1 = g1
  g2 = g2
  c1 = c1
  Empty = Empty
  None = None
  Calls = {c1, c2}
  Reqs = {r1}
  Wallets = {local}
  KmsWallets = {}
  Terms = {t1}
  Unsignable = {}
  Deadlines = {2}
  Nonces = {g1, g2}
  BadShape = {}
  NotHex = {}
  Bytes32 = {g1, g2}
  BytesOf <- MCBytesOf
  Generated <- MCGenerated
  TimeoutOf <- MCTimeouts
  MaxWindow = 8
  Workers = 1
  Horizon = 1
INVARIANTS
  SignatureCoversAuthorization
  IssuedWithinWindow
  OwnWindowHonoured
PROPERTIES
  OutcomesAreFinal
  ImplementsIssuer
  CallsEnd
CHECK_DEADLOCK FALSE
