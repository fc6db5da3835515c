SPECIFICATION Spec
CONSTANTS
  n1 = n1
  N1 = N1
  g1 = g1
  g2 = g2
  c1 = c1
  Empty = Empty
  None = None
  Calls = {c1}
  Reqs = {r1}
  Wallets = {local, kms}
  KmsWallets = {kms}
  Terms = {t1, huge}
  Unsignable = {huge}
  Deadlines <- MCDeadlines
  Nonces = {n1, N1, short, nothex, g1}
  BadShape = {short}
  NotHex = {nothex}
  Bytes32 = {n1, short, nothex, g1}
  BytesOf <- MCBytesOf
  Generated <- MCGenerated
  TimeoutOf <- MCLongTimeouts
  MaxWindow = 8
  Workers = 1
  Horizon = 4
INVARIANTS
  TypeOK
  SignatureCoversAuthorization
  IssuedWithinWindow
  OwnWindowHonoured
PROPERTIES
  OutcomesAreFinal
CHECK_DEADLOCK FALSE
