SPECIFICATION WalletSpec
CONSTANTS
  None = None
  N = 11
  Keys = {2, 5}
  ForeignKeys = {p256}
  Wallets = {w1, w2}
  Calls = {c1}
  Hashes = {0, 3, 7, 10}
  Rotations = 2
  Resends = 1
  Materials <- MCMaterials
  NotHex = NotHex
SYMMETRY KmsSymmetry
INVARIANTS
  TypeOK
  SignatureAccepted
  OwnKeyNeverRefused
  RotationNoticed
  LocalSignatureAccepted
CHECK_DEADLOCK FALSE
