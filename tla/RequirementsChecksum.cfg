SPECIFICATION IntentSpec
CONSTANTS
  None = None
  Empty = Empty
  Refused = Refused
  NotInteger = NotInteger
  Eip155 = Eip155
  a1 = a1
  a2 = a2
  plain = plain
  typo = typo
  bare = bare
  nohex = nohex
  bucket = bucket
  base = base
  sepolia = sepolia
  solana = solana
  colonless = colonless
  nochain = nochain
  negative = negative
  nameless = nameless
  n1 = n1
  short = short
  Addresses = {a1, a2}
  Texts <- MCTexts
  AddressOf <- MCAddressOf
  Orders <- MCOrders
  Structural = {plain, typo, nohex}
  Mistyped = {typo}
  Nonces = {n1}
  HomeChain = 1
  MaxUint256 = 1
  Usdc = Usdc
  usdc = usdc
  null = null
  eur = eur
  Spellings = {Usdc, usdc}
  BadShape = {short}
  Specials = {0, 1, 2, 3, 4}
  Networks <- MCNetworks
  NamespaceOf <- MCNamespaceOf
  ReferenceOf <- MCReferenceOf
  Bodies <- MCBodies
INVARIANT
  ChecksumValidated
CHECK_DEADLOCK FALSE
