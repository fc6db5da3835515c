----------------------------- MODULE WalletProofs -----------------------------
(***************************************************************************)
(* Proofs about the wallets, for any group of odd prime order, any keys,   *)
(* wallets, calls and messages, and any number of rotations and resends:   *)
(* what KMSWallet and LocalWallet return is a signature the chain accepts. *)
(***************************************************************************)
EXTENDS LocalWallet, CurveProofs

-----------------------------------------------------------------------------
(***************************************************************************)
(* What KMS sends back.                                                    *)
(***************************************************************************)
LEMMA HashType == Hashes \subseteq Int /\ Keys \subseteq Scalars
BY KmsAssumption DEF Scalars

\* A signature is in range whichever key made it.
LEMMA SignatureType ==
  ASSUME NEW key \in AllKeys, NEW h \in Hashes, NEW sig \in Signatures(key, h)
  PROVE  /\ sig \in [r : Scalars, s : Scalars, key : AllKeys]
         /\ sig.key = key
         /\ Ordinary(h, sig)
<1>1. sig \in Draws(key, h) /\ Ordinary(h, sig) /\ sig.s # 0
  BY DEF Signatures, Ordinary
<1>2. CASE key \in Keys
  <2>1. PICK k \in Scalars :
          sig = [r |-> XCoordinate(k), s |-> SValue(key, h, k), key |-> key]
    BY <1>1, <1>2 DEF Draws
  <2>2. XCoordinate(k) \in Scalars
    BY XRange
  <2>3. SValue(key, h, k) \in 0 .. N - 1
    BY <1>2, HashType, RecoversSigner
  <2>4. SValue(key, h, k) \in Scalars
    BY <1>1, <2>1, <2>3, NType DEF Scalars
  <2>5. QED
    BY <1>1, <2>1, <2>2, <2>4
<1>3. CASE key \notin Keys
  BY <1>1, <1>3 DEF Draws
<1>4. QED
  BY <1>2, <1>3

\* Of all keys in KMS, a signature leads only to the one that made it, normalised
\* or not.
LEMMA OnlySigner ==
  ASSUME NEW signer \in AllKeys, NEW h \in Hashes, NEW sig \in Signatures(signer, h),
         NEW v \in {27, 28}, NEW key \in AllKeys,
         key \in Recovered(h, sig.r, LowS(sig.s), v)
  PROVE  key \in Keys /\ key = signer
<1>1. sig.r \in Scalars /\ sig.s \in Scalars /\ sig.key = signer /\ Ordinary(h, sig) /\ h \in Int
  BY SignatureType, HashType
<1>2. PICK w \in {27, 28} : key \in Recovered(h, sig.r, sig.s, w)
  BY <1>1, LowSRecovers
<1>3. key \in Keys
  <2>1. key \in Int
    BY <1>1, <1>2, RecoveredPoint, Scalar
  <2>2. QED
    BY <2>1, KmsAssumption DEF AllKeys
<1>4. QED
  BY <1>1, <1>2, <1>3 DEF Ordinary

\* A signature of a KMS key leads to this key, and both recovery bits lead to
\* some key, normalised or not.
LEMMA SignerFound ==
  ASSUME NEW key \in Keys, NEW h \in Hashes, NEW sig \in Signatures(key, h)
  PROVE  /\ Matching(h, sig.r, LowS(sig.s), key) # {}
         /\ Recovered(h, sig.r, LowS(sig.s), 27) # {}
<1> DEFINE Found(v) == Recovered(h, sig.r, sig.s, v)
           LowFound(v) == Recovered(h, sig.r, LowS(sig.s), v)
<1>1. /\ sig.r \in Scalars /\ sig.s \in Scalars /\ sig.key = key /\ Ordinary(h, sig)
      /\ h \in Int /\ key \in Scalars
  BY SignatureType, HashType DEF AllKeys
<1>2. PICK v \in {27, 28} : key \in Found(v)
  <2>1. PICK k \in Scalars : sig.r = XCoordinate(k) /\ sig.s = SValue(key, h, k)
    BY DEF Signatures, Draws
  <2>2. QED
    BY <1>1, <2>1, RecoversSigner
<1>3. PICK u \in {27, 28} : \E other \in Found(u) : other \notin Keys
  BY <1>1 DEF Ordinary
<1>4. u # v
  <2>1. ASSUME NEW other \in Found(v) PROVE other = key
    <3>1. sig.r \in Scalars /\ sig.s \in Int /\ h \in Int
      BY <1>1, Scalar
    <3>2. QED
      BY <1>2, <3>1, RecoveredOne
  <2>2. QED
    BY <1>3, <2>1
<1>5. Found(27) # {} /\ Found(28) # {}
  BY <1>2, <1>3, <1>4
<1>6. LowFound(27) # {}
  <2>1. \E w \in {27, 28} : LowFound(27) = Found(w)
    BY <1>1, LowSRecovers
  <2>2. QED
    BY <1>5, <2>1
<1>7. Matching(h, sig.r, LowS(sig.s), key) # {}
  <2>1. \E w \in {27, 28} : Found(v) = LowFound(w)
    BY <1>1, LowSRecovers
  <2>2. QED
    BY <1>2, <2>1 DEF Matching
<1>8. QED
  BY <1>6, <1>7

\* What sign_hash makes of a signature that leads to the wallet's address is
\* accepted for this address.
LEMMA MatchAccepted ==
  ASSUME NEW signer \in AllKeys, NEW h \in Hashes, NEW sig \in Signatures(signer, h),
         NEW key \in AllKeys, NEW v \in Matching(h, sig.r, LowS(sig.s), key)
  PROVE  LET signed == [r |-> sig.r, s |-> LowS(sig.s), v |-> v] IN
         /\ key \in Keys /\ key = signer
         /\ Verifies(key, h, signed)
         /\ Recovered(h, signed.r, signed.s, signed.v) = {key}
         /\ signed.s <= N \div 2
<1> DEFINE signed == [r |-> sig.r, s |-> LowS(sig.s), v |-> v]
<1>1. v \in {27, 28} /\ key \in Recovered(h, sig.r, LowS(sig.s), v)
  BY DEF Matching
<1>2. key \in Keys /\ key = signer
  BY <1>1, OnlySigner
<1>3. sig.r \in Scalars /\ sig.s \in Scalars /\ h \in Int
  BY SignatureType, HashType
<1>4. signed.r \in Scalars /\ signed.s \in Scalars /\ signed.s \in Int /\ signed.s <= N \div 2
  BY <1>3, LowSRange, Scalar
<1>5. key \in Recovered(h, signed.r, signed.s, signed.v)
  BY <1>1
<1>6. Verifies(key, h, signed)
  BY <1>3, <1>4, <1>5, RecoveredVerifies
<1>7. Recovered(h, signed.r, signed.s, signed.v) = {key}
  BY <1>3, <1>4, <1>5, RecoveredOne
<1>8. QED
  BY <1>2, <1>4, <1>6, <1>7

-----------------------------------------------------------------------------
(***************************************************************************)
(* The inductive invariant of KMSWallet: a call that has begun belongs to  *)
(* a wallet with an address; a reply was made for the hash of the call,    *)
(* with a key the alias has named since the call began; and what became of *)
(* the reply is as the properties say.                                     *)
(***************************************************************************)
Underway(c) ==
  /\ call[c] \in [wallet : Wallets, hash : Hashes]
  /\ address[call[c].wallet] # None
  /\ pc[c] \in {"asked", "answered"} => alias \in current[c]

Answered(c) ==
  /\ reply[c].key \in current[c]
  /\ reply[c] \in Signatures(reply[c].key, call[c].hash)

Returned(c) ==
  LET key == address[call[c].wallet]
      sig == result[c]
  IN  /\ key \in Keys
      /\ Verifies(key, call[c].hash, sig)
      /\ Recovered(call[c].hash, sig.r, sig.s, sig.v) = {key}
      /\ sig.s <= N \div 2
      /\ key \in current[c]

Raised(c) ==
  reply[c] # None =>
    reply[c].key # address[call[c].wallet] \/ reply[c].key \in ForeignKeys

CallInv(c) ==
  /\ pc[c] # "idle" => Underway(c)
  /\ pc[c] = "answered" => Answered(c)
  /\ pc[c] = "returned" => Returned(c)
  /\ pc[c] = "raised" => Raised(c)

KMSWalletInv == TypeOK /\ \A c \in Calls : CallInv(c)

\* The properties of KMSWallet are parts of it.
LEMMA KMSWalletInvImplies ==
  ASSUME KMSWalletInv
  PROVE  SignatureAccepted /\ OwnKeyNeverRefused /\ RotationNoticed
BY DEF KMSWalletInv, CallInv, Returned, Raised, SignatureAccepted, OwnKeyNeverRefused,
       RotationNoticed

LEMMA KMSWalletInit == Init => KMSWalletInv
<1> SUFFICES ASSUME Init PROVE KMSWalletInv
  OBVIOUS
<1>1. TypeOK
  BY KmsAssumption DEF Init, TypeOK, Labels
<1>2. \A c \in Calls : pc[c] = "idle"
  BY DEF Init
<1>3. QED
  BY <1>1, <1>2 DEF KMSWalletInv, CallInv

\* A call that a step leaves alone.
LEMMA CallUnchanged ==
  ASSUME NEW c \in Calls, CallInv(c),
         UNCHANGED <<pc[c], call[c], reply[c], result[c]>>,
         current[c] \subseteq current'[c],
         pc[c] \in {"asked", "answered"} /\ alias \in current[c] => alias' \in current'[c],
         pc[c] # "idle" => address'[call[c].wallet] = address[call[c].wallet]
  PROVE  CallInv(c)'
<1>1. CASE pc[c] = "idle"
  BY <1>1 DEF CallInv
<1>2. CASE pc[c] # "idle"
  <2>1. Underway(c)'
    BY <1>2 DEF CallInv, Underway
  <2>2. pc[c] = "answered" => Answered(c)'
    BY DEF CallInv, Answered
  <2>3. pc[c] = "returned" => Returned(c)'
    BY <1>2 DEF CallInv, Returned
  <2>4. pc[c] = "raised" => Raised(c)'
    BY <1>2 DEF CallInv, Raised
  <2>5. QED
    BY <2>1, <2>2, <2>3, <2>4 DEF CallInv
<1>3. QED
  BY <1>1, <1>2

LEMMA ConstructInv ==
  ASSUME KMSWalletInv, NEW w \in Wallets, Construct(w)
  PROVE  KMSWalletInv'
<1>1. TypeOK /\ \A c \in Calls : CallInv(c)
  BY DEF KMSWalletInv
<1>2. TypeOK'
  BY <1>1 DEF TypeOK, Construct
<1>3. ASSUME NEW c \in Calls PROVE CallInv(c)'
  <2>1. CallInv(c)
    BY <1>1
  <2>2. pc[c] # "idle" => address'[call[c].wallet] = address[call[c].wallet]
    BY <1>1, <2>1 DEF TypeOK, Construct, CallInv, Underway
  <2>3. UNCHANGED <<alias, pc, call, reply, result, current>>
    BY DEF Construct
  <2>4. QED
    BY <2>1, <2>2, <2>3, CallUnchanged
<1>4. QED
  BY <1>2, <1>3 DEF KMSWalletInv

LEMMA sign_hashInv ==
  ASSUME KMSWalletInv, NEW c \in Calls, NEW w \in Wallets, NEW h \in Hashes, sign_hash(c, w, h)
  PROVE  KMSWalletInv'
<1>1. TypeOK /\ \A d \in Calls : CallInv(d)
  BY DEF KMSWalletInv
<1>2. TypeOK'
  BY <1>1, KmsAssumption DEF TypeOK, sign_hash, Labels
<1>3. ASSUME NEW d \in Calls PROVE CallInv(d)'
  <2>1. CASE d = c
    <3>1. pc'[d] = "asked" /\ call'[d] = [wallet |-> w, hash |-> h] /\ current'[d] = {alias}
      BY <1>1, <2>1 DEF TypeOK, sign_hash
    <3>2. address'[w] # None /\ alias' = alias
      BY DEF sign_hash
    <3>3. Underway(d)'
      BY <3>1, <3>2 DEF Underway
    <3>4. QED
      BY <3>1, <3>3 DEF CallInv
  <2>2. CASE d # c
    <3>1. UNCHANGED <<alias, address, pc[d], call[d], reply[d], result[d], current[d]>>
      BY <1>1, <2>2 DEF TypeOK, sign_hash
    <3>2. QED
      BY <1>1, <3>1, CallUnchanged
  <2>3. QED
    BY <2>1, <2>2
<1>4. QED
  BY <1>2, <1>3 DEF KMSWalletInv

LEMMA KmsSignInv ==
  ASSUME KMSWalletInv, NEW c \in Calls, KmsSign(c)
  PROVE  KMSWalletInv'
<1>1. TypeOK /\ \A d \in Calls : CallInv(d)
  BY DEF KMSWalletInv
<1>2. Underway(c) /\ pc[c] = "asked"
  BY <1>1 DEF KmsSign, CallInv
<1>3. PICK sig \in Signatures(alias, call[c].hash) : reply' = [reply EXCEPT ![c] = sig]
  BY DEF KmsSign
<1>4. sig \in [r : Scalars, s : Scalars, key : AllKeys] /\ sig.key = alias
  BY <1>1, <1>2, SignatureType DEF TypeOK, Underway
<1>5. TypeOK'
  BY <1>1, <1>3, <1>4 DEF TypeOK, KmsSign, Labels
<1>6. ASSUME NEW d \in Calls PROVE CallInv(d)'
  <2>1. CASE d = c
    <3>1. pc'[d] = "answered" /\ reply'[d] = sig /\ UNCHANGED <<alias, address, call, current>>
      BY <1>1, <1>3, <2>1 DEF TypeOK, KmsSign
    <3>2. Underway(d)'
      BY <1>2, <2>1, <3>1 DEF Underway
    <3>3. Answered(d)'
      BY <1>2, <1>3, <1>4, <2>1, <3>1 DEF Answered, Underway
    <3>4. QED
      BY <3>1, <3>2, <3>3 DEF CallInv
  <2>2. CASE d # c
    <3>1. UNCHANGED <<alias, address, pc[d], call[d], reply[d], result[d], current[d]>>
      BY <1>1, <1>3, <2>2 DEF TypeOK, KmsSign
    <3>2. QED
      BY <1>1, <3>1, CallUnchanged
  <2>3. QED
    BY <2>1, <2>2
<1>7. QED
  BY <1>5, <1>6 DEF KMSWalletInv

LEMMA FailInv ==
  ASSUME KMSWalletInv, NEW c \in Calls, Fail(c)
  PROVE  KMSWalletInv'
<1>1. TypeOK /\ \A d \in Calls : CallInv(d)
  BY DEF KMSWalletInv
<1>2. Underway(c)
  BY <1>1 DEF Fail, CallInv
<1>3. /\ reply' = [reply EXCEPT ![c] = None]
      /\ UNCHANGED <<alias, rotations, address, call, result, current>>
      /\ \/ pc' = [pc EXCEPT ![c] = "asked"]
         \/ pc' = [pc EXCEPT ![c] = "raised"]
  BY DEF Fail
<1>4. TypeOK'
  <2>1. sends' \in [Calls -> 0 .. Resends + 1]
    BY <1>1, KmsAssumption DEF TypeOK, Fail
  <2>2. pc' \in [Calls -> Labels]
    BY <1>1, <1>3 DEF TypeOK, Labels
  <2>3. QED
    BY <1>1, <1>3, <2>1, <2>2 DEF TypeOK
<1>5. ASSUME NEW d \in Calls PROVE CallInv(d)'
  <2>1. CASE d = c
    <3>1. pc'[d] \in {"asked", "raised"} /\ reply'[d] = None
      BY <1>1, <1>3, <2>1 DEF TypeOK
    <3>2. Underway(d)'
      BY <1>2, <1>3, <2>1 DEF Underway, Fail
    <3>3. Raised(d)'
      BY <3>1 DEF Raised
    <3>4. QED
      BY <3>1, <3>2, <3>3 DEF CallInv
  <2>2. CASE d # c
    <3>1. UNCHANGED <<alias, address, pc[d], call[d], reply[d], result[d], current[d]>>
      BY <1>1, <1>3, <2>2 DEF TypeOK
    <3>2. QED
      BY <1>1, <3>1, CallUnchanged
  <2>3. QED
    BY <2>1, <2>2
<1>6. QED
  BY <1>4, <1>5 DEF KMSWalletInv

LEMMA RotateInv ==
  ASSUME KMSWalletInv, Rotate
  PROVE  KMSWalletInv'
<1>1. TypeOK /\ \A c \in Calls : CallInv(c)
  BY DEF KMSWalletInv
<1>2. PICK key \in AllKeys :
        /\ alias' = key
        /\ current' = [c \in Calls |->
             IF pc[c] \in {"asked", "answered"} THEN current[c] \cup {key} ELSE current[c]]
  BY DEF Rotate
<1>3. UNCHANGED <<address, pc, call, sends, reply, result>>
  BY DEF Rotate
<1>4. TypeOK'
  <2>1. rotations' \in 0 .. Rotations
    BY <1>1, KmsAssumption DEF TypeOK, Rotate
  <2>2. current' \in [Calls -> SUBSET AllKeys]
    BY <1>1, <1>2 DEF TypeOK
  <2>3. QED
    BY <1>1, <1>2, <1>3, <2>1, <2>2 DEF TypeOK
<1>5. ASSUME NEW c \in Calls PROVE CallInv(c)'
  <2>1. /\ current[c] \subseteq current'[c]
        /\ pc[c] \in {"asked", "answered"} => alias' \in current'[c]
    BY <1>2
  <2>2. QED
    BY <1>1, <1>3, <2>1, CallUnchanged
<1>6. QED
  BY <1>4, <1>5 DEF KMSWalletInv

\* The step in which a signature is matched with the wallet's address.
LEMMA FinishInv ==
  ASSUME KMSWalletInv, NEW c \in Calls, Finish(c)
  PROVE  KMSWalletInv'
<1>1. TypeOK /\ \A d \in Calls : CallInv(d)
  BY DEF KMSWalletInv
<1> DEFINE h == call[c].hash
           sig == reply[c]
           key == address[call[c].wallet]
           good == Matching(h, sig.r, LowS(sig.s), key)
           v == IF 27 \in good THEN 27 ELSE 28
           signed == [r |-> sig.r, s |-> LowS(sig.s), v |-> v]
<1>2. Underway(c) /\ Answered(c)
  BY <1>1 DEF Finish, CallInv
<1>3. h \in Hashes /\ key \in AllKeys
  BY <1>1, <1>2 DEF TypeOK, Underway
<1>4. sig.key \in AllKeys /\ sig \in Signatures(sig.key, h)
  BY <1>1, <1>2 DEF TypeOK, Answered
<1>5. sig.r \in Scalars /\ sig.s \in Scalars
  BY <1>3, <1>4, SignatureType
<1>6. UNCHANGED <<alias, rotations, address, call, sends, reply, current>>
  BY DEF Finish
<1>7. \/ /\ good # {}
         /\ pc' = [pc EXCEPT ![c] = "returned"]
         /\ result' = [result EXCEPT ![c] = signed]
      \/ /\ Recovered(h, sig.r, LowS(sig.s), 27) = {} \/ good = {}
         /\ pc' = [pc EXCEPT ![c] = "raised"]
         /\ result' = result
  BY DEF Finish
<1>8. Underway(c)'
  BY <1>2, <1>6 DEF Underway, Finish
<1>9. ASSUME NEW d \in Calls, d # c PROVE CallInv(d)'
  <2>1. UNCHANGED <<alias, address, pc[d], call[d], reply[d], result[d], current[d]>>
    BY <1>1, <1>6, <1>7, <1>9 DEF TypeOK
  <2>2. QED
    BY <1>1, <2>1, CallUnchanged
<1>10. CASE good # {} /\ pc' = [pc EXCEPT ![c] = "returned"]
                      /\ result' = [result EXCEPT ![c] = signed]
  <2>1. v \in good /\ v \in {27, 28}
    BY <1>10 DEF Matching
  <2>2. signed \in [r : Scalars, s : Scalars, v : {27, 28}]
    BY <1>5, <2>1, LowSRange
  <2>3. TypeOK'
    BY <1>1, <1>6, <1>10, <2>2 DEF TypeOK, Labels
  <2>4. pc'[c] = "returned" /\ result'[c] = signed
    BY <1>1, <1>10 DEF TypeOK
  <2>5. /\ key \in Keys /\ key = sig.key
        /\ Verifies(key, h, signed)
        /\ Recovered(h, signed.r, signed.s, signed.v) = {key}
        /\ signed.s <= N \div 2
    <3> HIDE DEF v, sig, h, key
    <3>1. QED
      BY <1>3, <1>4, <2>1, MatchAccepted
  <2>6. Returned(c)'
    <3> HIDE DEF signed
    <3>1. key \in current[c]
      BY <1>2, <2>5 DEF Answered
    <3>2. QED
      BY <1>6, <2>4, <2>5, <3>1 DEF Returned
  <2>7. CallInv(c)'
    BY <1>8, <2>4, <2>6 DEF CallInv
  <2>8. QED
    BY <1>9, <2>3, <2>7 DEF KMSWalletInv
<1>11. CASE /\ Recovered(h, sig.r, LowS(sig.s), 27) = {} \/ good = {}
            /\ pc' = [pc EXCEPT ![c] = "raised"]
            /\ result' = result
  <2>1. TypeOK'
    BY <1>1, <1>6, <1>11 DEF TypeOK, Labels
  <2>2. pc'[c] = "raised"
    BY <1>1, <1>11 DEF TypeOK
  <2>3. sig.key # key \/ sig.key \in ForeignKeys
    <3> SUFFICES ASSUME sig.key = key, sig.key \notin ForeignKeys PROVE FALSE
      OBVIOUS
    <3>1. key \in Keys
      BY <1>3 DEF AllKeys
    <3>2. sig \in Signatures(key, h)
      BY <1>4
    <3>3. QED
      BY <1>3, <1>11, <3>1, <3>2, SignerFound
  <2>4. Raised(c)'
    BY <1>6, <2>3 DEF Raised
  <2>5. CallInv(c)'
    BY <1>8, <2>2, <2>4 DEF CallInv
  <2>6. QED
    BY <1>9, <2>1, <2>5 DEF KMSWalletInv
<1>12. QED
  BY <1>7, <1>10, <1>11

LEMMA KMSWalletStep ==
  ASSUME KMSWalletInv, [Next]_vars
  PROVE  KMSWalletInv'
<1>1. CASE Rotate
  BY <1>1, RotateInv
<1>2. CASE \E w \in Wallets : Construct(w)
  BY <1>2, ConstructInv
<1>3. CASE \E c \in Calls, w \in Wallets, h \in Hashes : sign_hash(c, w, h)
  BY <1>3, sign_hashInv
<1>4. CASE \E c \in Calls : KmsSign(c)
  BY <1>4, KmsSignInv
<1>5. CASE \E c \in Calls : Fail(c)
  BY <1>5, FailInv
<1>6. CASE \E c \in Calls : Finish(c)
  BY <1>6, FinishInv
<1>7. CASE UNCHANGED vars
  BY <1>7 DEF vars, KMSWalletInv, TypeOK, CallInv, Underway, Answered, Returned, Raised
<1>8. QED
  BY <1>1, <1>2, <1>3, <1>4, <1>5, <1>6, <1>7 DEF Next

\* The calls of sign_hash keep their invariant, whatever KMS draws, repeats and
\* loses and however often the alias moves (kms.py:88-209).
THEOREM KMSWalletInvariant == Spec => []KMSWalletInv
BY KMSWalletInit, KMSWalletStep, PTL DEF Spec

\* Every variable of the KMS wallets keeps its type: r and s are in the range of
\* the curve, before and after s is normalised, and v is 27 or 28
\* (kms.py:187-204).
THEOREM KMSWalletTypes == Spec => []TypeOK
<1>1. KMSWalletInv => TypeOK
  BY DEF KMSWalletInv
<1>2. QED
  BY <1>1, KMSWalletInvariant, PTL

\* Every signature sign_hash returns is accepted on chain for the wallet's
\* address and leads back to it, whichever half s was in and whatever the alias
\* did meanwhile (kms.py:187-204).
THEOREM KMSSignatureAccepted == Spec => []SignatureAccepted
BY KMSWalletInvImplies, KMSWalletInvariant, PTL

\* No signature by the key of the wallet's address is refused (kms.py:189-209).
THEOREM KMSOwnKeyAccepted == Spec => []OwnKeyNeverRefused
BY KMSWalletInvImplies, KMSWalletInvariant, PTL

\* What a wallet returns was signed while the alias named the key of its cached
\* address, however often it moved (kms.py:116-117, 203).
THEOREM KMSRotationNoticed == Spec => []RotationNoticed
BY KMSWalletInvImplies, KMSWalletInvariant, PTL

-----------------------------------------------------------------------------
(***************************************************************************)
(* LocalWallet: the account is what the material makes, and its last       *)
(* signature is eth-account's.                                             *)
(***************************************************************************)
\* An application with a local wallet takes no step of the KMS wallets.
THEOREM WalletsImplementKMSWallet == WalletSpec => Spec
<1>1. LocalInit => Init
  BY DEF LocalInit
<1>2. [WalletNext]_<<vars, localVars>> => [Next]_vars
  BY DEF WalletNext, Load, sign_typed_data
<1>3. QED
  BY <1>1, <1>2, PTL DEF WalletSpec, Spec

Signed ==
  /\ account \in Scalars
  /\ \E h \in Hashes, k \in Scalars :
       /\ SValue(account, h, k) # 0
       /\ signature = [hash |-> h, sig |-> EthSignature(account, h, k)]

LocalInv ==
  /\ material \in Materials \cup {None}
  /\ account # None => material # None /\ account = load_account(material)
  /\ signature # None => Signed

LEMMA LocalInvStep ==
  ASSUME LocalInv, [WalletNext]_<<vars, localVars>>
  PROVE  LocalInv'
<1>1. CASE UNCHANGED localVars
  BY <1>1 DEF LocalInv, Signed, localVars
<1>2. CASE Load
  <2>1. material # None /\ account' = load_account(material) /\ UNCHANGED <<material, signature>>
    BY <1>2 DEF Load
  <2>2. signature = None
    <3>1. None \notin Scalars
      BY Scalar, KmsAssumption
    <3>2. QED
      BY <1>2, <3>1 DEF Load, LocalInv, Signed
  <2>3. QED
    BY <2>1, <2>2 DEF LocalInv
<1>3. ASSUME NEW h \in Hashes, sign_typed_data(h) PROVE LocalInv'
  <2>1. PICK k \in Scalars :
          /\ SValue(account, h, k) # 0
          /\ signature' = [hash |-> h, sig |-> EthSignature(account, h, k)]
    BY <1>3 DEF sign_typed_data, from_eth_account_sig, EthSignature
  <2>2. account \in Scalars /\ UNCHANGED <<material, account>>
    BY <1>3 DEF sign_typed_data
  <2>3. Signed'
    BY <2>1, <2>2 DEF Signed
  <2>4. QED
    BY <2>2, <2>3 DEF LocalInv
<1>4. QED
  BY <1>1, <1>2, <1>3 DEF WalletNext, localVars

\* The account is what the material makes, and the last signature is its
\* (local.py:63-97, 131-166).
THEOREM LocalWalletInvariant == WalletSpec => []LocalInv
<1>1. LocalInit => LocalInv
  BY DEF LocalInit, LocalInv
<1>2. QED
  BY <1>1, LocalInvStep, PTL DEF WalletSpec

\* What a material makes of itself, it stands for: the length check and the one
\* prefix that eth-account takes leave no other reading.
LEMMA LoadedDenotes ==
  ASSUME NEW m \in Materials, load_account(m) \in Scalars
  PROVE  Denotes(m, load_account(m))
<1>1. NotHex \notin Scalars
  <2>1. Scalars \subseteq Nat
    BY NType DEF Scalars
  <2>2. QED
    BY <2>1, LocalAssumption
<1>2. key_hex(m) = <<"0x">> /\ m.digits = 64 /\ load_account(m) = m.key
  BY <1>1 DEF load_account, from_key
<1>3. ASSUME m.form = "text" PROVE m.marks \in {<<>>, <<"0x">>}
  <2>1. m.marks \in Seq({"0x", "0X"})
    BY LocalAssumption
  <2>2. CASE m.marks # <<>> /\ Head(m.marks) = "0x"
    BY <1>2, <1>3, <2>2 DEF key_hex
  <2>3. CASE ~(m.marks # <<>> /\ Head(m.marks) = "0x")
    <3>1. <<"0x">> \o m.marks = <<"0x">>
      BY <1>2, <2>3 DEF key_hex
    <3>2. Len(<<"0x">> \o m.marks) = 1 + Len(m.marks)
      BY <2>1
    <3>3. Len(m.marks) = 0
      BY <2>1, <3>1, <3>2
    <3>4. QED
      BY <2>1, <3>3
  <2>4. QED
    BY <2>2, <2>3
<1>4. QED
  BY <1>2, <1>3 DEF Denotes

\* Whatever hex() writes, what a local wallet signs is accepted on chain for the
\* key its material stands for (local.py:141-166, base.py:48-69).
THEOREM LocalSignaturesAccepted == WalletSpec => []LocalSignatureAccepted
<1>1. ASSUME NEW d \in Scalars, NEW h \in Hashes, NEW k \in Scalars, SValue(d, h, k) # 0
      PROVE  LET sig == EthSignature(d, h, k) IN
             /\ Verifies(d, h, sig)
             /\ d \in Recovered(h, sig.r, sig.s, sig.v)
             /\ sig.s <= N \div 2
  <2> DEFINE r == XCoordinate(k)
             s == SValue(d, h, k)
             sig == EthSignature(d, h, k)
  <2>1. h \in Int /\ r \in Scalars
    BY HashType, XRange
  <2>2. s \in Scalars
    BY <1>1, <2>1, RecoversSigner, NType DEF Scalars
  <2>3. LowS(s) \in Scalars /\ LowS(s) <= N \div 2
    BY <2>2, LowSRange
  <2>4. \E v \in {27, 28} : d \in Recovered(h, r, LowS(s), v)
    <3>1. PICK v \in {27, 28} : d \in Recovered(h, r, s, v)
      BY <2>1, RecoversSigner
    <3> HIDE DEF r, s
    <3>2. \E w \in {27, 28} : Recovered(h, r, s, v) = Recovered(h, r, LowS(s), w)
      BY <2>1, <2>2, LowSRecovers
    <3>3. QED
      BY <3>1, <3>2
  <2>5. sig.r = r /\ sig.s = LowS(s) /\ d \in Recovered(h, sig.r, sig.s, sig.v)
    BY <2>4 DEF EthSignature
  <2>6. Verifies(d, h, sig)
    <3> HIDE DEF r, s, sig
    <3>1. QED
      BY <2>1, <2>3, <2>5, RecoveredVerifies
  <2>7. QED
    BY <2>3, <2>5, <2>6
<1>2. LocalInv => LocalSignatureAccepted
  <2> SUFFICES ASSUME LocalInv, signature # None
               PROVE  /\ Verifies(account, signature.hash, signature.sig)
                      /\ \E key \in Recovered(signature.hash, signature.sig.r, signature.sig.s,
                                              signature.sig.v) : Denotes(material, key)
                      /\ signature.sig.s <= N \div 2
    BY DEF LocalSignatureAccepted
  <2>1. PICK h \in Hashes, k \in Scalars :
          SValue(account, h, k) # 0 /\ signature = [hash |-> h, sig |-> EthSignature(account, h, k)]
    BY DEF LocalInv, Signed
  <2>2. account \in Scalars
    BY DEF LocalInv, Signed
  <2>3. Denotes(material, account)
    <3>1. account # None
      BY <2>2, Scalar, KmsAssumption
    <3>2. QED
      BY <2>2, <3>1, LoadedDenotes DEF LocalInv
  <2>4. signature.hash = h /\ signature.sig = EthSignature(account, h, k)
    BY <2>1
  <2>5. QED
    BY <1>1, <2>1, <2>2, <2>3, <2>4
<1>3. QED
  BY <1>2, LocalWalletInvariant, PTL
=============================================================================
