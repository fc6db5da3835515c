------------------------------ MODULE KMSWallet ------------------------------
(***************************************************************************)
(* conway_sdk/wallet/kms.py: wallets over a key alias in AWS KMS, their    *)
(* address cached at construction, and sign_hash, called from any threads. *)
(*                                                                         *)
(* The curve is a small one in which everything sign_hash relies on can be *)
(* computed.  The group has prime order N and the point k.G is written k:  *)
(* k and N - k share their x coordinate and differ in the parity of y.  An *)
(* address stands for its public key.  Coincidences of probability 2^-256  *)
(* on secp256k1 are left out (Ordinary): a draw with s = 0, a recovery     *)
(* that meets the point at infinity, and one that meets another of Keys.   *)
(***************************************************************************)
EXTENDS Integers

CONSTANTS
  N,            \* order of the group, an odd prime
  Keys,         \* KMS keys of spec ECC_SECG_P256K1, as points
  ForeignKeys,  \* KMS keys on another curve
  Wallets,      \* KMSWallet instances
  Calls,        \* calls of sign_hash
  Hashes,       \* message hashes, modulo N
  Rotations,    \* bound on how often the alias is moved
  Resends,      \* bound on how often botocore repeats a request
  None

ASSUME KmsAssumption ==
  /\ N \in Nat /\ N > 2 /\ N % 2 = 1
  /\ \A a, b \in 1 .. N - 1 : (a * b) % N # 0
  /\ Keys \subseteq 1 .. N - 1
  /\ ForeignKeys \cap Int = {}
  /\ Hashes \subseteq 0 .. N - 1
  /\ Rotations \in Nat
  /\ Resends \in Nat
  /\ None \notin Int \cup ForeignKeys

VARIABLES
  alias,      \* the key the alias names
  rotations,  \* how often it was moved
  address,    \* KMSWallet._address, None before construction
  pc,         \* "idle", "asked", "answered", "returned" or "raised"
  call,       \* wallet and hash of a call
  sends,      \* how often its request was sent
  reply,      \* the signature on its way back, and the key that made it
  result,     \* the 65 bytes sign_hash returned
  current     \* history: the keys the alias named since the call began

vars == <<alias, rotations, address, pc, call, sends, reply, result, current>>

Scalars == 1 .. N - 1
AllKeys == Keys \cup ForeignKeys
Labels == {"idle", "asked", "answered", "returned", "raised"}

Init ==
  /\ alias \in AllKeys
  /\ rotations = 0
  /\ address = [w \in Wallets |-> None]
  /\ pc = [c \in Calls |-> "idle"]
  /\ call = [c \in Calls |-> None]
  /\ sends = [c \in Calls |-> 0]
  /\ reply = [c \in Calls |-> None]
  /\ result = [c \in Calls |-> None]
  /\ current = [c \in Calls |-> {}]

-----------------------------------------------------------------------------
(***************************************************************************)
(* The curve and ECDSA.                                                    *)
(***************************************************************************)
XCoordinate(point) == (point * point) % N
YIsEven(point) == point % 2 = 0

Inverted(a) == CHOOSE b \in Scalars : (a * b) % N = 1

\* What a signer with private key d and draw k computes for hash h.
SValue(d, h, k) == (Inverted(k) * (h + XCoordinate(k) * d)) % N

\* The public keys Account._recover_hash finds: one, or none when r is no x
\* coordinate or the result is no key, and it raises.
Recovered(h, r, s, v) ==
  {((s * point - h) * Inverted(r)) % N :
     point \in {p \in Scalars : XCoordinate(p) = r /\ YIsEven(p) = (v = 27)}} \ {0}

Ordinary(h, sig) ==
  LET found == UNION {Recovered(h, sig.r, sig.s, v) : v \in {27, 28}}
  IN  /\ sig.s # 0
      /\ found \cap Keys \subseteq {sig.key}
      /\ sig.key \in Keys => found \ Keys # {}

\* Verification as the chain does it.
Verifies(key, h, sig) ==
  LET u == (Inverted(sig.s) * (h + sig.r * key)) % N
  IN  u # 0 /\ XCoordinate(u) = sig.r

-----------------------------------------------------------------------------
(***************************************************************************)
(* The wallet.                                                             *)
(***************************************************************************)
\* __init__ and _resolve_address: get_public_key of the key the alias names.
Construct(w) ==
  /\ address[w] = None
  /\ address' = [address EXCEPT ![w] = alias]
  /\ UNCHANGED <<alias, rotations, pc, call, sends, reply, result, current>>

sign_hash(c, w, h) ==
  /\ pc[c] = "idle"
  /\ address[w] # None
  /\ pc' = [pc EXCEPT ![c] = "asked"]
  /\ call' = [call EXCEPT ![c] = [wallet |-> w, hash |-> h]]
  /\ sends' = [sends EXCEPT ![c] = 1]
  /\ current' = [current EXCEPT ![c] = {alias}]
  /\ UNCHANGED <<alias, rotations, address, reply, result>>

\* Mutant: s is returned as KMS sent it.
AnyS(s) == s

\* Mutant: the operands are swapped.
NegatedS(s) == IF s > N \div 2 THEN s - N ELSE s

LowS(s) == IF s > N \div 2 THEN N - s ELSE s

\* Mutant: the recovery bit is taken to be 27.
FirstOnly(h, r, s, key) == {v \in {27} : key \in Recovered(h, r, s, v)}

\* Mutant: a candidate is good when it recovers any key.
AnyRecovered(h, r, s, key) == {v \in {27} : Recovered(h, r, s, v) # {}}

\* The candidates whose recovered address is the wallet's.
Matching(h, r, s, key) == {v \in {27, 28} : key \in Recovered(h, r, s, v)}

\* The rest of sign_hash, after kms.sign has returned.  An exception of
\* _recover_hash for the first candidate ends the loop, too.
Finish(c) ==
  LET h == call[c].hash
      r == reply[c].r
      s == LowS(reply[c].s)
      good == Matching(h, r, s, address[call[c].wallet])
      recoverable == Recovered(h, r, s, 27) # {}
  IN
  /\ pc[c] = "answered"
  /\ \/ /\ recoverable /\ good # {}
        /\ pc' = [pc EXCEPT ![c] = "returned"]
        /\ result' = [result EXCEPT ![c] =
                        [r |-> r, s |-> s, v |-> IF 27 \in good THEN 27 ELSE 28]]
     \/ /\ ~recoverable \/ good = {}
        /\ pc' = [pc EXCEPT ![c] = "raised"]
        /\ UNCHANGED result
  /\ UNCHANGED <<alias, rotations, address, call, sends, reply, current>>

\* The request or its reply is lost, or KMS throttles: botocore sends it again,
\* and raises when it has done so often enough.
Fail(c) ==
  /\ pc[c] \in {"asked", "answered"}
  /\ reply' = [reply EXCEPT ![c] = None]
  /\ \/ /\ sends[c] <= Resends
        /\ sends' = [sends EXCEPT ![c] = @ + 1]
        /\ pc' = [pc EXCEPT ![c] = "asked"]
     \/ /\ sends[c] > Resends
        /\ pc' = [pc EXCEPT ![c] = "raised"]
        /\ UNCHANGED sends
  /\ UNCHANGED <<alias, rotations, address, call, result, current>>

-----------------------------------------------------------------------------
(***************************************************************************)
(* AWS KMS, which signs with the key the alias names at that moment.       *)
(***************************************************************************)
Draws(key, h) ==
  IF key \in Keys
  THEN {[r |-> XCoordinate(k), s |-> SValue(key, h, k), key |-> key] : k \in Scalars}
  ELSE [r : Scalars, s : Scalars, key : {key}]

Signatures(key, h) == {sig \in Draws(key, h) : Ordinary(h, sig)}

KmsSign(c) ==
  /\ pc[c] = "asked"
  /\ pc' = [pc EXCEPT ![c] = "answered"]
  /\ \E sig \in Signatures(alias, call[c].hash) : reply' = [reply EXCEPT ![c] = sig]
  /\ UNCHANGED <<alias, rotations, address, call, sends, result, current>>

\* The operator moves the alias to another key, at any time.
Rotate ==
  /\ rotations < Rotations
  /\ rotations' = rotations + 1
  /\ \E key \in AllKeys \ {alias} :
       /\ alias' = key
       /\ current' = [c \in Calls |->
            IF pc[c] \in {"asked", "answered"} THEN current[c] \cup {key} ELSE current[c]]
  /\ UNCHANGED <<address, pc, call, sends, reply, result>>

Next ==
  \/ Rotate
  \/ \E w \in Wallets : Construct(w)
  \/ \E c \in Calls :
       \/ \E w \in Wallets, h \in Hashes : sign_hash(c, w, h)
       \/ KmsSign(c) \/ Fail(c) \/ Finish(c)

Spec == Init /\ [][Next]_vars

-----------------------------------------------------------------------------
(***************************************************************************)
(* Properties.                                                             *)
(***************************************************************************)
\* A signature has r and s in the range of the curve and a v of 27 or 28.
TypeOK ==
  /\ alias \in AllKeys
  /\ rotations \in 0 .. Rotations
  /\ address \in [Wallets -> AllKeys \cup {None}]
  /\ pc \in [Calls -> Labels]
  /\ call \in [Calls -> [wallet : Wallets, hash : Hashes] \cup {None}]
  /\ sends \in [Calls -> 0 .. Resends + 1]
  /\ reply \in [Calls -> [r : Scalars, s : Scalars, key : AllKeys] \cup {None}]
  /\ result \in [Calls -> [r : Scalars, s : Scalars, v : {27, 28}] \cup {None}]
  /\ current \in [Calls -> SUBSET AllKeys]

\* What sign_hash returns is a signature the chain accepts for the wallet's
\* address: it verifies, its recovery bit leads to the address, and s is in the
\* lower half, whichever of the two signatures KMS sent (kms.py:187-204).
SignatureAccepted ==
  \A c \in Calls : pc[c] = "returned" =>
    LET key == address[call[c].wallet]
        sig == result[c]
    IN  /\ key \in Keys
        /\ Verifies(key, call[c].hash, sig)
        /\ Recovered(call[c].hash, sig.r, sig.s, sig.v) = {key}
        /\ sig.s <= N \div 2

\* sign_hash fails to match its address only when KMS signed with another key
\* than the one the address came from: normalising s never costs a signature of
\* the right one (kms.py:189-209).
OwnKeyNeverRefused ==
  \A c \in Calls : pc[c] = "raised" /\ reply[c] # None =>
    reply[c].key # address[call[c].wallet] \/ reply[c].key \in ForeignKeys

\* A wallet whose alias was moved hands out nothing until it is constructed
\* anew: what it returns was signed while the alias named the key of its cached
\* address (kms.py:116-117, 203).
RotationNoticed ==
  \A c \in Calls : pc[c] = "returned" => address[call[c].wallet] \in current[c]
=============================================================================
