----------------------------- MODULE LocalWallet -----------------------------
(***************************************************************************)
(* conway_sdk/wallet/local.py and the ECDSASignature of base.py: a key in  *)
(* memory, loaded from bytes, from a text or from a mnemonic, that signs   *)
(* through eth-account.  KMSWalletStub (kms.py:212-245) hands every call   *)
(* on to such a wallet.  An application has either KMS wallets or, in      *)
(* development, this one (README.md:109-140); both sign on the curve of    *)
(* KMSWallet.                                                              *)
(***************************************************************************)
EXTENDS KMSWallet, Sequences

CONSTANTS
  Materials,  \* what applications hand to LocalWallet and from_mnemonic
  NotHex      \* digits that are no number, words that are no mnemonic

\* A material is written as marks, of two characters each, and so many digits,
\* two for a byte, that write a key.  The words of a mnemonic derive 32 bytes,
\* which the wallet gets as HexBytes; hex() of these writes a mark "0x" before
\* hexbytes 1.0 and none since, and pyproject.toml:44 allows both.
ASSUME LocalAssumption ==
  /\ Materials \subseteq [form : {"bytes", "text", "mnemonic"}, marks : Seq({"0x", "0X"}),
                          digits : Nat, key : Nat \cup {NotHex}]
  /\ \A m \in Materials : /\ m.form # "text" => m.marks \in {<<>>, <<"0x">>}
                          /\ m.form = "mnemonic" => m.digits = 64
  /\ NotHex \notin Nat

VARIABLES
  material,   \* what the wallet is made from, None with KMS wallets
  account,    \* the key of the wallet, NotHex when the constructor raised
  signature   \* hash and ECDSASignature of its last signing

localVars == <<material, account, signature>>

LocalInit ==
  /\ Init
  /\ material \in Materials \cup {None}
  /\ account = None
  /\ signature = None

\* Bytes are always given the prefix, a text unless it starts with it.
key_hex(m) ==
  IF m.form = "text" /\ m.marks # <<>> /\ Head(m.marks) = "0x" THEN m.marks
  ELSE <<"0x">> \o m.marks

\* Of bytes the length is checked before, of a text after the prefix is there.
LengthOk(m) ==
  IF m.form = "text" THEN 2 * Len(key_hex(m)) + m.digits = 66 ELSE m.digits = 64

\* eth-account takes one "0x" and the 64 digits of a key; a further mark is no
\* digit.
from_key(marks, digits, key) ==
  IF marks = <<"0x">> /\ digits = 64 /\ key \in Scalars THEN key ELSE NotHex

\* NotHex: the constructor has raised ConwayInvalidPrivateKeyError.
load_account(m) ==
  IF LengthOk(m) THEN from_key(key_hex(m), m.digits, m.key) ELSE NotHex

\* LocalWallet(...), LocalWallet.from_mnemonic(...) or KMSWalletStub(...)
Load ==
  /\ material # None
  /\ account = None
  /\ account' = load_account(material)
  /\ UNCHANGED <<vars, material, signature>>

\* eth-account's signature with draw k: s in the lower half, and the v that
\* goes with it.
EthSignature(d, h, k) ==
  LET r == XCoordinate(k)
      s == LowS(SValue(d, h, k))
  IN  [r |-> r, s |-> s, v |-> IF d \in Recovered(h, r, s, 27) THEN 27 ELSE 28]

\* Mutant: the recovery bit is dropped.
signature_without_v(sig) == [r |-> sig.r, s |-> sig.s, v |-> 27]

\* ECDSASignature: r and s as 32 bytes each, which they fit, and v.
from_eth_account_sig(sig) == [r |-> sig.r, s |-> sig.s, v |-> sig.v]

sign_typed_data(h) ==
  /\ account \in Scalars
  /\ \E k \in Scalars :
       /\ SValue(account, h, k) # 0
       /\ signature' = [hash |-> h, sig |-> from_eth_account_sig(EthSignature(account, h, k))]
  /\ UNCHANGED <<vars, material, account>>

WalletNext ==
  \/ material = None /\ Next /\ UNCHANGED localVars
  \/ Load
  \/ \E h \in Hashes : sign_typed_data(h)

WalletSpec == LocalInit /\ [][WalletNext]_<<vars, localVars>>

-----------------------------------------------------------------------------
(***************************************************************************)
(* Properties.                                                             *)
(***************************************************************************)
\* The key a material stands for by the documentation: 32 bytes, "0x-prefixed
\* or bare 64 hex chars", or the words of a mnemonic (local.py:46-48, 184-192).
Denotes(m, key) ==
  /\ m.key = key /\ key \in Scalars
  /\ m.form # "mnemonic" => m.digits = 64
  /\ m.form = "text" => m.marks \in {<<>>, <<"0x">>}

\* What a local wallet or a stub signs is accepted on chain for the key its
\* material stands for, with a low s and the recovery bit that leads to it
\* (local.py:141-166, base.py:48-69).
LocalSignatureAccepted ==
  signature # None =>
    /\ Verifies(account, signature.hash, signature.sig)
    /\ \E key \in Recovered(signature.hash, signature.sig.r, signature.sig.s, signature.sig.v) :
         Denotes(material, key)
    /\ signature.sig.s <= N \div 2
=============================================================================
