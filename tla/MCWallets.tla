------------------------------ MODULE MCWallets ------------------------------
(***************************************************************************)
(* KMS and local wallets on a small curve.  Calls of sign_hash and KMS     *)
(* wallets are interchangeable.  The materials have a wrong length, no     *)
(* prefix, a wrong or a double one, a number above the order of the group, *)
(* or no number; bytes come from either version of hexbytes.               *)
(***************************************************************************)
EXTENDS LocalWallet, TLC

MCMaterials ==
  [form : {"text"}, marks : {<<>>, <<"0x">>, <<"0X">>, <<"0x", "0x">>}, digits : {62, 64},
   key : {2, 7, N + 1, NotHex}]
    \cup [form : {"bytes"}, marks : {<<>>, <<"0x">>}, digits : {62, 64}, key : {2, 7, N + 1}]
    \cup [form : {"mnemonic"}, marks : {<<>>, <<"0x">>}, digits : {64}, key : {2, 7, NotHex}]

KmsSymmetry == Permutations(Calls) \cup Permutations(Wallets)
=============================================================================
