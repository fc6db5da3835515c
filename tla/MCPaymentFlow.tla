---------------------------- MODULE MCPaymentFlow ----------------------------
(***************************************************************************)
(* PaymentFlow on a small instance: n1 and N1 are two texts for the same   *)
(* 32 bytes, as "0xab.." and "0xAB.." are, and record may be given every   *)
(* time to live that an attempt can compute.                               *)
(***************************************************************************)
EXTENDS PaymentFlow, TLC

CONSTANTS n1, N1

MCBytesOf == [n \in Nonces |-> IF n = N1 THEN n1 ELSE n]
MCTtls == -Horizon .. Window
AttemptSymmetry == Permutations(Calls)
=============================================================================
