---------------------------- MODULE MCNonceCache ----------------------------
(***************************************************************************)
(* RedisNonceCache on a small instance.  The clients of the deployment are *)
(* interchangeable, so the calls are symmetric.                            *)
(***************************************************************************)
EXTENDS RedisNonceCache, TLC

CallSymmetry == Permutations(Calls)
=============================================================================
