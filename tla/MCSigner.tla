------------------------------ MODULE MCSigner ------------------------------
(***************************************************************************)
(* EIP3009Signer on small instances: two overlapping calls with few        *)
(* values, or one call with every kind of value.  N1 and n1 are two texts  *)
(* for the same 32 bytes, as "0xAB.." and "0xab.." are.                    *)
(***************************************************************************)
EXTENDS EIP3009Signer

CONSTANTS n1, N1, g1, g2, c1

MCBytesOf == [n \in Nonces |-> IF n = N1 THEN n1 ELSE n]
\* Each call draws a nonce of its own.
MCGenerated == [c \in Calls |-> IF c = c1 THEN g1 ELSE g2]
\* One second of life, and a timeout that the safety buffer uses up.
MCTimeouts == [c \in Calls |-> IF c = c1 THEN 6 ELSE 5]
\* Two seconds of life.
MCLongTimeouts == [c \in Calls |-> 7]
\* In the past, reached while a call runs, and beyond every window at first.
MCDeadlines == {-1, 2, 9}
=============================================================================
