-------------------------- MODULE MCPaymentExchange --------------------------
(* Small instance of PaymentExchange for TLC. *)
EXTENDS PaymentExchange

CONSTANTS n1, N1, n2, b1, b2

\* n1 and N1 are two spellings of the same bytes.
MCNonces == {n1, N1, n2}
MCBytesOf == [n \in MCNonces |-> IF n = n2 THEN b2 ELSE b1]
MCGenerated == [i \in Attempts |-> IF i = 1 THEN n1 ELSE n2]
=============================================================================
