------------------------------ MODULE Purchase ------------------------------
(***************************************************************************)
(* What an application that pays with the SDK wants of one purchase: the   *)
(* money leaves the wallet at most once, only while the application knows  *)
(* that it may leave, and in the end the application knows whether it did. *)
(***************************************************************************)
EXTENDS Naturals

VARIABLES
  transfers,  \* how often the price was transferred
  view        \* what the application believes: "clear", "unsure" or "paid"

vars == <<transfers, view>>

Init == transfers = 0 /\ view = "clear"

\* The first authorization leaves the application.
Commit ==
  /\ view = "clear"
  /\ view' = "unsure"
  /\ UNCHANGED transfers

Transfer ==
  /\ view = "unsure"
  /\ transfers = 0
  /\ transfers' = 1
  /\ UNCHANGED view

\* The application learns the truth, and from then on it stays true.
Resolve ==
  /\ view = "unsure"
  /\ view' = IF transfers = 1 THEN "paid" ELSE "clear"
  /\ UNCHANGED transfers

Next == Commit \/ Transfer \/ Resolve

Spec == Init /\ [][Next]_vars /\ WF_vars(Resolve)
=============================================================================
