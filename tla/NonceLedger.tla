----------------------------- MODULE NonceLedger -----------------------------
(***************************************************************************)
(* What a deployment wants of its nonces, as if it were one program with   *)
(* one ledger: "A nonce must be used at most once within its valid_before  *)
(* window" (redis_nonce_cache.py:6-7).  An authorization is entered when   *)
(* it leaves the program, which it does only while no other one with its   *)
(* nonce can be used, or when its own time is over; money moves only by    *)
(* what was entered, in time, and once per nonce.                          *)
(*                                                                         *)
(* Entries are told apart by the text of the nonce, as the cache's keys    *)
(* are (redis_nonce_cache.py:108), transfers by the bytes that the text    *)
(* stands for.                                                             *)
(***************************************************************************)
EXTENDS Integers

CONSTANTS
  Attempts,  \* attempts to pay
  Nonces,    \* nonce texts
  BytesOf,   \* the bytes a nonce text stands for
  Deadlines  \* valid_before values

VARIABLES
  now,    \* the time
  out,    \* authorizations that have left: attempt, nonce text and deadline
  spent   \* bytes of the nonces a transfer has used

vars == <<now, out, spent>>

Init ==
  /\ now = 0
  /\ out = {}
  /\ spent = {}

Tick ==
  /\ now' = now + 1
  /\ UNCHANGED <<out, spent>>

Release(a, n, deadline) ==
  /\ \A o \in out : o.attempt # a
  /\ now < deadline => \A o \in out : o.nonce = n => o.until <= now
  /\ out' = out \cup {[attempt |-> a, nonce |-> n, until |-> deadline]}
  /\ UNCHANGED <<now, spent>>

Transfer(o) ==
  /\ now < o.until
  /\ BytesOf[o.nonce] \notin spent
  /\ spent' = spent \cup {BytesOf[o.nonce]}
  /\ UNCHANGED <<now, out>>

Next ==
  \/ Tick
  \/ \E a \in Attempts, n \in Nonces, deadline \in Deadlines : Release(a, n, deadline)
  \/ \E o \in out : Transfer(o)

Spec == Init /\ [][Next]_vars
=============================================================================
