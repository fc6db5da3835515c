------------------------- MODULE AuthorizationIssuer -------------------------
(***************************************************************************)
(* What EIP3009Signer promises the application that calls it, with the     *)
(* thread pool, the wallet and the shared requirement objects left out: a  *)
(* call that has begun is decided exactly once, and is decided either by   *)
(* an error or by one authorization that                                   *)
(*   - is still alive when it is handed over,                              *)
(*   - expires within the longest window the configuration allows,         *)
(*   - carries a signature over its own payer, deadline and nonce.         *)
(***************************************************************************)
EXTENDS Integers

CONSTANTS
  Calls,          \* invocations of sign / sign_async
  Wallets,        \* payers
  Terms,          \* recipient, amount, chain, contract and currency, as one value
  Nonces,         \* nonce texts
  Bytes32,        \* what the contract compares
  BytesOf,        \* the bytes a nonce text stands for
  LongestWindow,  \* [Calls -> the longest time from hand-over to expiry]
  Horizon,        \* bound on the clock
  None

VARIABLES
  now,     \* wall clock, in seconds
  status,  \* "idle", "open", "issued" or "failed"
  auth     \* the authorization handed over, None before and without one

vars == <<now, status, auth>>

Init ==
  /\ now = 0
  /\ status = [c \in Calls |-> "idle"]
  /\ auth = [c \in Calls |-> None]

Begin(c) ==
  /\ status[c] = "idle"
  /\ status' = [status EXCEPT ![c] = "open"]
  /\ UNCHANGED <<now, auth>>

\* The signature binds the payer, the deadline and the nonce of the
\* authorization it travels in.  It binds the terms too unless the caller
\* rewrites the requirements of a call in flight, so the abstract issuer may
\* sign other terms than it reports.
Issue(c) ==
  /\ status[c] = "open"
  /\ status' = [status EXCEPT ![c] = "issued"]
  /\ \E w \in Wallets, reported, signed \in Terms, n \in Nonces,
        deadline \in (now + 1) .. (now + LongestWindow[c]) :
       auth' = [auth EXCEPT ![c] =
                  [from |-> w, terms |-> reported, valid_before |-> deadline, nonce |-> n,
                   signed_at |-> now,
                   signature |-> [from |-> w, terms |-> signed, valid_before |-> deadline,
                                  nonce |-> BytesOf[n]]]]
  /\ UNCHANGED now

Fail(c) ==
  /\ status[c] \in {"idle", "open"}
  /\ status' = [status EXCEPT ![c] = "failed"]
  /\ UNCHANGED <<now, auth>>

Tick ==
  /\ now < Horizon
  /\ now' = now + 1
  /\ UNCHANGED <<status, auth>>

Decide(c) == status[c] = "open" /\ (Issue(c) \/ Fail(c))

Next ==
  \/ Tick
  \/ \E c \in Calls : Begin(c) \/ Issue(c) \/ Fail(c)

Spec == Init /\ [][Next]_vars /\ \A c \in Calls : WF_vars(Decide(c))
=============================================================================
