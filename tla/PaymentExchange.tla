--------------------------- MODULE PaymentExchange ---------------------------
(***************************************************************************)
(* One purchase from the 402 answer to the transfer: the application       *)
(* fetches a challenge, EIP3009Signer signs it, PaymentAuthorization       *)
(* renders the headers of the retried request (payment/models.py:286-329), *)
(* the server verifies them and has the transfer executed on chain.        *)
(*                                                                         *)
(* The SDK keeps nothing between calls, so a payment whose answer was lost *)
(* is the application's to settle.  The one here does what the SDK offers  *)
(* and asks for: it signs again with the nonce that is out (the nonce      *)
(* argument of sign), or looks the nonce up on chain before it pays anew   *)
(* (ConwayPaymentRetryError, exceptions.py:267-273), once no authorization *)
(* that is out can be used any more.                                       *)
(***************************************************************************)
EXTENDS Integers, Sequences, FiniteSets

CONSTANTS
  Amounts,      \* prices a server may ask
  ChainIds,     \* chain ids a server may ask; the SDK bounds them nowhere
  Exact,        \* the largest integer up to which a JSON number is exact
  Deadlines,    \* valid_before values a server may send
  Nonces,       \* nonce texts
  BytesOf,      \* the bytes a nonce text stands for; the contract compares these
  Generated,    \* the draw of generate_nonce in each attempt
  Timeout,      \* SdkConfig.payment_timeout_seconds
  MaxWindow,    \* SdkConfig.max_authorization_window_seconds
  MaxAttempts,  \* bound on the challenges fetched
  Horizon,      \* bound on the clock
  None

\* eip3009.py: _SAFETY_BUFFER_SECONDS
SafetyBuffer == 5

LongestWindow == IF Timeout - SafetyBuffer > MaxWindow THEN Timeout - SafetyBuffer
                 ELSE MaxWindow

Attempts == 1 .. MaxAttempts

ASSUME ExchangeAssumption ==
  /\ Amounts \subseteq Nat \ {0}          \* PaymentRequirements.amount, ge=1
  /\ Exact \in Nat
  /\ ChainIds \subseteq Nat               \* eth-account signs for no other
  /\ Deadlines \subseteq Int
  /\ None \notin Deadlines \cup Nonces
  /\ DOMAIN BytesOf = Nonces
  /\ Generated \in [Attempts -> Nonces]
  /\ Timeout \in Nat \ {0}                \* SdkConfig.__post_init__
  /\ MaxWindow \in Nat \ {0}              \* SdkConfig.__post_init__
  /\ MaxAttempts \in Nat
  /\ Horizon \in Nat

VARIABLES
  now,        \* the clock of the application, the server and the chain
  phase,      \* "ready", "signed", "waiting" or "paid"
  auths,      \* every PaymentAuthorization signed for this purchase, in order
  held,       \* the nonce of authorizations that are out, None when none counts
  net,        \* requests sent: delivered late, more than once, or never
  pending,    \* authorizations a facilitator is about to submit
  settled     \* those whose transfer the contract executed

vars == <<now, phase, auths, held, net, pending, settled>>

Challenges == [amount : Amounts, chain_id : ChainIds, valid_before : Deadlines \cup {None},
               nonce : Nonces \cup {None}]

Message == [amount : Amounts, chain_id : ChainIds, valid_after : {0}, valid_before : Int,
            nonce : {BytesOf[n] : n \in Nonces}]

Authorization == [amount : Amounts, chain_id : ChainIds, valid_after : {0},
                  valid_before : Int, nonce : Nonces, signature : Message]

Init ==
  /\ now = 0
  /\ phase = "ready"
  /\ auths = <<>>
  /\ held = None
  /\ net = {}
  /\ pending = {}
  /\ settled = {}

Alive(i) == now < auths[i].valid_before
NothingAlive == \A i \in 1 .. Len(auths) : ~Alive(i)
UsedOnChain == {BytesOf[auths[i].nonce] : i \in settled}

-----------------------------------------------------------------------------
(***************************************************************************)
(* EIP3009Signer.sign.                                                     *)
(***************************************************************************)
\* Mutant: the server's window is not limited.
AnyWindow(q) == FALSE

WindowTooLong(q) == q.valid_before # None /\ q.valid_before - now > MaxWindow

Deadline(q) == IF q.valid_before # None THEN q.valid_before
               ELSE now + Timeout - SafetyBuffer

\* Mutant: the server's nonce comes before the one the caller insists on.
ServerNonceFirst(q, override, attempt) ==
  IF q.nonce # None THEN q.nonce
  ELSE IF override # None THEN override ELSE Generated[attempt]

\* override_nonce or requirements.nonce or generate_nonce(); the override is a
\* nonce that is out, or none.
EffectiveNonce(q, override, attempt) ==
  IF override # None THEN override
  ELSE IF q.nonce # None THEN q.nonce ELSE Generated[attempt]

\* Mutant: the authorization carries the override, not the nonce it resolved.
SignedForOverride(q, override, attempt) ==
  [amount |-> q.amount, chain_id |-> q.chain_id, valid_after |-> 0,
   valid_before |-> Deadline(q), nonce |-> override,
   signature |-> [amount |-> q.amount, chain_id |-> q.chain_id, valid_after |-> 0,
                  valid_before |-> Deadline(q),
                  nonce |-> BytesOf[EffectiveNonce(q, override, attempt)]]]

SignedFor(q, override, attempt) ==
  LET n == EffectiveNonce(q, override, attempt)
  IN  [amount |-> q.amount, chain_id |-> q.chain_id, valid_after |-> 0,
       valid_before |-> Deadline(q), nonce |-> n,
       signature |-> [amount |-> q.amount, chain_id |-> q.chain_id, valid_after |-> 0,
                      valid_before |-> Deadline(q), nonce |-> BytesOf[n]]]

\* A request without payment is answered 402, and the challenge is signed.  A
\* challenge that sign refuses changes nothing.  The bounds leave every window
\* time to end.
Sign ==
  /\ phase = "ready"
  /\ held = None \/ ~NothingAlive
  /\ Len(auths) < MaxAttempts /\ now + LongestWindow <= Horizon
  /\ \E q \in Challenges :
       /\ ~WindowTooLong(q)
       /\ Deadline(q) > now
       /\ auths' = Append(auths, SignedFor(q, held, Len(auths) + 1))
  /\ phase' = "signed"
  /\ UNCHANGED <<now, held, net, pending, settled>>

-----------------------------------------------------------------------------
(***************************************************************************)
(* The headers, and what a server reads in them.                           *)
(***************************************************************************)
Decimal(i) == [type |-> "string", value |-> i]
Number(i) == [type |-> "number", value |-> i]

\* A JSON number above 2^53 is read as a neighbour that a double can hold.
IntegerRead(field) ==
  IF field.type = "string" \/ field.value <= Exact THEN field.value
  ELSE 2 * (field.value \div 2)

\* Mutant: the amount goes out as a JSON number, as the chain id does.
to_numeric_header(a) ==
  [value |-> Number(a.amount), validAfter |-> Decimal(a.valid_after),
   validBefore |-> Decimal(a.valid_before), nonce |-> a.nonce,
   chainId |-> Number(a.chain_id), signature |-> a.signature]

to_payment_signature_header(a) ==
  [value |-> Decimal(a.amount), validAfter |-> Decimal(a.valid_after),
   validBefore |-> Decimal(a.valid_before), nonce |-> a.nonce,
   chainId |-> Number(a.chain_id), signature |-> a.signature]

to_payment_headers(a) ==
  [payment_signature |-> to_payment_signature_header(a),
   x_payment_chain_id |-> Decimal(a.chain_id), x_payment_amount |-> Decimal(a.amount),
   x_payment_valid_before |-> Decimal(a.valid_before), x_payment_nonce |-> a.nonce]

MessageRead(header) ==
  [amount |-> IntegerRead(header.value), chain_id |-> IntegerRead(header.chainId),
   valid_after |-> IntegerRead(header.validAfter),
   valid_before |-> IntegerRead(header.validBefore), nonce |-> BytesOf[header.nonce]]

\* The signature recovers to the payer over what the header says, and the
\* supplementary headers, by which a server routes, say the same.
Verifies(headers) ==
  LET read == MessageRead(headers.payment_signature)
  IN  /\ read = headers.payment_signature.signature
      /\ IntegerRead(headers.x_payment_amount) = read.amount
      /\ IntegerRead(headers.x_payment_chain_id) = read.chain_id
      /\ IntegerRead(headers.x_payment_valid_before) = read.valid_before
      /\ BytesOf[headers.x_payment_nonce] = read.nonce

-----------------------------------------------------------------------------
(***************************************************************************)
(* The application.                                                        *)
(***************************************************************************)
\* The request is repeated with the headers.
Send ==
  /\ phase = "signed"
  /\ net' = net \cup {[attempt |-> Len(auths), headers |-> to_payment_headers(auths[Len(auths)])]}
  /\ held' = auths[Len(auths)].nonce
  /\ phase' = "waiting"
  /\ UNCHANGED <<now, auths, pending, settled>>

\* 200: the server delivers because the transfer went through.
Confirm ==
  /\ phase = "waiting"
  /\ Len(auths) \in settled
  /\ phase' = "paid"
  /\ UNCHANGED <<now, auths, held, net, pending, settled>>

\* The request fails or times out: ConwayPaymentRetryError.
GiveUp ==
  /\ phase = "waiting"
  /\ phase' = "ready"
  /\ UNCHANGED <<now, auths, held, net, pending, settled>>

\* Mutant: the nonce is looked up while an authorization can still settle.
ReadNonceAtOnce ==
  /\ phase = "ready"
  /\ held # None
  /\ IF BytesOf[held] \in UsedOnChain THEN phase' = "paid" /\ UNCHANGED held
                                      ELSE held' = None /\ UNCHANGED phase
  /\ UNCHANGED <<now, auths, net, pending, settled>>

ReadNonce ==
  /\ phase = "ready"
  /\ held # None
  /\ NothingAlive
  /\ IF BytesOf[held] \in UsedOnChain THEN phase' = "paid" /\ UNCHANGED held
                                      ELSE held' = None /\ UNCHANGED phase
  /\ UNCHANGED <<now, auths, net, pending, settled>>

-----------------------------------------------------------------------------
(***************************************************************************)
(* The server, its facilitator, the token contract and the clock.          *)
(***************************************************************************)
Handle ==
  /\ \E m \in net :
       /\ Verifies(m.headers)
       /\ Alive(m.attempt)
       /\ pending' = pending \cup {m.attempt}
  /\ UNCHANGED <<now, phase, auths, held, net, settled>>

\* transferWithAuthorization: in time, and the nonce is unused.
Settle ==
  /\ \E i \in pending :
       /\ Alive(i)
       /\ BytesOf[auths[i].nonce] \notin UsedOnChain
       /\ settled' = settled \cup {i}
  /\ UNCHANGED <<now, phase, auths, held, net, pending>>

Tick ==
  /\ now < Horizon
  /\ now' = now + 1
  /\ UNCHANGED <<phase, auths, held, net, pending, settled>>

Next ==
  \/ Tick
  \/ Sign \/ Send \/ Confirm \/ GiveUp \/ ReadNonce
  \/ Handle \/ Settle

\* Time passes, a signed request is sent, an HTTP client does not wait for ever, and the
\* application looks its nonce up.  Nothing is assumed of the network, the
\* server and the facilitator.
Fairness == WF_vars(Tick) /\ WF_vars(Send) /\ WF_vars(GiveUp) /\ WF_vars(ReadNonce)

Spec == Init /\ [][Next]_vars /\ Fairness

-----------------------------------------------------------------------------
(***************************************************************************)
(* Properties.                                                             *)
(***************************************************************************)
\* Every variable has its type; what is sent was signed, and what is pending
\* or settled was sent.
ExchangeTypeOK ==
  /\ now \in 0 .. Horizon
  /\ phase \in {"ready", "signed", "waiting", "paid"}
  /\ auths \in Seq(Authorization) /\ Len(auths) <= MaxAttempts
  /\ phase \in {"signed", "waiting"} => Len(auths) > 0
  /\ held \in Nonces \cup {None}
  /\ \A m \in net : m.attempt \in 1 .. Len(auths)
                    /\ m.headers = to_payment_headers(auths[m.attempt])
  /\ pending \subseteq {m.attempt : m \in net}
  /\ settled \subseteq pending

\* However often the application signs again after an ambiguous answer, and
\* whatever nonce the server proposes meanwhile, one purchase transfers money
\* once: the nonce that is out wins over the server's (eip3009.py:271).
PaidOnce == Cardinality(settled) <= 1

\* When the application counts no nonce as out, no request of this purchase
\* that is still under way can move money: it was signed with a deadline the
\* configuration bounds, which has passed (eip3009.py:244-269).
ClearMeansDead ==
  held = None => settled = {} /\ \A m \in net : ~Alive(m.attempt)

\* Every request that was sent verifies: the server reads in the headers the
\* integers and the bytes that were signed, prices above the precision of a
\* JSON number too (payment/models.py:286-329).  The chain id is the exception:
\* it alone goes out as a JSON number (models.py:301), although integers "are
\* encoded as decimal strings to avoid JSON number precision loss"
\* (models.py:290-292), so nothing is said of one above Exact.
HeaderHonoured ==
  \A m \in net : auths[m.attempt].chain_id <= Exact => Verifies(m.headers)

\* The exchange implements a purchase: at most one transfer, only between the
\* first request and the answer the application accepts, and an application
\* that is unsure learns the truth in the end.
Bought == INSTANCE Purchase WITH
  transfers <- Cardinality(settled),
  view <- IF phase = "paid" THEN "paid" ELSE IF held = None THEN "clear" ELSE "unsure"

ImplementsPurchase == Bought!Spec
=============================================================================
