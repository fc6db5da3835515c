------------------------- MODULE PaymentRequirements -------------------------
(***************************************************************************)
(* The parsing half of conway_sdk/payment/models.py and of caip2.py: what  *)
(* a client makes of the 402 challenge of a server.                        *)
(*                                                                         *)
(* A challenge is the body, a function from field names to values, and the *)
(* way it travels: as the JSON body of the response, or as base64 in the   *)
(* PAYMENT-REQUIRED header.  None is a field that is absent or null, Empty *)
(* the empty text; only of the currency null is a value like another.  A   *)
(* header is described by what decides its decoding: its alphabet, how     *)
(* many of its characters are one of the two in which the alphabets        *)
(* differ, and the number of its characters modulo 4.                      *)
(***************************************************************************)
EXTENDS Integers

CONSTANTS
  Bodies,       \* bodies servers send
  Specials,     \* numbers of characters that are + / or - _
  Texts,        \* texts in the place of an address
  Addresses,    \* EVM addresses
  AddressOf,    \* the address to_checksum_address makes of a text, None if it fails
  Networks,     \* CAIP-2 texts, Empty apart
  NamespaceOf,  \* the namespace of a network, None without a colon
  ReferenceOf,  \* the reference of a network: an integer, Empty or NotInteger
  Eip155,       \* EVM_NAMESPACE
  Usdc,         \* the currency
  Spellings,    \* texts that are Usdc in capital letters
  BadShape,     \* nonce texts that are not "0x" and 64 more characters
  NotInteger, Empty, Refused, None

ASSUME ParsingAssumption ==
  /\ Specials \subseteq Nat
  /\ None \notin Int \cup Texts \cup Addresses \cup Networks
  /\ AddressOf \in [Texts -> Addresses \cup {None}]
  /\ \A n \in Networks : ReferenceOf[n] \in Int \cup {Empty, NotInteger}
  /\ \A b \in Bodies : {b.amount, b.chain_id, b.chainId, b.valid_before, b.validBefore}
                         \subseteq Int \cup {None}     \* pydantic makes integers of texts
  /\ Empty \notin Int \cup {None}
  /\ None \notin BadShape
  /\ Refused \notin {None}
  /\ Usdc \in Spellings /\ None \notin Spellings

VARIABLES
  challenge,  \* the server's response
  outcome     \* what the client made of it, None before

vars == <<challenge, outcome>>

Transports ==
  [header : {TRUE}, urlsafe : BOOLEAN, specials : Specials, size : {0, 2, 3}, padded : BOOLEAN]
    \cup [header : {FALSE}]

Init ==
  /\ challenge \in [body : Bodies, transport : Transports]
  /\ outcome = None

-----------------------------------------------------------------------------
(***************************************************************************)
(* Base64.  The decoder skips what is not in the standard alphabet, ends   *)
(* where a group of four is completed by padding, and fails when the       *)
(* padding is too short or one character is left over.                     *)
(***************************************************************************)
Quad(t, skipped) == (t.size - skipped) % 4

\* Mutant: unpadded headers stay as they are.
AsSent(t) == IF t.padded THEN -t.size % 4 ELSE 0

\* stripped + "=" * (-len(stripped) % 4)
Padding(t) == -t.size % 4

Decodes(t, skipped) ==
  \/ Quad(t, skipped) = 0
  \/ Quad(t, skipped) \in {2, 3} /\ Quad(t, skipped) + Padding(t) >= 4

\* b64decode, and urlsafe_b64decode where it raises.  A decoding that skipped
\* characters is no JSON.
Readable(t) ==
  LET skipped == IF t.urlsafe THEN t.specials ELSE 0
  IN  IF Decodes(t, skipped) THEN skipped = 0 ELSE Decodes(t, 0)

-----------------------------------------------------------------------------
(***************************************************************************)
(* caip2.py and _from_dict.                                                *)
(***************************************************************************)
\* Python's "a or b"
Or(a, b) == IF a \in {None, Empty} \/ a = 0 THEN b ELSE a

\* The chain id, None where the code raises CAIP2ParseError.
parse_caip2_chain_id(network) ==
  IF /\ network \in Networks
     /\ NamespaceOf[network] = Eip155
     /\ ReferenceOf[network] \notin {Empty, NotInteger}
     /\ ReferenceOf[network] > 0
  THEN ReferenceOf[network] ELSE None

\* Mutant: the network decides even if there is a chain id.
NetworkFirst(b) ==
  LET network == Or(b.network, b.x402Network)
  IN  Or(parse_caip2_chain_id(network), Or(b.chain_id, b.chainId))

ChainId(b) ==
  LET network == Or(b.network, b.x402Network)
      given == Or(b.chain_id, b.chainId)
  IN  IF given = None /\ network # None THEN parse_caip2_chain_id(network) ELSE given

\* Mutant: one spelling only.
SnakeDeadline(b) == Or(b.valid_before, None)

ValidBefore(b) == Or(b.valid_before, b.validBefore)

Normalized(b) ==
  [amount |-> b.amount,
   currency |-> IF b.currency = None THEN Usdc ELSE b.currency,
   chain_id |-> ChainId(b),
   network |-> Or(b.network, b.x402Network),
   verifying_contract |-> Or(Or(b.verifying_contract, b.verifyingContract), b.token_contract),
   pay_to |-> Or(Or(b.pay_to, b.payTo), b.recipient),
   valid_before |-> ValidBefore(b),
   nonce |-> b.nonce]

\* checksum_address: the checksum of the text is not looked at, only computed.
IsAddress(text) == text \in Texts /\ AddressOf[text] # None

\* The validators of PaymentRequirements; chain_id, amount and the addresses
\* are required, and no other field is.
Valid(q) ==
  /\ q.amount # None /\ q.amount >= 1
  /\ q.currency \in Spellings
  /\ q.chain_id # None
  /\ IsAddress(q.verifying_contract)
  /\ IsAddress(q.pay_to)
  /\ q.nonce \notin BadShape

\* Mutant: a model built without its validators.
Unvalidated(q) == IF q.amount # None THEN q ELSE Refused

Validated(q) ==
  IF Valid(q)
  THEN [q EXCEPT !.currency = Usdc, !.verifying_contract = AddressOf[@], !.pay_to = AddressOf[@]]
  ELSE Refused

from_response_body(b) == Validated(Normalized(b))

from_payment_required_header(b, t) ==
  IF Readable(t) THEN from_response_body(b) ELSE Refused

Parse ==
  /\ challenge # None
  /\ outcome = None
  /\ LET b == challenge.body
         t == challenge.transport
     IN  outcome' = IF t.header THEN from_payment_required_header(b, t)
                    ELSE from_response_body(b)
  /\ UNCHANGED challenge

Next == Parse
Spec == Init /\ [][Next]_vars

-----------------------------------------------------------------------------
(***************************************************************************)
(* Properties.                                                             *)
(***************************************************************************)
Parsed == outcome \notin {None, Refused}

\* What the signer is given: a chain, two addresses, a positive amount in the
\* one currency, and a nonce of the right shape if any (models.py:56-114).
TypeOK ==
  Parsed =>
    /\ outcome.amount \in Nat \ {0}
    /\ outcome.currency = Usdc
    /\ outcome.chain_id \in Int
    /\ {outcome.verifying_contract, outcome.pay_to} \subseteq Addresses
    /\ outcome.nonce \notin BadShape
    /\ outcome.valid_before \in Int \cup {None}

\* "Both padded and unpadded base64 are accepted" (models.py:121-122): a header
\* in the standard alphabet, of any length, asks for the payment its body asks
\* for, and is refused only for what the body says.
StandardHeaderMeansBody ==
  outcome # None /\ challenge.transport.header /\ ~challenge.transport.urlsafe =>
    outcome = from_response_body(challenge.body)

\* The deadline of a server is kept, in either spelling; the signer sets one of
\* its own only for a server that stated none, or the epoch (models.py:200).
DeadlineKept ==
  LET stated == {challenge.body.valid_before, challenge.body.validBefore} \ {None}
  IN  Parsed => \/ outcome.valid_before \in stated
                \/ outcome.valid_before = None /\ stated \subseteq {0}

\* A payment is for the chain the challenge names as chain_id, and for that of
\* its network if it names none; a network that cannot be parsed never counts.
\* A chain id of 0 names none, but a chainId of 0 is taken for a chain, and a
\* good network beside it is not looked at (models.py:177-184).
ChainAsStated ==
  LET b == challenge.body
      ids == {b.chain_id, b.chainId} \ {None, 0}
      networks == {parse_caip2_chain_id(n) : n \in {b.network, b.x402Network}} \ {None}
  IN  Parsed =>
        IF ids # {} THEN outcome.chain_id \in ids
        ELSE IF b.chainId = 0 THEN outcome.chain_id = 0 ELSE outcome.chain_id \in networks

-----------------------------------------------------------------------------
(***************************************************************************)
(* What the documentation says of the parser and the code does not do.     *)
(***************************************************************************)
\* "both standard (+/) and URL-safe (-_) alphabets are tried" (models.py:122-
\* 123): a header is refused only for what it says.
EitherAlphabetAccepted ==
  outcome = Refused => from_response_body(challenge.body) = Refused
=============================================================================
