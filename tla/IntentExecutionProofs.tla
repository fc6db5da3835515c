------------------------ MODULE IntentExecutionProofs ------------------------
(***************************************************************************)
(* Proofs about PaymentRequirements and IntentExecution, for all bodies,   *)
(* transports, networks, texts and orders.                                 *)
(***************************************************************************)
EXTENDS IntentExecution, TLAPS

-----------------------------------------------------------------------------
(***************************************************************************)
(* Challenges.                                                             *)
(***************************************************************************)
\* What a client makes of a challenge.
Reading(c) == IF c.transport.header THEN from_payment_required_header(c.body, c.transport)
              ELSE from_response_body(c.body)

ParseInv ==
  /\ challenge # None => challenge \in [body : Bodies, transport : Transports]
  /\ outcome # None => challenge # None /\ outcome = Reading(challenge)

LEMMA ParseInvariant == IntentSpec => []ParseInv
<1>1. IntentInit => ParseInv
  BY DEF IntentInit, Init, ParseInv
<1>2. ParseInv /\ [IntentNext]_<<vars, intentVars>> => ParseInv'
  <2> SUFFICES ASSUME ParseInv, [IntentNext]_<<vars, intentVars>> PROVE ParseInv'
    OBVIOUS
  <2>1. CASE Parse
    BY <2>1 DEF Parse, ParseInv, Reading
  <2>2. CASE UNCHANGED vars
    BY <2>2 DEF vars, ParseInv
  <2>3. QED
    BY <2>1, <2>2 DEF IntentNext, Submit, Execute, vars
<1>3. QED
  BY <1>1, <1>2, PTL DEF IntentSpec

\* A parsed challenge is the validated form of its body.
LEMMA ParsedBody ==
  ASSUME ParseInv, Parsed
  PROVE  /\ challenge # None
         /\ challenge.body \in Bodies
         /\ Valid(Normalized(challenge.body))
         /\ outcome = [Normalized(challenge.body) EXCEPT
                         !.currency = Usdc,
                         !.verifying_contract = AddressOf[@], !.pay_to = AddressOf[@]]
<1>1. challenge # None /\ challenge.body \in Bodies /\ outcome = Reading(challenge)
  BY DEF ParseInv, Parsed
<1>2. outcome = Validated(Normalized(challenge.body))
  BY <1>1 DEF Parsed, Reading, from_payment_required_header, from_response_body
<1>3. QED
  BY <1>1, <1>2 DEF Parsed, Validated

\* A chain that was parsed is an integer, and never None.
LEMMA ParsedChain ==
  ASSUME NEW n, parse_caip2_chain_id(n) # None
  PROVE  /\ n \in Networks /\ NamespaceOf[n] = Eip155
         /\ ReferenceOf[n] \in Int /\ ReferenceOf[n] > 0
         /\ ReferenceOf[n] \notin {Empty, NotInteger}
         /\ parse_caip2_chain_id(n) = ReferenceOf[n]
BY ParsingAssumption DEF parse_caip2_chain_id

\* The chain that is used is an integer unless it is missing.
LEMMA ChainType ==
  ASSUME NEW b \in Bodies
  PROVE  ChainId(b) \in Int \cup {None}
<1>1. {b.chain_id, b.chainId} \subseteq Int \cup {None}
  BY ParsingAssumption
<1>2. \A n : parse_caip2_chain_id(n) \in Int \cup {None}
  BY ParsedChain
<1>3. QED
  BY <1>1, <1>2 DEF ChainId, Or

\* Whatever was parsed can be handed to the signer (payment/models.py:56-114).
THEOREM ParsedIsValid == IntentSpec => []TypeOK
<1>1. ParseInv => TypeOK
  <2> SUFFICES ASSUME ParseInv, Parsed
               PROVE  /\ outcome.amount \in Nat \ {0}
                      /\ outcome.currency = Usdc
                      /\ outcome.chain_id \in Int
                      /\ {outcome.verifying_contract, outcome.pay_to} \subseteq Addresses
                      /\ outcome.nonce \notin BadShape
                      /\ outcome.valid_before \in Int \cup {None}
    BY DEF TypeOK
  <2> DEFINE b == challenge.body
             q == Normalized(b)
  <2>1. /\ b \in Bodies /\ Valid(q)
        /\ outcome = [q EXCEPT !.currency = Usdc, !.verifying_contract = AddressOf[@],
                               !.pay_to = AddressOf[@]]
    BY ParsedBody
  <2>2. /\ outcome.amount = b.amount /\ q.amount = b.amount
        /\ outcome.currency = Usdc
        /\ outcome.chain_id = ChainId(b) /\ q.chain_id = ChainId(b)
        /\ outcome.nonce = b.nonce /\ q.nonce = b.nonce
        /\ outcome.valid_before = ValidBefore(b)
        /\ outcome.verifying_contract = AddressOf[q.verifying_contract]
        /\ outcome.pay_to = AddressOf[q.pay_to]
    BY <2>1 DEF Normalized
  <2>3. b.amount \in Nat \ {0}
    BY <2>1, <2>2, ParsingAssumption DEF Valid
  <2>4. ChainId(b) \in Int
    BY <2>1, <2>2, ChainType DEF Valid
  <2>5. {outcome.verifying_contract, outcome.pay_to} \subseteq Addresses
    BY <2>1, <2>2, ParsingAssumption DEF Valid, IsAddress
  <2>6. ValidBefore(b) \in Int \cup {None}
    BY <2>1, ParsingAssumption DEF ValidBefore, Or
  <2>7. QED
    BY <2>1, <2>2, <2>3, <2>4, <2>5, <2>6 DEF Valid
<1>2. QED
  BY <1>1, ParseInvariant, PTL

\* The decoder reads a header in the standard alphabet to its end, for every
\* number of characters that base64 has, padded or not.
LEMMA StandardReadable ==
  ASSUME NEW t \in Transports, t.header, ~t.urlsafe
  PROVE  Readable(t)
<1>1. t.size \in {0, 2, 3}
  BY DEF Transports
<1>2. Decodes(t, 0)
  BY <1>1 DEF Decodes, Quad, Padding
<1>3. QED
  BY <1>2 DEF Readable

\* A header in the standard alphabet, padded or not, means what its body means
\* (payment/models.py:121-122).
THEOREM HeaderMeansBody == IntentSpec => []StandardHeaderMeansBody
<1>1. ParseInv => StandardHeaderMeansBody
  <2> SUFFICES ASSUME ParseInv, outcome # None, challenge.transport.header,
                      ~challenge.transport.urlsafe
               PROVE  outcome = from_response_body(challenge.body)
    BY DEF StandardHeaderMeansBody
  <2>1. challenge.transport \in Transports /\ outcome = Reading(challenge)
    BY DEF ParseInv
  <2>2. QED
    BY <2>1, StandardReadable DEF Reading, from_payment_required_header
<1>2. QED
  BY <1>1, ParseInvariant, PTL

\* The deadline a server stated is the deadline of the requirements
\* (payment/models.py:200).
THEOREM StatedDeadlineKept == IntentSpec => []DeadlineKept
<1>1. ParseInv => DeadlineKept
  <2> SUFFICES ASSUME ParseInv, Parsed PROVE DeadlineKept
    BY DEF DeadlineKept
  <2>1. /\ challenge.body \in Bodies
        /\ outcome.valid_before = ValidBefore(challenge.body)
    BY ParsedBody DEF Normalized
  <2>2. {challenge.body.valid_before, challenge.body.validBefore} \subseteq Int \cup {None}
    BY <2>1, ParsingAssumption
  <2>3. QED
    BY <2>1, <2>2, ParsingAssumption DEF DeadlineKept, ValidBefore, Or
<1>2. QED
  BY <1>1, ParseInvariant, PTL

\* The chain is the one the challenge names, and its network counts only when
\* it names none (payment/models.py:177-184).
THEOREM StatedChainKept == IntentSpec => []ChainAsStated
<1>1. ParseInv => ChainAsStated
  <2> SUFFICES ASSUME ParseInv, Parsed PROVE ChainAsStated
    BY DEF ChainAsStated
  <2> DEFINE b == challenge.body
             ids == {b.chain_id, b.chainId} \ {None, 0}
             network == Or(b.network, b.x402Network)
  <2>1. b \in Bodies /\ outcome.chain_id = ChainId(b) /\ ChainId(b) # None
    BY ParsedBody DEF Normalized, Valid
  <2>2. /\ {b.chain_id, b.chainId} \subseteq Int \cup {None}
        /\ Empty \notin {b.chain_id, b.chainId}
    BY <2>1, ParsingAssumption
  <2>3. CASE ids # {}
    <3>1. ChainId(b) \in ids
      BY <2>2, <2>3, ParsingAssumption DEF ChainId, Or
    <3>2. QED
      BY <2>1, <2>3, <3>1 DEF ChainAsStated
  <2>4. CASE ids = {} /\ b.chainId = 0
    <3>1. ChainId(b) = 0
      BY <2>2, <2>4, ParsingAssumption DEF ChainId, Or
    <3>2. QED
      BY <2>1, <2>4, <3>1 DEF ChainAsStated
  <2>5. CASE ids = {} /\ b.chainId # 0
    <3>1. ChainId(b) = parse_caip2_chain_id(network)
      BY <2>1, <2>2, <2>5 DEF ChainId, Or
    <3>2. network \in {b.network, b.x402Network}
      BY DEF Or
    <3>3. QED
      BY <2>1, <2>5, <3>1, <3>2 DEF ChainAsStated
  <2>6. QED
    BY <2>3, <2>4, <2>5
<1>2. QED
  BY <1>1, ParseInvariant, PTL

-----------------------------------------------------------------------------
(***************************************************************************)
(* Intents.                                                                *)
(***************************************************************************)
\* The text that is built for a chain is read as this chain.
LEMMA BuiltChain ==
  ASSUME NEW n, parse_caip2_chain_id(n) # None
  PROVE  /\ build_caip2(parse_caip2_chain_id(n)) \in Networks
         /\ parse_caip2_chain_id(build_caip2(parse_caip2_chain_id(n))) = parse_caip2_chain_id(n)
<1> DEFINE id == parse_caip2_chain_id(n)
           text == build_caip2(id)
<1>1. /\ n \in Networks /\ NamespaceOf[n] = Eip155 /\ ReferenceOf[n] = id
      /\ id \in Int /\ id > 0 /\ id \notin {Empty, NotInteger}
  BY ParsedChain
<1> HIDE DEF id
<1>2. text \in Networks /\ NamespaceOf[text] = Eip155 /\ ReferenceOf[text] = id
  BY <1>1 DEF build_caip2
<1>3. parse_caip2_chain_id(text) = id
  BY <1>1, <1>2 DEF parse_caip2_chain_id
<1>4. QED
  BY <1>2, <1>3 DEF id

\* An intent is made from an order that was accepted, and a result from the
\* requirements of an intent.
IntentInv ==
  /\ order # None => order \in Orders
  /\ intent \notin {None, Refused} =>
       /\ intent = IntentOf(order)
       /\ order # None
       /\ parse_caip2_asset(order.asset) # None
       /\ IntentAccepted(intent)
  /\ result # None =>
       /\ intent \notin {None, Refused}
       /\ \/ RequirementsOf(intent) = Refused /\ result = Failure("ValidationError")
          \/ /\ RequirementsOf(intent) # Refused
             /\ RequirementsOf(intent).amount > MaxUint256
             /\ result = Failure("ConwayTypedDataError")
          \/ result = Failure("Expired")
          \/ /\ RequirementsOf(intent) # Refused
             /\ \E n \in Nonces : result = Success(RequirementsOf(intent), n)

LEMMA IntentInvariant == IntentSpec => []IntentInv
<1>1. IntentInit => IntentInv
  BY DEF IntentInit, IntentInv
<1>2. IntentInv /\ [IntentNext]_<<vars, intentVars>> => IntentInv'
  <2> SUFFICES ASSUME IntentInv, [IntentNext]_<<vars, intentVars>> PROVE IntentInv'
    OBVIOUS
  <2>1. CASE Submit
    BY <2>1 DEF Submit, IntentInv
  <2>2. CASE Execute
    BY <2>2 DEF Execute, IntentInv
  <2>3. CASE UNCHANGED intentVars
    BY <2>3 DEF intentVars, IntentInv
  <2>4. QED
    BY <2>1, <2>2, <2>3 DEF IntentNext
<1>3. QED
  BY <1>1, <1>2, PTL DEF IntentSpec

\* What is signed for an order is of its amount, to its recipient and in its
\* token, and a failure hands over nothing (models.py:128-138,
\* execution_adapter.py:27-40).
THEOREM OrderKept == IntentSpec => []PaidAsOrdered
<1>1. IntentInv => PaidAsOrdered
  <2> SUFFICES ASSUME IntentInv, result # None PROVE PaidAsOrdered
    BY DEF PaidAsOrdered, Signed
  <2>1. /\ intent = IntentOf(order)
        /\ parse_caip2_asset(order.asset) # None
    BY DEF IntentInv
  <2>2. ASSUME NEW why \in Errors, result = Failure(why)
        PROVE  PaidAsOrdered
    BY <2>2, IntentAssumption DEF PaidAsOrdered, Signed, Failure
  <2>3. ASSUME NEW n \in Nonces, RequirementsOf(intent) # Refused,
               result = Success(RequirementsOf(intent), n)
        PROVE  PaidAsOrdered
    <3>1. /\ parse_caip2_chain_id(order.asset.network) # None
          /\ parse_caip2_asset(order.asset).chain_id = parse_caip2_chain_id(order.asset.network)
          /\ parse_caip2_asset(order.asset).contract = order.asset.contract
      BY <2>1 DEF parse_caip2_asset
    <3>2. /\ intent.network = build_caip2(parse_caip2_chain_id(order.asset.network))
          /\ intent.amount = order.amount /\ intent.destination = order.destination
          /\ intent.verifying_contract = order.asset.contract
      BY <2>1, <3>1 DEF IntentOf
    <3>3. /\ RequirementsOf(intent).amount = intent.amount
          /\ RequirementsOf(intent).pay_to = AddressOf[intent.destination]
          /\ RequirementsOf(intent).verifying_contract = AddressOf[intent.verifying_contract]
      BY <2>3 DEF RequirementsOf, Validated
    <3>4. /\ result.success /\ result.nonce = n /\ result.authorization.nonce = n
          /\ result.authorization.amount = RequirementsOf(intent).amount
          /\ result.authorization.pay_to = RequirementsOf(intent).pay_to
          /\ result.authorization.verifying_contract = RequirementsOf(intent).verifying_contract
      BY <2>3 DEF Success
    <3>5. QED
      BY <3>1, <3>2, <3>3, <3>4, BuiltChain DEF PaidAsOrdered, Signed
  <2>4. QED
    BY <2>2, <2>3 DEF IntentInv, Errors
<1>2. QED
  BY <1>1, IntentInvariant, PTL

\* What an accepted intent asks for.
LEMMA AcceptedIntent ==
  ASSUME IntentInv, intent \notin {None, Refused}
  PROVE  /\ intent.amount \in Int /\ intent.amount >= 1
         /\ intent.network \in Networks
         /\ intent.destination = order.destination /\ intent.destination \in Texts
         /\ intent.verifying_contract = order.asset.contract
         /\ intent.verifying_contract \in Texts
<1>1. /\ intent = IntentOf(order) /\ order \in Orders
      /\ parse_caip2_asset(order.asset) # None
      /\ IntentAccepted(intent)
  BY DEF IntentInv
<1> DEFINE id == parse_caip2_chain_id(order.asset.network)
<1>2. /\ id # None
      /\ parse_caip2_asset(order.asset) = [chain_id |-> id, contract |-> order.asset.contract]
  BY <1>1 DEF parse_caip2_asset
<1>3. /\ intent.amount = order.amount /\ intent.network = build_caip2(id)
      /\ intent.destination = order.destination
      /\ intent.verifying_contract = order.asset.contract
  BY <1>1, <1>2 DEF IntentOf
<1>4. intent.network \in Networks
  BY <1>2, <1>3, BuiltChain
<1>5. intent.amount \in Int /\ intent.amount >= 1
  BY <1>1, <1>3, IntentAssumption DEF IntentAccepted
<1>6. QED
  BY <1>1, <1>3, <1>4, <1>5, IntentAssumption DEF IntentAccepted

\* The requirements of an accepted intent with two addresses are not refused.
LEMMA AcceptedRequirements ==
  ASSUME IntentInv, intent \notin {None, Refused},
         AddressOf[order.destination] # None, AddressOf[order.asset.contract] # None
  PROVE  RequirementsOf(intent) # Refused
<1> DEFINE q == [amount |-> intent.amount, currency |-> Usdc, chain_id |-> HomeChain,
                 network |-> intent.network, verifying_contract |-> intent.verifying_contract,
                 pay_to |-> intent.destination, valid_before |-> None, nonce |-> None]
           p == [q EXCEPT !.currency = Usdc, !.verifying_contract = AddressOf[@],
                          !.pay_to = AddressOf[@]]
<1>1. Valid(q)
  <2>1. IsAddress(q.verifying_contract) /\ IsAddress(q.pay_to)
    BY AcceptedIntent DEF IsAddress
  <2>2. /\ q.amount # None /\ q.amount >= 1 /\ q.chain_id # None /\ q.nonce \notin BadShape
        /\ q.currency \in Spellings
    BY AcceptedIntent, ParsingAssumption, IntentAssumption
  <2>3. QED
    BY <2>1, <2>2 DEF Valid
<1>2. p \in OrderRequirements
  <2>1. AddressOf[intent.verifying_contract] \in Addresses /\ AddressOf[intent.destination] \in Addresses
    BY AcceptedIntent, ParsingAssumption
  <2>2. QED
    BY <2>1, AcceptedIntent DEF OrderRequirements
<1>3. RequirementsOf(intent) = p
  BY <1>1 DEF RequirementsOf, Validated
<1>4. QED
  BY <1>2, <1>3, IntentAssumption

\* When the execution of an accepted intent fails in time, by its requirements
\* or at signing, the order has an address with other characters than digits or
\* an amount above that of a uint256 (models.py:128-157, local.py:141-158).
THEOREM BadOrdersRefusedEarly == IntentSpec => []RefusedEarly
<1>1. IntentInv => RefusedEarly
  <2> SUFFICES ASSUME IntentInv, result # None, ~result.success, result.error # "Expired",
                      AddressOf[order.destination] # None,
                      AddressOf[order.asset.contract] # None
               PROVE  order.amount > MaxUint256
    BY DEF RefusedEarly
  <2>1. intent \notin {None, Refused}
    BY DEF IntentInv
  <2>2. RequirementsOf(intent) # Refused
    BY <2>1, AcceptedRequirements
  <2>3. RequirementsOf(intent).amount > MaxUint256
    BY <2>2 DEF IntentInv, Failure, Success
  <2>4. RequirementsOf(intent).amount = intent.amount
    BY <2>2 DEF RequirementsOf, Validated
  <2>5. intent.amount = order.amount
    BY <2>1 DEF IntentInv, IntentOf
  <2>6. QED
    BY <2>3, <2>4, <2>5
<1>2. QED
  BY <1>1, IntentInvariant, PTL
=============================================================================
