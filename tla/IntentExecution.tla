--------------------------- MODULE IntentExecution ---------------------------
(***************************************************************************)
(* The other way to a payment: an application makes an Agent and a         *)
(* PaymentIntent (conway_sdk/models.py) from an order whose token is a     *)
(* CAIP-19 text (caip2.py:98-173), and an ExecutionAdapter                 *)
(* (execution_adapter.py) written as README.md:381-410 shows turns the     *)
(* intent into PaymentRequirements and signs.  An address is examined      *)
(* three times on the way, each time by another rule.                      *)
(***************************************************************************)
EXTENDS PaymentRequirements

CONSTANTS
  Orders,       \* what applications are asked to pay
  Structural,   \* texts of "0x" and 40 more characters
  Mistyped,     \* mixed-case texts whose EIP-55 checksum is wrong
  Nonces,       \* what generate_nonce may draw
  HomeChain,    \* the chain the adapter is written for
  MaxUint256    \* the largest amount eth-account encodes

\* The requirements an adapter may arrive at.
OrderRequirements ==
  [amount : Int, currency : {Usdc}, chain_id : {HomeChain}, network : Networks, verifying_contract : Addresses,
   pay_to : Addresses, valid_before : {None}, nonce : {None}]

Errors == {"ValidationError", "ConwayTypedDataError", "Expired"}

ASSUME IntentAssumption ==
  /\ Structural \subseteq Texts
  /\ Mistyped \subseteq Structural
  /\ \A o \in Orders : o.amount \in Int      \* PaymentIntent.amount: int
  /\ HomeChain \in Int
  /\ MaxUint256 \in Nat
  /\ None \notin Errors
  /\ Refused \notin OrderRequirements

VARIABLES
  order,   \* what the application was asked to pay, None when it was challenged
  intent,  \* the PaymentIntent, Refused when its constructor raised
  result   \* the ExecutionResult

intentVars == <<order, intent, result>>

\* An application either answers a challenge or executes an order.
IntentInit ==
  /\ \/ Init /\ order = None
     \/ challenge = None /\ outcome = None /\ order \in Orders
  /\ intent = None
  /\ result = None

-----------------------------------------------------------------------------
(***************************************************************************)
(* caip2.py: CAIP-19 texts.                                                *)
(***************************************************************************)
\* A chain and a contract; None where the code raises CAIP2ParseError.
parse_caip2_asset(asset) ==
  LET id == parse_caip2_chain_id(asset.network)
  IN  IF asset.slash /\ id # None /\ asset.erc20 /\ asset.contract \in Structural
      THEN [chain_id |-> id, contract |-> asset.contract] ELSE None

\* The text of a chain that parse_caip2_chain_id reads as this chain; the id
\* is positive, as it comes from a parsed text.
build_caip2(id) == CHOOSE n \in Networks : NamespaceOf[n] = Eip155 /\ ReferenceOf[n] = id

-----------------------------------------------------------------------------
(***************************************************************************)
(* models.py: Agent and PaymentIntent.                                     *)
(***************************************************************************)
AgentAccepted(environment) == environment \in {"development", "production"}

\* Mutant: an amount of nothing is an amount.
AnyAmount(i) ==
  /\ i.amount >= 0
  /\ i.bucket_id # Empty /\ i.network # Empty
  /\ {i.destination, i.verifying_contract} \subseteq Structural

\* PaymentIntent.__post_init__ and _validate_evm_address.
IntentAccepted(i) ==
  /\ i.amount > 0
  /\ i.bucket_id # Empty /\ i.network # Empty
  /\ {i.destination, i.verifying_contract} \subseteq Structural

IntentOf(o) ==
  LET asset == parse_caip2_asset(o.asset)
  IN  [bucket_id |-> o.bucket, network |-> build_caip2(asset.chain_id), amount |-> o.amount,
       destination |-> o.destination, verifying_contract |-> asset.contract]

Submit ==
  /\ order # None
  /\ intent = None
  /\ intent' = IF /\ AgentAccepted(order.environment)
                  /\ parse_caip2_asset(order.asset) # None
                  /\ IntentAccepted(IntentOf(order))
               THEN IntentOf(order) ELSE Refused
  /\ UNCHANGED <<challenge, outcome, order, result>>

-----------------------------------------------------------------------------
(***************************************************************************)
(* execution_adapter.py, as README.md:381-410 implements it.               *)
(***************************************************************************)
\* Mutant: the two addresses change places.
RequirementsSwapped(i) ==
  Validated([amount |-> i.amount, currency |-> Usdc, chain_id |-> HomeChain,
             network |-> i.network, verifying_contract |-> i.destination,
             pay_to |-> i.verifying_contract, valid_before |-> None, nonce |-> None])

RequirementsOf(i) ==
  Validated([amount |-> i.amount, currency |-> Usdc, chain_id |-> HomeChain,
             network |-> i.network, verifying_contract |-> i.verifying_contract,
             pay_to |-> i.destination, valid_before |-> None, nonce |-> None])

Failure(why) == [success |-> FALSE, nonce |-> None, authorization |-> None, error |-> why]

Success(q, n) ==
  [success |-> TRUE, nonce |-> n, error |-> None,
   authorization |-> [amount |-> q.amount, chain_id |-> q.chain_id, pay_to |-> q.pay_to,
                      verifying_contract |-> q.verifying_contract, nonce |-> n]]

\* Everything the requirements, the wallet or the signer raise becomes a
\* result.  eth-account encodes no larger amount than a uint256, and the time
\* of an authorization may be over before it is put together (EIP3009Signer).
Execute ==
  /\ intent \notin {None, Refused}
  /\ result = None
  /\ LET q == RequirementsOf(intent)
     IN  \/ q = Refused /\ result' = Failure("ValidationError")
         \/ q # Refused /\ q.amount > MaxUint256 /\ result' = Failure("ConwayTypedDataError")
         \/ q # Refused /\ result' = Failure("Expired")
         \/ /\ q # Refused /\ q.amount <= MaxUint256
            /\ \E n \in Nonces : result' = Success(q, n)
  /\ UNCHANGED <<challenge, outcome, order, intent>>

IntentNext == (Parse /\ UNCHANGED intentVars) \/ Submit \/ Execute

IntentSpec == IntentInit /\ [][IntentNext]_<<vars, intentVars>>

-----------------------------------------------------------------------------
(***************************************************************************)
(* Properties.                                                             *)
(***************************************************************************)
Signed == result # None /\ result.success

\* A payment that was signed is for the amount, to the recipient and in the
\* token of the order, though the addresses were taken over as texts twice and
\* rewritten once, and the intent names the chain of the order, which was
\* parsed and built again (models.py:128-138, payment/models.py:87-94,
\* caip2.py:134-173).  Nothing is said of the chain that was signed for: it is
\* the adapter's own, and nothing compares it with intent.network
\* (README.md:391-397).  A failure has an error and nothing signed
\* (execution_adapter.py:27-40).
PaidAsOrdered ==
  /\ Signed =>
       /\ parse_caip2_chain_id(intent.network) = parse_caip2_chain_id(order.asset.network)
       /\ result.authorization.amount = order.amount
       /\ result.authorization.pay_to = AddressOf[order.destination]
       /\ result.authorization.verifying_contract = AddressOf[order.asset.contract]
       /\ result.nonce = result.authorization.nonce
  /\ result # None /\ ~Signed => result.authorization = None /\ result.error # None

\* When the execution of an accepted intent fails in time, the order has an
\* address with other characters than hexadecimal digits, or an amount above
\* that of a uint256: every other bad order is refused when its intent is made
\* (models.py:128-157).
RefusedEarly ==
  result # None /\ ~result.success /\ result.error # "Expired" =>
    \/ \E text \in {order.destination, order.asset.contract} : AddressOf[text] = None
    \/ order.amount > MaxUint256

-----------------------------------------------------------------------------
(***************************************************************************)
(* What the documentation says of the addresses and the code does not do.  *)
(***************************************************************************)
\* "full checksum validation happens at signing" (models.py:152): no payment is
\* signed to an address whose checksum is wrong.
ChecksumValidated == Signed => order.destination \notin Mistyped
=============================================================================
