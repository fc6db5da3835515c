----------------------- MODULE MCPaymentRequirements -----------------------
(***************************************************************************)
(* IntentExecution on a small instance: bodies that differ from a good one *)
(* in their deadline and chain, in their two addresses, or in amount,      *)
(* currency and nonce, in every spelling and with several spellings at     *)
(* once; and orders with every combination of good and bad parts.          *)
(***************************************************************************)
EXTENDS IntentExecution

CONSTANTS
  a1, a2,                           \* addresses
  plain, typo, bare, nohex,         \* texts: good, a wrong checksum, no 0x, no digits
  base, sepolia, solana, colonless, \* networks: two EVM chains, another
  nochain, negative, nameless,      \* namespace, no colon, and bad references
  n1, short,                        \* nonces
  usdc, null, eur,                  \* another spelling of Usdc, and no currency
  bucket

MCNetworks == {base, sepolia, solana, colonless, nochain, negative, nameless}
MCNamespaceOf ==
  [n \in MCNetworks |-> CASE n = solana -> solana [] n = colonless -> None [] OTHER -> Eip155]
MCReferenceOf ==
  [n \in MCNetworks |->
     CASE n = base -> 1 [] n = sepolia -> 2 [] n = solana -> 3 [] n = negative -> 0
       [] n = nochain -> Empty [] OTHER -> NotInteger]

Good ==
  [amount |-> 1, currency |-> None, valid_before |-> None, validBefore |-> None, chain_id |-> 1, chainId |-> None,
   network |-> None, x402Network |-> None, verifying_contract |-> plain, verifyingContract |-> None,
   token_contract |-> None, pay_to |-> plain, payTo |-> None, recipient |-> None, nonce |-> None]

Numbers == {None, 0, 1, 2}
MCTexts == {plain, typo, bare, nohex, short}
MCAddressOf == [t \in MCTexts |-> CASE t \in {plain, bare} -> a1 [] t = typo -> a2 [] OTHER -> None]
AnyText == {None, Empty, plain, bare, nohex}
Names == MCNetworks \cup {None, Empty}

MCBodies ==
  {[Good EXCEPT !.valid_before = d, !.validBefore = e, !.chain_id = i, !.chainId = j,
                !.network = n, !.x402Network = m] :
     d, e \in {None, 0, 7}, i, j \in Numbers, n \in Names, m \in {None, sepolia}}
  \cup
  {[Good EXCEPT !.verifying_contract = x, !.verifyingContract = y, !.token_contract = z,
                !.pay_to = y, !.payTo = z, !.recipient = x, !.validBefore = d] :
     x, y, z \in AnyText, d \in {None, 7}}
  \cup
  {[Good EXCEPT !.amount = a, !.currency = x, !.nonce = n, !.valid_before = d] :
     a \in {None, 0, 1}, x \in {None, Usdc, usdc, null, eur}, n \in {None, n1, short}, d \in {None, 0, 7}}

MCAssets == [slash : BOOLEAN, network : MCNetworks, erc20 : BOOLEAN, contract : MCTexts]
MCOrders ==
  [environment : {"development", "staging"}, bucket : {Empty, bucket}, asset : MCAssets,
   amount : {0, 1, 2}, destination : MCTexts]
=============================================================================
