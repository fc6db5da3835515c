----------------------- MODULE PaymentExchangeProofs -----------------------
(***************************************************************************)
(* Proofs about PaymentExchange, for every set of prices, chains, deadlines *)
(* and nonces, every spelling, timeout and window, and any number of       *)
(* attempts.                                                               *)
(***************************************************************************)
EXTENDS PaymentExchange, FiniteSetTheorems, TLAPS

-----------------------------------------------------------------------------
(***************************************************************************)
(* Types.                                                                  *)
(***************************************************************************)
\* What sign returns is an authorization (eip3009.py:271-321).
LEMMA SignedForType ==
  ASSUME ExchangeTypeOK, NEW q \in Challenges, Len(auths) < MaxAttempts
  PROVE  SignedFor(q, held, Len(auths) + 1) \in Authorization
<1> DEFINE n == EffectiveNonce(q, held, Len(auths) + 1)
<1>1. /\ q.amount \in Amounts /\ q.chain_id \in ChainIds
      /\ q.valid_before \in Deadlines \cup {None} /\ q.nonce \in Nonces \cup {None}
  BY DEF Challenges
<1>2. Len(auths) + 1 \in Attempts
  BY ExchangeAssumption DEF ExchangeTypeOK, Attempts
<1>3. n \in Nonces
  BY <1>1, <1>2, ExchangeAssumption DEF EffectiveNonce, ExchangeTypeOK
<1>4. Deadline(q) \in Int
  <2>1. now \in Int /\ Timeout \in Int /\ Deadlines \subseteq Int
    BY ExchangeAssumption DEF ExchangeTypeOK
  <2>2. CASE q.valid_before = None
    BY <2>1, <2>2 DEF Deadline, SafetyBuffer
  <2>3. CASE q.valid_before # None
    BY <1>1, <2>1, <2>3 DEF Deadline
  <2>4. QED
    BY <2>2, <2>3
<1>5. BytesOf[n] \in {BytesOf[m] : m \in Nonces}
  BY <1>3
<1> HIDE DEF n
<1>6. QED
  BY <1>1, <1>3, <1>4, <1>5 DEF SignedFor, Authorization, Message, n

\* ExchangeTypeOK holds in every reachable state of the exchange.
THEOREM ExchangeTypeCorrect == Spec => []ExchangeTypeOK
<1>1. Init => ExchangeTypeOK
  BY ExchangeAssumption DEF Init, ExchangeTypeOK
<1>2. ExchangeTypeOK /\ [Next]_vars => ExchangeTypeOK'
  <2> SUFFICES ASSUME ExchangeTypeOK, [Next]_vars PROVE ExchangeTypeOK'
    OBVIOUS
  <2> USE ExchangeAssumption
  <2>1. CASE Tick
    BY <2>1 DEF Tick, ExchangeTypeOK
  <2>2. CASE Sign
    <3>1. PICK q \in Challenges : auths' = Append(auths, SignedFor(q, held, Len(auths) + 1))
      BY <2>2 DEF Sign
    <3>2. SignedFor(q, held, Len(auths) + 1) \in Authorization
      BY <2>2, SignedForType DEF Sign
    <3>3. /\ auths' \in Seq(Authorization)
          /\ Len(auths') = Len(auths) + 1
          /\ \A i \in 1 .. Len(auths) : auths'[i] = auths[i]
      BY <3>1, <3>2 DEF ExchangeTypeOK
    <3>4. \A m \in net : m.attempt \in 1 .. Len(auths')
                         /\ m.headers = to_payment_headers(auths'[m.attempt])
      BY <3>3 DEF ExchangeTypeOK
    <3>5. QED
      BY <2>2, <3>3, <3>4 DEF Sign, ExchangeTypeOK
  <2>3. CASE Send
    <3>1. auths \in Seq(Authorization) /\ Len(auths) > 0
      BY <2>3 DEF Send, ExchangeTypeOK
    <3>2. auths[Len(auths)] \in Authorization
      BY <3>1
    <3>3. held' \in Nonces
      BY <2>3, <3>2 DEF Send, Authorization
    <3>4. \A m \in net' : m.attempt \in 1 .. Len(auths)
                          /\ m.headers = to_payment_headers(auths[m.attempt])
      BY <2>3, <3>1 DEF Send, ExchangeTypeOK
    <3>5. QED
      BY <2>3, <3>3, <3>4 DEF Send, ExchangeTypeOK
  <2>4. CASE Confirm
    BY <2>4 DEF Confirm, ExchangeTypeOK
  <2>5. CASE GiveUp
    BY <2>5 DEF GiveUp, ExchangeTypeOK
  <2>6. CASE ReadNonce
    BY <2>6 DEF ReadNonce, ExchangeTypeOK
  <2>7. CASE Handle
    BY <2>7 DEF Handle, ExchangeTypeOK
  <2>8. CASE Settle
    BY <2>8 DEF Settle, ExchangeTypeOK
  <2>9. CASE UNCHANGED vars
    BY <2>9 DEF vars, ExchangeTypeOK
  <2>10. QED
    BY <2>1, <2>2, <2>3, <2>4, <2>5, <2>6, <2>7, <2>8, <2>9 DEF Next
<1>3. QED
  BY <1>1, <1>2, PTL DEF Spec

-----------------------------------------------------------------------------
(***************************************************************************)
(* One nonce at a time.                                                    *)
(***************************************************************************)
\* A retry signs with the nonce that is out, a client that waits or has paid
\* had one out, and whatever has settled or still can is over that nonce.
RetryInsists == phase = "signed" /\ held # None => auths[Len(auths)].nonce = held
WaitsForHeld == phase = "waiting" => held # None
PaidMeansSettled == phase = "paid" => settled # {}
SettledHeld == \A i \in settled : held # None /\ auths[i].nonce = held
AliveHeld == \A m \in net : Alive(m.attempt) => held # None /\ auths[m.attempt].nonce = held
OneSettled == \A i, j \in settled : i = j

ExchangeInv ==
  RetryInsists /\ WaitsForHeld /\ PaidMeansSettled /\ SettledHeld /\ AliveHeld /\ OneSettled

\* What has settled was signed.
LEMMA SettledSigned ==
  ASSUME ExchangeTypeOK
  PROVE  /\ \A i \in pending : \E m \in net : m.attempt = i
         /\ \A i \in pending : i \in 1 .. Len(auths)
         /\ settled \subseteq pending
BY DEF ExchangeTypeOK

\* When a transfer executes, none has before: what is alive and what has
\* settled is over the same bytes, and the contract takes these once
\* (eip3009.py:271).
LEMMA FirstToSettle ==
  ASSUME ExchangeTypeOK, ExchangeInv, Settle
  PROVE  /\ settled = {}
         /\ held # None
         /\ \E i \in pending : settled' = {i} /\ auths[i].nonce = held
<1>1. PICK i \in pending : /\ Alive(i)
                           /\ BytesOf[auths[i].nonce] \notin UsedOnChain
                           /\ settled' = settled \cup {i}
  BY DEF Settle
<1>2. held # None /\ auths[i].nonce = held
  BY <1>1, SettledSigned DEF ExchangeInv, AliveHeld
<1>3. settled = {}
  <2> SUFFICES ASSUME NEW j \in settled PROVE FALSE
    OBVIOUS
  <2>1. auths[j].nonce = held
    BY DEF ExchangeInv, SettledHeld
  <2>2. BytesOf[held] \in UsedOnChain
    BY <2>1 DEF UsedOnChain
  <2>3. QED
    BY <1>1, <1>2, <2>2
<1>4. QED
  BY <1>1, <1>2, <1>3

\* The nonce looked up on chain tells the truth about the purchase.
LEMMA LookupTruthful ==
  ASSUME ExchangeInv, held # None
  PROVE  BytesOf[held] \in UsedOnChain <=> settled # {}
BY DEF ExchangeInv, SettledHeld, UsedOnChain

LEMMA ExchangeInvariant == Spec => []ExchangeInv
<1>1. Init => ExchangeInv
  BY DEF Init, ExchangeInv, RetryInsists, WaitsForHeld, PaidMeansSettled, SettledHeld,
         AliveHeld, OneSettled
<1>2. ExchangeTypeOK /\ ExchangeInv /\ [Next]_vars => ExchangeInv'
  <2> SUFFICES ASSUME ExchangeTypeOK, ExchangeInv, [Next]_vars PROVE ExchangeInv'
    OBVIOUS
  <2> USE DEF ExchangeInv, RetryInsists, WaitsForHeld, PaidMeansSettled, OneSettled
  <2>1. CASE Tick
    <3>1. \A m \in net : Alive(m.attempt)' => Alive(m.attempt)
      <4> SUFFICES ASSUME NEW m \in net, now + 1 < auths[m.attempt].valid_before
                   PROVE  now < auths[m.attempt].valid_before
        BY <2>1 DEF Tick, Alive
      <4>1. m.attempt \in 1 .. Len(auths) /\ now \in Int /\ auths \in Seq(Authorization)
        BY ExchangeAssumption DEF ExchangeTypeOK
      <4>2. auths[m.attempt] \in Authorization
        BY <4>1
      <4>3. auths[m.attempt].valid_before \in Int
        BY <4>2 DEF Authorization
      <4>4. QED
        BY <4>1, <4>3
    <3>2. QED
      BY <2>1, <3>1 DEF Tick, SettledHeld, AliveHeld
  <2>2. CASE Sign
    <3>1. PICK q \in Challenges : auths' = Append(auths, SignedFor(q, held, Len(auths) + 1))
      BY <2>2 DEF Sign
    <3> DEFINE a == SignedFor(q, held, Len(auths) + 1)
    <3>2. a \in Authorization
      BY <2>2, SignedForType DEF Sign
    <3>3. /\ \A i \in 1 .. Len(auths) : auths'[i] = auths[i]
          /\ auths'[Len(auths')] = a
      BY <3>1, <3>2 DEF ExchangeTypeOK
    <3>4. held # None => a.nonce = held
      BY DEF SignedFor, EffectiveNonce
    <3>5. RetryInsists'
      BY <2>2, <3>3, <3>4 DEF Sign
    <3>6. SettledHeld'
      BY <2>2, <3>3, SettledSigned DEF Sign, SettledHeld
    <3>7. AliveHeld'
      BY <2>2, <3>3 DEF Sign, AliveHeld, Alive, ExchangeTypeOK
    <3>8. QED
      BY <2>2, <3>5, <3>6, <3>7 DEF Sign
  <2>3. CASE Send
    <3>1. auths[Len(auths)] \in Authorization
      BY <2>3 DEF Send, ExchangeTypeOK
    <3>2. held' # None /\ held' = auths[Len(auths)].nonce
      BY <2>3, <3>1, ExchangeAssumption DEF Send, Authorization
    <3>3. held # None => held' = held
      BY <2>3, <3>2 DEF Send
    <3>4. SettledHeld'
      BY <2>3, <3>3 DEF Send, SettledHeld
    <3>5. AliveHeld'
      BY <2>3, <3>2, <3>3 DEF Send, AliveHeld, Alive
    <3>6. QED
      BY <2>3, <3>2, <3>4, <3>5 DEF Send
  <2>4. CASE Confirm
    BY <2>4 DEF Confirm, SettledHeld, AliveHeld, Alive
  <2>5. CASE GiveUp
    BY <2>5 DEF GiveUp, SettledHeld, AliveHeld, Alive
  <2>6. CASE ReadNonce
    <3>1. \A m \in net : ~Alive(m.attempt)
      BY <2>6 DEF ReadNonce, NothingAlive, ExchangeTypeOK
    <3>2. BytesOf[held] \in UsedOnChain <=> settled # {}
      BY <2>6, LookupTruthful DEF ReadNonce
    <3>3. QED
      BY <2>6, <3>1, <3>2 DEF ReadNonce, SettledHeld, AliveHeld, Alive
  <2>7. CASE Handle
    BY <2>7 DEF Handle, SettledHeld, AliveHeld, Alive
  <2>8. CASE Settle
    BY <2>8, FirstToSettle DEF Settle, SettledHeld, AliveHeld, Alive
  <2>9. CASE UNCHANGED vars
    BY <2>9 DEF vars, SettledHeld, AliveHeld, Alive
  <2>10. QED
    BY <2>1, <2>2, <2>3, <2>4, <2>5, <2>6, <2>7, <2>8, <2>9 DEF Next
<1>3. QED
  BY <1>1, <1>2, ExchangeTypeCorrect, PTL DEF Spec

\* At most one is settled, counted.
LEMMA CountSettled ==
  ASSUME ExchangeInv
  PROVE  /\ settled = {} => Cardinality(settled) = 0
         /\ settled # {} => Cardinality(settled) = 1
<1>1. settled = {} => Cardinality(settled) = 0
  BY FS_EmptySet
<1>2. ASSUME NEW i \in settled PROVE settled = {i}
  BY <1>2 DEF ExchangeInv, OneSettled
<1>3. QED
  BY <1>1, <1>2, FS_Singleton

\* One purchase transfers money at most once, whatever nonces servers propose,
\* however often the application signs again, and whatever is delivered late
\* (eip3009.py:271).
THEOREM OneTransfer == Spec => []PaidOnce
<1>1. ExchangeInv => PaidOnce
  BY CountSettled DEF PaidOnce
<1>2. QED
  BY <1>1, ExchangeInvariant, PTL

\* An application that counts no nonce as out has nothing out that could still
\* settle (eip3009.py:244-269).
THEOREM NothingLeftBehind == Spec => []ClearMeansDead
<1>1. ExchangeInv => ClearMeansDead
  BY DEF ExchangeInv, SettledHeld, AliveHeld, ClearMeansDead
<1>2. QED
  BY <1>1, ExchangeInvariant, PTL

-----------------------------------------------------------------------------
(***************************************************************************)
(* The headers.                                                            *)
(***************************************************************************)
\* What an authorization says is what was signed.
SignedAsStated(a) ==
  a.signature = [amount |-> a.amount, chain_id |-> a.chain_id, valid_after |-> 0,
                 valid_before |-> a.valid_before, nonce |-> BytesOf[a.nonce]]

Faithful == \A i \in 1 .. Len(auths) : SignedAsStated(auths[i])

LEMMA FaithfulInvariant == Spec => []Faithful
<1>1. Init => Faithful
  BY DEF Init, Faithful
<1>2. ExchangeTypeOK /\ Faithful /\ [Next]_vars => Faithful'
  <2> SUFFICES ASSUME ExchangeTypeOK, Faithful, [Next]_vars PROVE Faithful'
    OBVIOUS
  <2>1. CASE Sign
    <3>1. PICK q \in Challenges : auths' = Append(auths, SignedFor(q, held, Len(auths) + 1))
      BY <2>1 DEF Sign
    <3>2. SignedFor(q, held, Len(auths) + 1) \in Authorization
      BY <2>1, SignedForType DEF Sign
    <3>3. /\ Len(auths') = Len(auths) + 1
          /\ \A i \in 1 .. Len(auths) : auths'[i] = auths[i]
          /\ auths'[Len(auths) + 1] = SignedFor(q, held, Len(auths) + 1)
      BY <3>1, <3>2 DEF ExchangeTypeOK
    <3>4. SignedAsStated(SignedFor(q, held, Len(auths) + 1))
      BY DEF SignedAsStated, SignedFor
    <3>5. Len(auths) \in Nat
      BY DEF ExchangeTypeOK
    <3>6. QED
      BY <3>3, <3>4, <3>5 DEF Faithful
  <2>2. CASE auths' = auths
    BY <2>2 DEF Faithful
  <2>3. QED
    BY <2>1, <2>2
    DEF Next, vars, Tick, Send, Confirm, GiveUp, ReadNonce, Handle, Settle
<1>3. QED
  BY <1>1, <1>2, ExchangeTypeCorrect, PTL DEF Spec

\* Text is read as it was written, whatever its size, and a number up to Exact
\* is read exactly.
LEMMA ReadExactly ==
  /\ \A i : IntegerRead(Decimal(i)) = i
  /\ \A i : i <= Exact => IntegerRead(Number(i)) = i
BY DEF IntegerRead, Decimal, Number

\* The headers of an authorization that says what was signed verify, if a JSON
\* number carries its chain id.
LEMMA HeadersVerify ==
  ASSUME NEW a \in Authorization, SignedAsStated(a), a.chain_id <= Exact
  PROVE  Verifies(to_payment_headers(a))
<1>1. a.valid_after = 0
  BY DEF Authorization
<1>2. MessageRead(to_payment_signature_header(a)) = a.signature
  BY <1>1, ReadExactly DEF MessageRead, to_payment_signature_header, SignedAsStated
<1>3. QED
  BY <1>1, <1>2, ReadExactly
  DEF Verifies, to_payment_headers, to_payment_signature_header, MessageRead

\* Every request that is sent verifies, whatever the price and the deadline, if
\* a JSON number carries its chain id (payment/models.py:286-329).
THEOREM EveryHeaderVerifies == Spec => []HeaderHonoured
<1>1. ExchangeTypeOK /\ Faithful => HeaderHonoured
  <2> SUFFICES ASSUME ExchangeTypeOK, Faithful, NEW m \in net,
                      auths[m.attempt].chain_id <= Exact
               PROVE  Verifies(m.headers)
    BY DEF HeaderHonoured
  <2>1. m.attempt \in 1 .. Len(auths) /\ m.headers = to_payment_headers(auths[m.attempt])
    BY DEF ExchangeTypeOK
  <2>2. auths[m.attempt] \in Authorization /\ SignedAsStated(auths[m.attempt])
    BY <2>1 DEF ExchangeTypeOK, Faithful
  <2>3. QED
    BY <2>1, <2>2, HeadersVerify
<1>2. QED
  BY <1>1, ExchangeTypeCorrect, FaithfulInvariant, PTL

-----------------------------------------------------------------------------
(***************************************************************************)
(* The exchange implements a purchase.                                     *)
(***************************************************************************)
LEMMA InitBuys == Init => Bought!Init
<1>1. Cardinality({}) = 0
  BY FS_EmptySet
<1>2. QED
  BY <1>1 DEF Init, Bought!Init

LEMMA StepBuys ==
  ExchangeTypeOK /\ ExchangeInv /\ ExchangeInv' /\ [Next]_vars => [Bought!Next]_(Bought!vars)
<1> DEFINE view == IF phase = "paid" THEN "paid" ELSE IF held = None THEN "clear" ELSE "unsure"
<1> SUFFICES ASSUME ExchangeTypeOK, ExchangeInv, ExchangeInv', [Next]_vars
             PROVE  Bought!Next \/ UNCHANGED Bought!vars
  OBVIOUS
<1>1. CASE Tick
  BY <1>1 DEF Tick, Bought!vars
<1>2. CASE Sign
  BY <1>2 DEF Sign, Bought!vars
<1>3. CASE Send
  <2>1. auths[Len(auths)] \in Authorization
    BY <1>3 DEF Send, ExchangeTypeOK
  <2>2. held' # None
    BY <1>3, <2>1, ExchangeAssumption DEF Send, Authorization
  <2>3. CASE held = None
    BY <1>3, <2>2, <2>3 DEF Send, Bought!Next, Bought!Commit
  <2>4. CASE held # None
    BY <1>3, <2>2, <2>4 DEF Send, Bought!vars
  <2>5. QED
    BY <2>3, <2>4
<1>4. CASE Confirm
  <2>1. held # None /\ settled # {}
    BY <1>4 DEF Confirm, ExchangeInv, WaitsForHeld
  <2>2. Cardinality(settled) = 1
    BY <2>1, CountSettled
  <2>3. QED
    BY <1>4, <2>1, <2>2 DEF Confirm, Bought!Next, Bought!Resolve
<1>5. CASE GiveUp
  BY <1>5 DEF GiveUp, Bought!vars
<1>6. CASE ReadNonce
  <2>1. BytesOf[held] \in UsedOnChain <=> settled # {}
    BY <1>6, LookupTruthful DEF ReadNonce
  <2>2. CASE settled = {}
    <3>1. Cardinality(settled) = 0
      BY <2>2, CountSettled
    <3>2. held' = None /\ phase' = "ready" /\ settled' = settled
      BY <1>6, <2>1, <2>2 DEF ReadNonce
    <3>3. QED
      BY <1>6, <3>1, <3>2 DEF ReadNonce, Bought!Next, Bought!Resolve
  <2>3. CASE settled # {}
    <3>1. Cardinality(settled) = 1
      BY <2>3, CountSettled
    <3>2. phase' = "paid" /\ settled' = settled
      BY <1>6, <2>1, <2>3 DEF ReadNonce
    <3>3. QED
      BY <1>6, <3>1, <3>2 DEF ReadNonce, Bought!Next, Bought!Resolve
  <2>4. QED
    BY <2>2, <2>3
<1>7. CASE Handle
  BY <1>7 DEF Handle, Bought!vars
<1>8. CASE Settle
  <2>1. PICK i \in pending : settled = {} /\ held # None /\ settled' = {i}
    BY <1>8, FirstToSettle
  <2>2. Cardinality(settled) = 0 /\ Cardinality(settled') = 1
    BY <2>1, FS_EmptySet, FS_Singleton
  <2>3. phase # "paid"
    BY <2>1 DEF ExchangeInv, PaidMeansSettled
  <2>4. QED
    BY <1>8, <2>1, <2>2, <2>3 DEF Settle, Bought!Next, Bought!Transfer
<1>9. CASE UNCHANGED vars
  BY <1>9 DEF vars, Bought!vars
<1>10. QED
  BY <1>1, <1>2, <1>3, <1>4, <1>5, <1>6, <1>7, <1>8, <1>9 DEF Next

\* Every step of the exchange is a step of a purchase or changes nothing in it:
\* the safety part of ImplementsPurchase.
THEOREM ImplementsPurchaseSteps == Spec => Bought!Init /\ [][Bought!Next]_(Bought!vars)
BY InitBuys, StepBuys, ExchangeTypeCorrect, ExchangeInvariant, PTL DEF Spec
=============================================================================
