# Conway SDK: a TLA+ development

The Conway SDK (`src/conway_sdk`) is a Python library with which a program pays
for HTTP resources: it parses a server's *402 Payment Required* challenge, signs
an EIP-3009 `transferWithAuthorization` for it with a wallet, and shares the
nonces it used with the other instances of the program through Redis.  This
directory models the SDK in TLA+, checks the models with TLC and proves their
main properties with TLAPS.

## 1. The system

| Component | State | Operations | Talks to |
|---|---|---|---|
| `PaymentRequirements` (`payment/models.py`) | a mutable pydantic record: amount, chain, addresses, optional deadline and nonce | `from_payment_required_header`, `from_response_body`, attribute assignment | `caip2.parse_caip2_chain_id` |
| CAIP-2 (`payment/caip2.py`) | none | `parse_caip2_chain_id`, `parse_caip2_asset`, `build_caip2` | |
| `EIP3009Signer` (`payment/eip3009.py`) | a configuration, no memory of earlier calls | `sign`, `sign_async` | requirements (reads them twice), the clock (reads it twice), a wallet |
| `PaymentAuthorization` (`payment/models.py`) | the signed result | its validators, the header and dict renderings | the clock |
| `SdkConfig` (`config.py`) | `payment_timeout_seconds`, `max_authorization_window_seconds` | range checks | |
| `LocalWallet` (`wallet/local.py`) | a key in memory | `sign_typed_data`, `sign_typed_data_async`, loading | eth-account, the default thread pool of the event loop |
| `KMSWallet` (`wallet/kms.py`) | a KMS key alias and the address cached at construction | construction, `sign_hash`; `sign_typed_data` raises | AWS KMS through boto3 |
| `RedisNonceCache` (`wallet/redis_nonce_cache.py`) | a client; the keys are in Redis | `record`, `is_known`, `evict`, `ping` | Redis, shared by all instances |
| `Agent`, `PaymentIntent`, `ExecutionAdapter` (`models.py`, `execution_adapter.py`) | immutable records, an abstract class | constructors | |
| exceptions, `wallet/base.py`, `__init__` files | classes and re-exports | | |

How they interact: the application parses a challenge into a
`PaymentRequirements`, hands it with a wallet to `EIP3009Signer.sign` (in a
thread) or `sign_async` (as a task), gets a `PaymentAuthorization`, asks
`RedisNonceCache.record` whether its nonce is new, and sends the authorization
back to the server in headers that `PaymentAuthorization` renders.  The other
way to a payment begins with a `PaymentIntent`, which an `ExecutionAdapter`
turns into requirements and signs.  The retry of the HTTP request and the
orchestration around it belong to the application and are not in the repository,
an adapter exists only in `README.md:381-410`, and there are no tests.

What is hard in it, and what correctness means:

* **Signer.** `sign_async` suspends between building the payload and assembling
  the result.  In between the clock moves, the requirements may be changed by
  whoever shares them, the task may be cancelled while its thread signs, and
  the calls compete for worker threads.  Correct: an authorization is covered
  by its signature, is alive when it is handed over, expires within the window
  the configuration grants; a call ends exactly once; every call ends.
* **Nonce cache.** Two machines, a lossy connection between them, a client that
  repeats commands, commands executed after their caller gave up, keys that
  expire while answers are under way.  Correct: two grants of a nonce never
  overlap, `True` means granted, `False` means taken, the store holds what was
  granted.
* **Paying.** Signing, recording and submitting are separate steps of instances
  that crash.  Correct: a nonce text is out at most once while an
  authorization over it can be used, and the chain spends no 32 bytes twice.
* **Exchange.** The answer to a paid request may be lost, late, or follow a
  second request; the server chooses nonces and deadlines; integers pass through
  JSON.  The SDK keeps nothing between calls, so it is the nonce argument of
  `sign` and the bound on every window that let an application recover.
  Correct: one purchase moves money once, a server reads what was signed, and an
  application that is unsure learns the truth.
* **Intents.** Three rules examine an address on its way from an order to a
  signature.  Correct: amount, recipient and token of what is signed were
  ordered, and what can be seen to be bad is refused before money is reserved.
* **KMS wallet.** The address is cached and the key behind an alias is not; s is
  normalised and the recovery bit is found by trial.  Correct: a returned
  signature is accepted on chain for the wallet's address, and the wallet's own
  key is never refused.
* **Local wallet.** A key has many forms.  Correct: what a wallet signs is
  accepted for the key that its material stands for, so no form of a key makes
  the wallet of another.
* **Parsing.** Two alphabets and optional padding, several spellings per field,
  Python's `or` on values that may be zero.  Correct: the header means what the
  body means, the server's deadline and chain are kept.

`PROJECT.json` lists these hazards at their lines with the properties that
cover them.

## 2. The modules

| Module | Lines it stands for | What it is |
|---|---|---|
| `EIP3009Signer` | `eip3009.py`, `local.py:131-176`, the two models, `config.py` | the detailed signer |
| `AuthorizationIssuer` | the contract of `EIP3009Signer.sign` | the abstract specification the signer implements |
| `RedisNonceCache` | `redis_nonce_cache.py` | the cache, its connection and the Redis server |
| `NonceLedger` | `redis_nonce_cache.py:6-7` | the abstract specification the flow implements: one ledger of nonces |
| `PaymentFlow` | the protocol in `redis_nonce_cache.py:18-23` and `README.md:470-516` | extends the cache: attempts that sign, record, submit and settle |
| `PaymentExchange` | `eip3009.py:187-321`, `payment/models.py:254-329`, `exceptions.py:267-273` | one purchase from the challenge to the transfer, with the network, the server and the chain |
| `Purchase` | what an application wants of it | the abstract specification the exchange implements |
| `KMSWallet` | `kms.py:88-209` | KMS wallets over a small curve |
| `LocalWallet` | `local.py:63-208`, `base.py:48-69`, `kms.py:233-245` | extends it: keys in memory, over the same curve |
| `PaymentRequirements` | `payment/models.py:49-216`, `caip2.py:37-95` | parsing a challenge |
| `IntentExecution` | `models.py`, `execution_adapter.py`, `caip2.py:98-173` | extends it: orders that become intents, requirements and results |
| `CurveProofs` | | lemmas about the curve of `KMSWallet`, for every group of odd prime order |
| `EIP3009SignerProofs`, `RedisNonceCacheProofs`, `PaymentFlowProofs`, `PaymentExchangeProofs`, `WalletProofs`, `IntentExecutionProofs` | | theorems and proofs |
| `MCSigner`, `MCNonceCache`, `MCPaymentFlow`, `MCPaymentExchange`, `MCWallets`, `MCPaymentRequirements` | | small instances for TLC |

### EIP3009Signer

An element of `Calls` is one call of `sign` or `sign_async`.  `BuildPayload` is
`_build_payload`, all its early returns, and the beginning of the wallet's
signing: a `sync` call signs in its own thread (`inline`), an `async` one is put
into the executor's queue.  `Dequeue` is a pool thread taking work, `Sign` and
`FailToSign` are eth-account accepting or refusing the payload (its shape, which
`_build_signable_data` checks, is always right here), `Assemble` is
`_assemble` with both validators of `PaymentAuthorization`.  `Cancel` is the
cancellation of the task: a work item in the queue is dropped when its turn
comes, a thread that already signs goes on (`orphaned`, `FinishOrphan`).
`EditRequirements` is the application assigning to a shared requirements object.
A wallet in `KmsWallets` raises `NotImplementedError`, after the payload was
built.  `terms` stands for recipient, amount, chain and contract in one value.
A nonce is a text; `BytesOf` gives the 32 bytes it stands for; `BadShape` and
`NotHex` are texts the payload builder rejects, with `ConwayTypedDataError` and
with the `ValueError` of `bytes.fromhex`.  `Empty` is an override that counts as
none (`eip3009.py:271`).  `TimeoutOf` gives each call its signer's
`payment_timeout_seconds`, as a process may have several signers.

### RedisNonceCache

`record`, `is_known`, `evict` and `ping` send a command; `ExecuteSet`,
`ExecuteExists`, `ExecuteDel` and `ExecutePing` are the server executing it, at
any later time; `Receive` is the method's return and `Disconnect` the failure of
the connection at any moment, after which redis-py sends the command again
(`Resends` times: 0 by default in redis-py 5, 3 in redis-py 6) or raises, which
`ping` alone catches.  A command whose client gave up stays under way.
`leases` is a history of the grants: who recorded a nonce, from when, until when.

### PaymentFlow

`SignAttempt` is what `AuthorizationIssuer` promises, with any nonce;
`RecordAttempt` calls `record` and the attempt is then the cache's call of the
same name; `Submit` and `Abort` follow the README; `Settle` is the token
contract, which accepts a nonce once and only before the deadline.  Any attempt
may stop at any point: its instance has crashed.  `RecordsWindow` chooses
between `record(nonce, valid_before - now)` and `record(nonce)`.

`NonceLedger` is what all of this is for, as if it were one program: an
authorization is entered when it leaves, only while no other one over its nonce
text can be used, and a transfer is of what was entered, in time and once per 32
bytes.  The entries are told apart by text, as Redis keys are
(`redis_nonce_cache.py:108`), and the transfers by bytes, as the contract tells
them apart: two spellings of the same bytes may both be entered (section 3).
Its `out` is the attempts that have submitted, its `spent` the nonces used on
chain; `Submit` is its `Release`, `Settle` its `Transfer`, `CacheTick` its
`Tick`, and all the signing, asking, losing and repeating is stuttering.  Redis
does not appear in it.

### PaymentExchange

`Sign` fetches a challenge, with any price, chain, deadline and nonce, and does
all of `sign`: the window check (`WindowTooLong`), the own deadline, and the
choice of the nonce, in which the argument of the caller wins over the server's
and the server's over a fresh one.  A challenge that `sign` refuses changes nothing.
`to_payment_headers` is the code's rendering, with its integers as decimal text
or JSON number, and `Verifies` the server reading it back: a JSON number is
exact up to `Exact`, and rounded to an even neighbour above.  Chain ids are
bounded nowhere, neither in the code nor here.  A request in `net` stays
there: it may be handled late, repeatedly, or never.  `Handle` is the server
passing a good authorization to a facilitator, `Settle` the contract executing
it: in time, and once per nonce, compared as bytes.

The application is external; it does what the SDK offers and asks for.  It keeps
the nonce that is out (`held`) and insists on it when it signs again; when its
authorizations are all dead it looks the nonce up on chain (`ReadNonce`,
`exceptions.py:267-273`) and pays anew only after that.  `GiveUp` is its HTTP
client failing at any moment.

`Purchase` maps `Cardinality(settled)` to `transfers`, and the phase and the
held nonce to what the application believes (`view`).  The first `Send` is its
`Commit`, `Settle` its `Transfer`, `Confirm` and `ReadNonce` its `Resolve`.

### KMSWallet and LocalWallet

The group has a small prime order, a point is written as its discrete logarithm,
and ECDSA signing, recovery and verification are computed in full.  `Construct`
caches the address of the key the alias names; `sign_hash` sends the request,
`KmsSign` answers with any draw of the key the alias names *then*, `Fail` is a
lost or throttled request, `Finish` the rest of `sign_hash`; `Rotate` moves the
alias.  A key on another curve answers arbitrary r and s.

In `LocalWallet` a material is its form (bytes, text or mnemonic), the marks it
begins with, the number of digits that follow, and the key they write.  `Load`
goes through the steps of `_load_account`: `key_hex` prefixes bytes always and a
text unless it has the prefix, `LengthOk` counts bytes before and characters
after, and `from_key` is eth-account parsing the result.  The bytes of a mnemonic
are `HexBytes`, whose `hex()` begins with a mark of its own before hexbytes 1.0;
`pyproject.toml:44` allows both, and so do the materials.  `sign_typed_data` is
eth-account's
signature, with low s and the recovery bit that belongs to it, goes through
`from_eth_account_sig`.  An application has either KMS wallets or a local one.
`KMSWalletStub` hands everything on to a `LocalWallet`, and is one here.

### PaymentRequirements and IntentExecution

A body is a function from the field names of `_from_dict` to values, and a
header is described by what decides Python's non-strict base64 decoder: the
alphabet, the number of characters in which the alphabets differ, the length
modulo 4, the padding.  `Or` is Python's `or`; `Normalized`, `Valid` and
`parse_caip2_chain_id` are the code.  `AddressOf` gives the address that
`to_checksum_address` makes of a text, if it makes one: it takes a text without
`0x` and does not compare the checksum of a mixed-case one.  A `currency` that is
absent is USDC, one in any case is capitalised, and null or another is refused.

In `IntentExecution` an order names an environment, a bucket, a CAIP-19 text, an
amount and a destination.  `Submit` parses the text and constructs the `Agent`
and the `PaymentIntent`, with all their checks; `Execute` is the adapter of
`README.md:381-410`: it builds requirements for its `HomeChain` and turns
whatever is raised into a failed `ExecutionResult`: the error of the requirements,
that of eth-account for an amount beyond a uint256, or that of an authorization
whose time is over.  An application either
answers a challenge or executes an order.

## 3. The runs

All runs have small sets of model values, and a clock bounded by `Horizon`.
Deadlock checking is off everywhere: an application may stop asking, and the
clock stops at its bound.

| Run | Shows | Bounds, and why they suffice |
|---|---|---|
| `signer_values` | type, coverage by the signature, windows, final outcomes for one call with every kind of input (264,440 states) | deadlines past, reached during the call, and beyond the window; timeout 7 leaves an own window of 2, so it also runs out; each kind of nonce, in the requirements and as an override; both wallets; terms that cannot be encoded, so that signing fails too |
| `signer_live` | coverage, windows and outcomes under every interleaving of two calls; every call ends; the signer implements `AuthorizationIssuer` (107,298 states) | two calls, threads or tasks, share one requirements object and one worker: one worker makes the queue matter, two calls are enough for each to overtake the other; each call draws a nonce of its own, so that none can end up in the other unseen; timeout 6 leaves one call an own window of 1, timeout 5 leaves the other none; the server's deadline 2 is beyond the clock's bound 1; deadlines and nonces are edited, terms are not (`signer_values` edits them) |
| `nonce_cache` | Redis holds what was granted, grants do not overlap, answers are true, and two winners of one nonce have it one after the other by what they were told | three calls of any kind on one nonce (calls on different nonces touch different keys), one resend, clock 0 to 2, default ttl 2, explicit ttl 0 (refused) and 1 |
| `payment_flow` | no nonce text is out twice in its window; the flow implements `NonceLedger`, whose transfers spend no 32 bytes twice (1,860,401 states) | two attempts, two spellings of the same bytes, windows up to 2, clock 0 to 3, so that entries expire and nonces come back |
| `payment_exchange` | one transfer per purchase, dead when forgotten, headers honoured up to `Exact`; the exchange implements `Purchase` (351,010 states) | three attempts: a payment, a second one over the same or another nonce, and one after the nonce was looked up; two spellings of one nonce and another nonce; deadlines 1 and 3, the second too far away at first, and 9, always too far; clock to 6, and nothing is signed whose window the bound would cut; a price above `Exact`, a chain below and one above it |
| `wallets` | signatures accepted, own key never refused, rotation noticed; what a local wallet signs is accepted for the key of its material (199,974 states) | group of order 11, two keys and a foreign one, two KMS wallets, two rotations, one resend; calls share only the cached address, so one call suffices; local keys of every form, with a wrong length, no prefix, a wrong or a second one, a number above the order, or no number; `HexBytes` of both kinds |
| `requirements` | a standard header means its body; deadline and chain are kept; amount, recipient and token that are signed were ordered, and bad orders are refused early (379,680 states) | every length modulo 4, 0 to 4 differing characters (the decoder depends on their number modulo 4), every spelling with absent, falsy and good values, every kind of currency; amounts 0, 1 and, with 1 in the place of the largest uint256, one too large; orders with every combination of good and bad parts: five texts in the place of an address, seven networks |

Five runs end in a violation.  Each states a sentence of the documentation:

| Run | Sentence | What the code does |
|---|---|---|
| `signer_fully_signed` | "A fully signed EIP-3009 transferWithAuthorization" (`models.py:226`) | `_assemble` takes the terms from the requirements as they are after the await (`eip3009.py:229, 310-320`) |
| `nonce_cache_winner` | "the first instance to call record() wins" (`README.md:459-460`) | the caller whose connection fails before its SET is executed gets an exception, the SET is executed all the same, and all others get `False` (no command is sent again in this run) |
| `payment_flow_default_ttl` | "automatic expiry when the nonce's valid_before passes" (`redis_nonce_cache.py:16`) | called as `README.md:476` does, the entry ends after 3600 s while windows may be 86400 s long |
| `requirements_alphabets` | "both standard and URL-safe alphabets are tried" (`models.py:122-123`) | the first decoder skips `-` and `_` and fails only if that breaks the padding |
| `requirements_checksum` | "full checksum validation happens at signing" (`models.py:152`) | nothing compares the checksum; `to_checksum_address` replaces a wrong one (`payment/models.py:92`) |

Other disagreements, not worth a run:

* `README.md:774` says a reused nonce raises `ConwayIdempotencyError`, which
  nothing raises; the signer remembers no nonces.  `ConwayRedisError`, the
  `ttl_seconds` argument, `authorization.to_address` (`README.md:219`),
  `from_dict` (`README.md:249`) and raising `ConwayNetworkMismatchError` exist
  in the documentation only.
* `README.md:97` says `KMSWallet` signs EIP-712 data; its `sign_typed_data`
  raises `NotImplementedError` (`kms.py:147`).
* An accepted `payment_timeout_seconds` of 5 or less makes every call with an own
  deadline fail (`config.py:46`, `eip3009.py:265`).  The buffer is not applied
  to deadlines of a server (`README.md:757-763`).
* "A nonce must be used at most once within its valid_before window"
  (`redis_nonce_cache.py:6-7`), yet the cache knows its text only (line 108), and
  nothing unifies the hexadecimal digits of a server's nonce
  (`payment/models.py:96-106`).  Two spellings of the same bytes are two keys and
  one nonce on chain: both can be out and usable at once, so the sentence holds of
  a text (`UsedOnceInWindow`, `NonceUsedOnce`) and not of the bytes.  In
  `payment_flow` the two nonces are such a pair.  That money moves once
  (`PaidOnce`, `ImplementsLedger`) is due to the contract, which compares bytes.  A nonce
  whose entry has ended is "fresh" again although it may be used on chain
  (`redis_nonce_cache.py:23`).
* "Accepts snake_case and camelCase variants" (`payment/models.py:158`): a
  `valid_before` or `chain_id` of 0 gives way to the other spellings and to the
  network, a `validBefore` or `chainId` of 0 does not.
* Integers are said to go out as decimal strings (`payment/models.py:290-292`); the
  chain id, which nothing bounds (`payment/models.py:58`), goes out as a JSON
  number (line 301), and a server reads another one if it is above 2^53.
  `HeaderHonoured` excepts just this; chains of that size are not in use.
  `to_dict`, for "JSON body submission"
  (`payment/models.py:332`), leaves out the signature.
* Verifying the nonce on chain before retrying (`exceptions.py:271-273`) tells
  nothing while an authorization over it is alive: `ReadNonceAtOnce` in
  `PaymentExchange` is that mistake, and breaks `ClearMeansDead`.
* The adapter of `README.md:381-410` signs for a fixed chain (line 393) whatever
  `intent.network` says: an order for another chain is signed for the adapter's.
  `PaidAsOrdered` therefore says nothing of the chain that was signed for.  An
  `Agent`'s environment is tied to nothing.
* With hexbytes before 1.0, whose `hex()` writes `0x`, `from_mnemonic` refuses
  every mnemonic (`local.py:81, 208`); `pyproject.toml:44` does not exclude it.
  The materials of `wallets` include these bytes, and no property says that a
  good mnemonic makes a wallet.
* An amount is examined from below only (`models.py:128-138`,
  `payment/models.py:56`): one above a uint256 becomes an intent and requirements
  and is refused when it is signed.  `RefusedEarly` names this and the digits of
  an address as what is refused late.

### Fairness

`FairSpec` of the signer assumes weak fairness of `Dequeue` (a pool thread that
is free and has work takes it), of `Sign` and `FailToSign` and `FinishOrphan`
(signing is a computation that ends), and of `Assemble` (the event loop resumes
a coroutine whose result is there; a thread goes on).  No fairness is assumed
of the application: calls need not begin or be cancelled, requirements need not
be edited, and the clock need not move.  Weak fairness suffices because nothing
disables these actions but a cancellation, which ends the call.

`Spec` of `PaymentExchange` assumes weak fairness of `Tick` (time passes), `Send`
(a signed request is sent), `GiveUp` (an HTTP client does not wait for ever) and
`ReadNonce` (an application that may look its nonce up does).  Nothing is
assumed of the network, the server, the facilitator and the contract: none of
them needs to act for an application to learn the truth, because every window
ends.  The other modules have safety properties only.

## 4. The proofs

All theorems hold for every value of the constants that meets the named
assumption of the module (`SignerAssumption`, `CacheAssumption`,
`FlowAssumption`, `ExchangeAssumption`, `KmsAssumption`, `LocalAssumption`,
`ParsingAssumption`, `IntentAssumption`), which restates checks of the code
(`SdkConfig.__post_init__`), the kinds of the constants, and of the curve that its
order is odd and has no zero divisors, as an odd prime has none.

* `EIP3009SignerProofs`.  `SignerInv` follows each call: in flight, its payload
  carries the deadline and the nonce of its meta data, and the terms of its
  requirements unless these were edited (`PayloadFaithful`); its deadline is one
  its chooser may choose (`DeadlineGranted`); its signature, once there, is over
  that payload (`SignedPayload`); an outcome belongs to the control point of its
  kind (`OutcomeOf`).  The properties alone are not
  inductive: they speak of the finished authorization and say nothing of the
  locals it will be assembled from.  From it follow `TypeCorrect`,
  `SignatureCovers`, `WindowKept`, `OwnWindowKept` and, as an action property,
  `OutcomesStay`.  `ImplementsIssuerSteps` shows that the initial states and all
  steps map to `AuthorizationIssuer`.
* `RedisNonceCacheProofs`.  `CacheTypeCorrect`; `OneHolderAtATime` and
  `KeysAreGrants` together are inductive (a new lease is disjoint from the old
  ones *because* the store matches the leases when the server looks).
  `ToldInv` follows a command from its sending to the caller: the first one is
  executed at most once (`SentOnce`), and a reply on its way, like a result, says
  what the history of grants says (`ReplyTruthful`, `ResultTruthful`), also after
  an eviction has ended the grant.  From it follow `TrueIsGrant`,
  `FalseIsTaken` and `WinnersTakeTurns`, which speaks only of what two callers
  asked for and were told.
* `PaymentFlowProofs`.  `FlowInv` says of every attempt that has been granted
  its nonce (or will be told so) that a lease holds the nonce until the authorization's deadline or
  later, whatever step it has reached and however late the grant was executed.
  All theorems assume `RecordsWindow`, without which
  `payment_flow_default_ttl` is a counterexample.  Nothing is
  assumed of `BytesOf`: `NonceUsedOnce` speaks of texts, and
  `FlowImplementsLedger` of texts that leave and bytes that are spent, whichever
  texts stand for the same bytes.  `FlowImplementsCache` shows that the attempts are
  programs the cache's own theorems are about.  `FlowImplementsLedger` is a full
  refinement: `Release` is allowed when an attempt submits because
  `UsedOnceInWindow` holds in the state *after* the step, and `Transfer` is of
  something entered because whatever settled was submitted (`SettledReleased`).

* `PaymentExchangeProofs`.  `ExchangeInv` says that one nonce is out at a time:
  a retry is over the nonce that is held (`RetryInsists`), and whatever is alive
  or has settled is over it too (`AliveHeld`, `SettledHeld`).  `PaidOnce` alone
  is not inductive: it does not say that a second authorization that is still
  alive would be refused by the contract.  From it follow `OneTransfer` and
  `NothingLeftBehind`; the chain's answer to `ReadNonce` is true
  (`LookupTruthful`); and `ImplementsPurchaseSteps` maps initial states and
  steps to `Purchase`.  `Faithful` (an authorization says what was signed) gives
  `EveryHeaderVerifies`, for prices of any size, and for each request whose chain
  id is at most `Exact`; the chain ids themselves are not bounded.
* `CurveProofs`.  A product of scalars modulo N is a scalar, so multiplying by
  one permutes the scalars: every scalar has an inverse (a counting argument,
  by cardinality) and division is unique.  A number has at most two square roots,
  which are opposite, so an x coordinate belongs to two points, the recovery bit
  chooses one, and recovery leads to at most one key (`RecoveredOne`), whose
  signature it is (`RecoveredVerifies`).  What a key signs leads back to it
  (`RecoversSigner`), and negating s swaps the bits and changes nothing else
  (`LowSRecovers`).
* `WalletProofs`.  `KMSWalletInv` says of each call where its reply comes from
  (`Underway`, `Answered`, `Returned`, `Raised`): a reply is a signature of the
  call's hash by a key the alias has named since the call began, and a call that
  raised after a reply had one from another key than the wallet's.  The
  properties alone are not inductive, as they say nothing of a reply that is not
  looked at yet.  From it follow `KMSWalletTypes`, `KMSSignatureAccepted`,
  `KMSOwnKeyAccepted` and `KMSRotationNoticed`: they rest on a signature leading,
  of all keys KMS holds, only to the one that made it (`OnlySigner`).
  `WalletsImplementKMSWallet` carries them over to `WalletSpec`.  `LocalInv`
  says that the account is what `load_account` makes of the material and the
  signature is eth-account's; with the same lemmas it gives
  `LocalSignaturesAccepted`, by way of `LoadedDenotes`: whatever marks and digits
  pass the checks and eth-account write the key the material stands for.
* `IntentExecutionProofs`.  `ParseInv` and `IntentInv` say that an outcome, an
  intent and a result come from the challenge or the order that is there.  From
  them follow `ParsedIsValid`, `HeaderMeansBody`, `StatedDeadlineKept`,
  `StatedChainKept` and `OrderKept`, the last with `BuiltChain`: the text
  `build_caip2` makes of a chain is parsed as this chain.  `BadOrdersRefusedEarly`
  needs that an accepted intent still has the checked parts of its order
  (`AcceptedIntent`): then the amount is positive, and only the digits of an
  address can fail the requirements (`AcceptedRequirements`) and only the size of
  the amount the wallet.  Orders whose time is over are excepted.

Only model-checked: liveness and the fairness half of the two refinements
(`CallsEnd`, `ImplementsIssuer`, `ImplementsPurchase`), which are beyond the
prover; the safety half of both is proved.

## 5. What is abstracted

* One clock, which does not go back, for the signers, the Redis server, the
  application and the chain.  Skewed clocks shift a lease, or the moment at
  which a nonce may be looked up, against the deadline by the skew.
* In `PaymentExchange` a challenge is fetched and signed in one step (the
  interleavings inside `sign` are those of `EIP3009Signer`); the application
  does not forget the nonce that is out (the SDK would not know it either); and
  no other purchase of the payer uses its nonces.  The contract's
  `validAfter` is always 0 there, as it is in the SDK.
* `_build_payload` is one step.  A synchronous call runs in a thread, and an edit
  of the shared requirements can come between its reads: `valid_before` at
  `eip3009.py:244`, 245 and 259, the nonce at 271, the terms at 273-281.
  Nonce and terms may thus come from an edit the deadline does not know, and the
  terms from two edits; the payload is then signed as it was read, and an edit
  after such a read is, for `SignatureCoversAuthorization`, one that comes while
  the call is in flight.  The three reads of
  `valid_before` have no call between them, and CPython with its global lock
  switches threads at calls and backward jumps only, so they see one value.  A
  free-threaded build could take over a deadline whose window was not checked;
  `IssuedWithinWindow` does not cover that.  For a task on the event loop the step
  is exact: nothing else runs on the loop before the await.
* The two clock reads in `PaymentAuthorization` (for `signed_at` and for the
  validator) are one.  An edit of requirements leaves them valid.
* The cache's key prefix is the same in all instances, Redis loses no data, and
  nobody evicts a nonce in `PaymentFlow` (`evict` is for administration,
  `redis_nonce_cache.py:127-128`).
* Three coincidences of probability 2^-256 are left out of `KMSWallet`; its key
  retrieval either succeeds or no wallet is constructed.
* A header whose decoding skipped characters is taken to be no JSON.

* The key 0 and the shapes eth-account's own integers cannot have are left out
  of `LocalWallet`.

Not modelled: `to_dict` (nothing reads it), the EIP-712 domain fields,
`extra`, `metadata` and generated identifiers (nothing in the SDK
decides anything by them), `AbstractWallet` and `WalletProtocol` (interfaces
without behaviour), the exception classes (they carry texts; the reasons of
failing calls name the ones that are raised) and packaging.

## 6. Plan

Done, in this order: the signer and its abstract specification; its proofs; the
cache and its proofs; the flow and its proofs; the KMS wallet; parsing; the
exchange, its abstract specification and its proofs; local wallets; intents;
the proofs about parsing and intents; the curve, the wallets and `RefusedEarly`;
the ledger, and the proof that the flow implements it.

Next:

1. The composition of the ledger with several purchases of one payer.
2. An application that crashes and forgets the nonce that is out, with the cache
   as its memory.
