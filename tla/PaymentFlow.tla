----------------------------- MODULE PaymentFlow -----------------------------
(***************************************************************************)
(* Several instances of one application pay with the SDK: each attempt     *)
(* signs an authorization, records its nonce in the shared                 *)
(* RedisNonceCache and, when record returns True, submits the              *)
(* authorization to a server, whose facilitator settles it on chain.  The  *)
(* instances are applications written as README.md:470-516 shows; the      *)
(* signer and the cache are the SDK's.                                     *)
(*                                                                         *)
(* An attempt is one element of Calls, so what it asked the cache is       *)
(* call[c].  An attempt may stop anywhere: its instance has crashed.       *)
(***************************************************************************)
EXTENDS RedisNonceCache

CONSTANTS
  Bytes32,       \* nonces as the token contract compares them
  BytesOf,       \* the bytes a nonce text stands for
  Window,        \* the longest window a signer grants
  RecordsWindow  \* TRUE: record(nonce, valid_before - now); FALSE: record(nonce)

ASSUME FlowAssumption ==
  /\ BytesOf \in [Nonces -> Bytes32]
  /\ Window \in Nat
  /\ -Horizon .. Window \subseteq Ttls
  /\ RecordsWindow \in BOOLEAN

VARIABLES
  stage,      \* "idle", "signed", "asking", "submitted" or "dropped"
  auth,       \* nonce and deadline of an attempt's authorization
  submitted,  \* when the authorization left the instance, None before
  settled     \* attempts whose transfer the contract executed

flowVars == <<stage, auth, submitted, settled>>
vars == <<cacheVars, flowVars>>

Authz == [nonce : Nonces, valid_before : 1 .. Horizon + Window]
Stages == {"idle", "signed", "asking", "submitted", "dropped"}

FlowInit ==
  /\ CacheInit
  /\ stage = [c \in Calls |-> "idle"]
  /\ auth = [c \in Calls |-> None]
  /\ submitted = [c \in Calls |-> None]
  /\ settled = {}

Enter(c, label) == stage' = [stage EXCEPT ![c] = label]

\* EIP3009Signer.sign, as AuthorizationIssuer promises it.  Two attempts share
\* a nonce when the server sent it or when the payment is retried with it.
SignAttempt(c) ==
  /\ stage[c] = "idle"
  /\ Enter(c, "signed")
  /\ \E n \in Nonces, deadline \in (now + 1) .. (now + Window) :
       auth' = [auth EXCEPT ![c] = [nonce |-> n, valid_before |-> deadline]]
  /\ UNCHANGED <<cacheVars, submitted, settled>>

\* cache.record(authorization.nonce, ttl)
RecordAttempt(c) ==
  /\ stage[c] = "signed"
  /\ Enter(c, "asking")
  /\ record(c, auth[c].nonce, IF RecordsWindow THEN auth[c].valid_before - now ELSE None)
  /\ UNCHANGED <<auth, submitted, settled>>

\* Mutant: what record returned is not looked at.
SubmitAnyway(c) ==
  /\ stage[c] = "asking"
  /\ pc[c] = "returned"
  /\ Enter(c, "submitted")
  /\ submitted' = [submitted EXCEPT ![c] = now]
  /\ UNCHANGED <<cacheVars, auth, settled>>

Submit(c) ==
  /\ stage[c] = "asking"
  /\ pc[c] = "returned"
  /\ result[c].value
  /\ Enter(c, "submitted")
  /\ submitted' = [submitted EXCEPT ![c] = now]
  /\ UNCHANGED <<cacheVars, auth, settled>>

\* A duplicate, or Redis could not be asked: the payment is aborted.
Abort(c) ==
  /\ stage[c] = "asking"
  /\ pc[c] = "raised" \/ (pc[c] = "returned" /\ ~result[c].value)
  /\ Enter(c, "dropped")
  /\ UNCHANGED <<cacheVars, auth, submitted, settled>>

Usable(c) == submitted[c] # None /\ now < auth[c].valid_before

\* The contract's authorizationState: nonces that a transfer has used.
UsedOnChain == {BytesOf[auth[c].nonce] : c \in settled}

\* transferWithAuthorization: in time, and the nonce is unused.
Settle(c) ==
  /\ Usable(c)
  /\ BytesOf[auth[c].nonce] \notin UsedOnChain
  /\ settled' = settled \cup {c}
  /\ UNCHANGED <<cacheVars, stage, auth, submitted>>

CacheStep ==
  /\ \/ CacheTick
     \/ \E c \in Calls : Receive(c) \/ Disconnect(c)
     \/ \E c \in Calls, n \in 1 .. Resends + 1 : <<c, n>> \in net /\ Execute(c, n)
  /\ UNCHANGED flowVars

FlowNext ==
  \/ CacheStep
  \/ \E c \in Calls :
       SignAttempt(c) \/ RecordAttempt(c) \/ Submit(c) \/ Abort(c) \/ Settle(c)

FlowSpec == FlowInit /\ [][FlowNext]_vars

-----------------------------------------------------------------------------
(***************************************************************************)
(* Properties.                                                             *)
(***************************************************************************)
FlowTypeOK ==
  /\ CacheTypeOK
  /\ stage \in [Calls -> Stages]
  /\ auth \in [Calls -> Authz \cup {None}]
  /\ submitted \in [Calls -> (0 .. Horizon) \cup {None}]
  /\ settled \subseteq Calls
  /\ \A c \in Calls : stage[c] # "idle" => auth[c] \in Authz
  /\ \A c \in Calls : stage[c] \in {"idle", "signed"} <=> pc[c] = "idle"

\* "A nonce must be used at most once within its valid_before window"
\* (redis_nonce_cache.py:6-7): whatever instances crash and whatever commands
\* and replies are lost, late or repeated, two authorizations with the same
\* nonce text are never both out and usable.  The text is what the cache knows
\* (redis_nonce_cache.py:108); two spellings of the same bytes are two nonces
\* to it.
UsedOnceInWindow ==
  \A c, d \in Calls : c # d /\ Usable(c) /\ Usable(d) => auth[c].nonce # auth[d].nonce

\* While a submitted authorization is usable Redis knows its nonce, so an
\* instance that asks is told (redis_nonce_cache.py:13-16, 113-121).
WindowGuarded == \A c \in Calls : Usable(c) => Live(auth[c].nonce)

\* The instances, Redis and the chain together keep one ledger of nonces: what
\* leaves any of them is entered there, once per text while it can be used, and
\* a transfer is of what was entered, once per 32 bytes
\* (redis_nonce_cache.py:6-23).
Released == {c \in Calls : submitted[c] # None}

Ledger == INSTANCE NonceLedger WITH
  Attempts <- Calls,
  Deadlines <- 1 .. Horizon + Window,
  out <- {[attempt |-> c, nonce |-> auth[c].nonce, until |-> auth[c].valid_before] :
            c \in Released},
  spent <- UsedOnChain

ImplementsLedger == Ledger!Spec
=============================================================================
