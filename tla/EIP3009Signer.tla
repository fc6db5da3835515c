---------------------------- MODULE EIP3009Signer ----------------------------
(***************************************************************************)
(* conway_sdk/payment/eip3009.py: one process that signs EIP-3009          *)
(* authorizations.  Every element of Calls is one invocation of            *)
(* EIP3009Signer.sign (from a thread of its own) or sign_async (a task on  *)
(* the event loop, whose signing runs on the default executor).            *)
(*                                                                         *)
(* A call is cut where another thread or task can run: between             *)
(* _build_payload and the end of the wallet's signing, and, for            *)
(* sign_async, between that and the resumption of the coroutine.           *)
(* PaymentRequirements objects are shared and mutable, and _assemble reads *)
(* them a second time; the clock is read in _build_payload and again by    *)
(* PaymentAuthorization's validators.  The reads in _build_payload are one *)
(* step (see README.md, section 5).                                        *)
(***************************************************************************)
EXTENDS Integers, Sequences, FiniteSets

CONSTANTS
  Calls,        \* invocations of sign / sign_async
  Reqs,         \* PaymentRequirements objects
  Wallets,      \* wallets, each with a fixed address
  KmsWallets,   \* those that are a plain KMSWallet
  Terms,        \* pay_to, amount, chain_id and verifying_contract, as one value
  Unsignable,   \* terms eth-account cannot encode (a uint256 out of range)
  Deadlines,    \* valid_before values a server may send
  Nonces,       \* nonce texts
  Empty,        \* the empty text, which an override may be
  BadShape,     \* those that are not "0x" and 64 more characters
  NotHex,       \* of the others, those that bytes.fromhex rejects
  Bytes32,      \* nonces as the contract compares them
  BytesOf,      \* [Nonces -> Bytes32]; two texts may stand for the same bytes
  Generated,    \* [Calls -> Nonces], the draw of generate_nonce in a call
  TimeoutOf,    \* [Calls -> SdkConfig.payment_timeout_seconds of the call's signer]
  MaxWindow,    \* SdkConfig.max_authorization_window_seconds
  Workers,      \* threads of the default executor
  Horizon,      \* bound on the clock
  None

\* eip3009.py: _SAFETY_BUFFER_SECONDS
SafetyBuffer == 5

ASSUME SignerAssumption ==
  /\ KmsWallets \subseteq Wallets
  /\ Unsignable \subseteq Terms
  /\ Deadlines \subseteq Int
  /\ None \notin Deadlines \cup Nonces
  /\ Empty \notin Nonces
  /\ BadShape \subseteq Nonces
  /\ NotHex \subseteq Nonces
  /\ BytesOf \in [Nonces -> Bytes32]
  /\ Generated \in [Calls -> Nonces \ (BadShape \cup NotHex)]
  /\ TimeoutOf \in [Calls -> Nat \ {0}]   \* SdkConfig.__post_init__
  /\ MaxWindow \in Nat \ {0}             \* SdkConfig.__post_init__
  /\ Workers \in Nat \ {0}
  /\ Horizon \in Nat

VARIABLES
  now,      \* int(time.time())
  reqs,     \* the PaymentRequirements objects
  pc,       \* where each call is
  job,      \* the local variables of a call, set by _build_payload
  queue,    \* work queue of the executor
  signed,   \* the message each call's wallet signed
  auth,     \* the PaymentAuthorization a call returned
  error,    \* why and when a call raised
  edited    \* history: calls whose requirements changed between the two reads

vars == <<now, reqs, pc, job, queue, signed, auth, error, edited>>

\* A nonce text that passes PaymentRequirements.validate_nonce_format.
ShapedNonces == Nonces \ BadShape

Requirement ==
  [terms : Terms, valid_before : Deadlines \cup {None}, nonce : ShapedNonces \cup {None}]

\* What a caller may pass as override_nonce.
Overrides == Nonces \cup {None, Empty}

Message == [from : Wallets, terms : Terms, valid_before : Int, nonce : Bytes32]

Meta == [nonce : Nonces, valid_before : Int]

Job == [req : Reqs, mode : {"sync", "async"}, server : Deadlines \cup {None},
        built_at : Int, payload : Message, meta : Meta]

Authorization ==
  [from : Wallets, terms : Terms, valid_before : Int, nonce : Nonces,
   signed_at : Int, signature : Message]

Busy == {c \in Calls : pc[c] \in {"running", "orphaned"}}
InFlight == {"queued", "running", "inline", "signed"}
Ended == {"returned", "raised", "cancelled"}
Reasons == {"WindowTooLong", "AlreadyPast", "BadShape", "NotHex", "NotImplemented",
            "WalletError", "Expired"}

Init ==
  /\ now = 0
  /\ reqs \in [Reqs -> Requirement]
  /\ pc = [c \in Calls |-> "idle"]
  /\ job = [c \in Calls |-> None]
  /\ queue = <<>>
  /\ signed = [c \in Calls |-> None]
  /\ auth = [c \in Calls |-> None]
  /\ error = [c \in Calls |-> None]
  /\ edited = {}

Goto(c, label) == pc' = [pc EXCEPT ![c] = label]

Raise(c, why) ==
  /\ Goto(c, "raised")
  /\ error' = [error EXCEPT ![c] = [why |-> why, at |-> now]]

-----------------------------------------------------------------------------
(***************************************************************************)
(* _build_payload and the call of the wallet that follows it.              *)
(***************************************************************************)
\* Mutant: the server's window may exceed the configured one by the buffer.
LenientWindow(q) == q.valid_before # None /\ q.valid_before - now > MaxWindow + SafetyBuffer

WindowTooLong(q) == q.valid_before # None /\ q.valid_before - now > MaxWindow

\* Mutant: the buffer is subtracted a second time.
TwiceBufferedDeadline(c) == now + TimeoutOf[c] - 2 * SafetyBuffer

\* A timeout of at most SafetyBuffer gives a deadline that is already past.
OwnDeadline(c) == now + TimeoutOf[c] - SafetyBuffer

Deadline(c, q) == IF q.valid_before # None THEN q.valid_before ELSE OwnDeadline(c)

\* override_nonce or requirements.nonce or generate_nonce(): an override that
\* is empty counts as none.
EffectiveNonce(c, q, override) ==
  IF override \notin {None, Empty} THEN override
  ELSE IF q.nonce # None THEN q.nonce ELSE Generated[c]

\* Mutant: _build_payload hands on the override, not the nonce it resolved.
LocalsWithOverride(c, r, w, mode, override) ==
  LET q == reqs[r]
  IN  [req |-> r, mode |-> mode, server |-> q.valid_before, built_at |-> now,
       payload |-> [from |-> w, terms |-> q.terms, valid_before |-> Deadline(c, q),
                    nonce |-> BytesOf[EffectiveNonce(c, q, override)]],
       meta |-> [nonce |-> override, valid_before |-> Deadline(c, q)]]

LocalsOf(c, r, w, mode, override) ==
  LET q == reqs[r]
      n == EffectiveNonce(c, q, override)
  IN  [req |-> r, mode |-> mode, server |-> q.valid_before, built_at |-> now,
       payload |-> [from |-> w, terms |-> q.terms, valid_before |-> Deadline(c, q),
                    nonce |-> BytesOf[n]],
       meta |-> [nonce |-> n, valid_before |-> Deadline(c, q)]]

\* wallet.sign_typed_data runs in the calling thread,
\* LocalWallet.sign_typed_data_async goes through run_in_executor.
CallWallet(c, mode) ==
  IF mode = "sync" THEN Goto(c, "inline") /\ UNCHANGED queue
                   ELSE Goto(c, "queued") /\ queue' = Append(queue, c)

BuildPayload(c, r, w, mode, override) ==
  LET q == reqs[r]
      n == EffectiveNonce(c, q, override)
      inWindow == ~WindowTooLong(q) /\ Deadline(c, q) > now
      nonceOk == n \notin BadShape \cup NotHex
  IN
  /\ pc[c] = "idle"
  /\ job' = [job EXCEPT ![c] = LocalsOf(c, r, w, mode, override)]
  /\ \/ WindowTooLong(q) /\ Raise(c, "WindowTooLong") /\ UNCHANGED queue
     \/ ~WindowTooLong(q) /\ Deadline(c, q) <= now /\ Raise(c, "AlreadyPast") /\ UNCHANGED queue
     \/ inWindow /\ n \in BadShape /\ Raise(c, "BadShape") /\ UNCHANGED queue
     \/ inWindow /\ n \in NotHex \ BadShape /\ Raise(c, "NotHex") /\ UNCHANGED queue
     \/ inWindow /\ nonceOk /\ w \in KmsWallets /\ Raise(c, "NotImplemented") /\ UNCHANGED queue
     \/ inWindow /\ nonceOk /\ w \notin KmsWallets /\ CallWallet(c, mode) /\ UNCHANGED error
  /\ UNCHANGED <<now, reqs, signed, auth, edited>>

-----------------------------------------------------------------------------
(***************************************************************************)
(* The executor and LocalWallet.sign_typed_data.                           *)
(***************************************************************************)
\* Mutant: a cancelled work item stays where it is.
DequeueLive ==
  /\ queue # <<>>
  /\ Cardinality(Busy) < Workers
  /\ pc[Head(queue)] = "queued"
  /\ queue' = Tail(queue)
  /\ Goto(Head(queue), "running")
  /\ UNCHANGED <<now, reqs, job, signed, auth, error, edited>>

\* A free thread takes the oldest work item; one whose future was cancelled
\* while it waited is dropped.
Dequeue ==
  /\ queue # <<>>
  /\ Cardinality(Busy) < Workers
  /\ queue' = Tail(queue)
  /\ pc' = [pc EXCEPT ![Head(queue)] = IF @ = "queued" THEN "running" ELSE @]
  /\ UNCHANGED <<now, reqs, job, signed, auth, error, edited>>

Sign(c) ==
  /\ pc[c] \in {"running", "inline"}
  /\ job[c].payload.terms \notin Unsignable
  /\ Goto(c, "signed")
  /\ signed' = [signed EXCEPT ![c] = job[c].payload]
  /\ UNCHANGED <<now, reqs, job, queue, auth, error, edited>>

\* eth-account refuses the payload: ConwayTypedDataError.
FailToSign(c) ==
  /\ pc[c] \in {"running", "inline"}
  /\ job[c].payload.terms \in Unsignable
  /\ Raise(c, "WalletError")
  /\ UNCHANGED <<now, reqs, job, queue, signed, auth, edited>>

\* The application cancels the task.  A thread that already signs goes on.
Cancel(c) ==
  /\ pc[c] \in InFlight
  /\ job[c].mode = "async"
  /\ Goto(c, IF pc[c] = "running" THEN "orphaned" ELSE "cancelled")
  /\ UNCHANGED <<now, reqs, job, queue, signed, auth, error, edited>>

\* Mutant: the coroutine resumes with the signature although it was cancelled.
ResumeOrphan(c) ==
  /\ pc[c] = "orphaned"
  /\ Goto(c, "signed")
  /\ signed' = [signed EXCEPT ![c] = job[c].payload]
  /\ UNCHANGED <<now, reqs, job, queue, auth, error, edited>>

\* The thread of a cancelled task finishes, with a signature or an exception
\* that nobody receives.
FinishOrphan(c) ==
  /\ pc[c] = "orphaned"
  /\ Goto(c, "cancelled")
  /\ signed' = IF job[c].payload.terms \in Unsignable THEN signed
               ELSE [signed EXCEPT ![c] = job[c].payload]
  /\ UNCHANGED <<now, reqs, job, queue, auth, error, edited>>

-----------------------------------------------------------------------------
(***************************************************************************)
(* _assemble and the validators of PaymentAuthorization.                   *)
(***************************************************************************)
\* Mutant: the deadline is read from the requirements a second time, too.
AssembledAnew(c) ==
  LET q == reqs[job[c].req]
  IN  [from |-> job[c].payload.from, terms |-> q.terms,
       valid_before |-> IF q.valid_before # None THEN q.valid_before
                        ELSE job[c].meta.valid_before,
       nonce |-> job[c].meta.nonce, signed_at |-> now, signature |-> signed[c]]

AssembledFrom(c) ==
  [from |-> job[c].payload.from, terms |-> reqs[job[c].req].terms,
   valid_before |-> job[c].meta.valid_before, nonce |-> job[c].meta.nonce,
   signed_at |-> now, signature |-> signed[c]]

\* Mutant: without validate_not_already_expired.
WellTimed(a) == a.valid_before > 0

\* validate_timing (valid_after is 0) and validate_not_already_expired
Constructible(a) == a.valid_before > 0 /\ a.valid_before > now

Assemble(c) ==
  /\ pc[c] = "signed"
  /\ \/ /\ Constructible(AssembledFrom(c))
        /\ auth' = [auth EXCEPT ![c] = AssembledFrom(c)]
        /\ Goto(c, "returned")
        /\ UNCHANGED error
     \/ /\ ~Constructible(AssembledFrom(c))
        /\ Raise(c, "Expired")
        /\ UNCHANGED auth
  /\ UNCHANGED <<now, reqs, job, queue, signed, edited>>

-----------------------------------------------------------------------------
\* The application assigns to the fields of a requirements object, which
\* pydantic allows, also while calls that hold it are in flight.
EditRequirements(r) ==
  /\ \E q \in Requirement \ {reqs[r]} : reqs' = [reqs EXCEPT ![r] = q]
  /\ edited' = edited \cup {c \in Calls : pc[c] \in InFlight /\ job[c].req = r}
  /\ UNCHANGED <<now, pc, job, queue, signed, auth, error>>

Tick ==
  /\ now < Horizon
  /\ now' = now + 1
  /\ UNCHANGED <<reqs, pc, job, queue, signed, auth, error, edited>>

Next ==
  \/ Tick
  \/ Dequeue
  \/ \E r \in Reqs : EditRequirements(r)
  \/ \E c \in Calls :
       \/ \E r \in Reqs, w \in Wallets, mode \in {"sync", "async"}, override \in Overrides :
            BuildPayload(c, r, w, mode, override)
       \/ Sign(c) \/ FailToSign(c) \/ Cancel(c) \/ FinishOrphan(c) \/ Assemble(c)

\* Signing is CPU-bound work that ends, threads of the pool keep taking work,
\* and the event loop resumes a coroutine whose result is there.
Fairness ==
  /\ WF_vars(Dequeue)
  /\ \A c \in Calls : WF_vars(Sign(c) \/ FailToSign(c)) /\ WF_vars(FinishOrphan(c)) /\ WF_vars(Assemble(c))

Spec == Init /\ [][Next]_vars
FairSpec == Spec /\ Fairness

-----------------------------------------------------------------------------
(***************************************************************************)
(* Properties.                                                             *)
(***************************************************************************)
\* Every variable has its type; a call past _build_payload has its locals and
\* a call whose wallet has signed has a signature.
TypeOK ==
  /\ now \in 0 .. Horizon
  /\ reqs \in [Reqs -> Requirement]
  /\ pc \in [Calls -> {"idle", "orphaned"} \cup InFlight \cup Ended]
  /\ job \in [Calls -> Job \cup {None}]
  /\ queue \in Seq(Calls)
  /\ signed \in [Calls -> Message \cup {None}]
  /\ auth \in [Calls -> Authorization \cup {None}]
  /\ error \in [Calls -> [why : Reasons, at : 0 .. Horizon] \cup {None}]
  /\ edited \subseteq Calls
  /\ \A c \in Calls : pc[c] # "idle" => job[c] \in Job
  /\ \A c \in Calls : pc[c] = "signed" => signed[c] \in Message

\* The signature in an authorization is over the payer, the deadline and the
\* nonce the authorization states, however calls, threads and edits of the
\* requirements interleave; and over its terms unless the application rewrote
\* the requirements while the call was in flight (eip3009.py:210-229, 304-321).
Covered(c) == auth[c] # None =>
  /\ auth[c].signature.from = auth[c].from
  /\ auth[c].signature.valid_before = auth[c].valid_before
  /\ auth[c].signature.nonce = BytesOf[auth[c].nonce]
  /\ auth[c].signature.terms = auth[c].terms \/ c \in edited

SignatureCoversAuthorization == \A c \in Calls : Covered(c)

\* An authorization is alive when it is handed over, and it expires within the
\* window that the configuration grants to whoever chose the deadline, counted
\* from the moment the payload was built: the server's deadline is used as it
\* is, the own one is TimeoutOf - SafetyBuffer away (eip3009.py:241-269,
\* models.py:275-284).
Granted(c, j, deadline) ==
  IF j.server # None
  THEN deadline = j.server /\ deadline - j.built_at <= MaxWindow
  ELSE deadline = j.built_at + TimeoutOf[c] - SafetyBuffer

Timely(c) == auth[c] # None =>
  /\ auth[c].signed_at < auth[c].valid_before
  /\ Granted(c, job[c], auth[c].valid_before)

IssuedWithinWindow == \A c \in Calls : Timely(c)

\* A call that sets its own deadline fails on time only when its signing took
\* all of TimeoutOf - SafetyBuffer seconds, none when the timeout is no longer than
\* the buffer (eip3009.py:260-269, models.py:279).
Unhurried(c) ==
  error[c] # None /\ error[c].why \in {"AlreadyPast", "Expired"} /\ job[c].server = None =>
    error[c].at - job[c].built_at >= TimeoutOf[c] - SafetyBuffer

OwnWindowHonoured == \A c \in Calls : Unhurried(c)

\* What a call has ended with stays; a cancelled call never hands over an
\* authorization, though its thread goes on to sign (local.py:175-176).
OutcomesAreFinal ==
  [][\A c \in Calls :
       /\ pc[c] \in Ended => pc'[c] = pc[c] /\ auth'[c] = auth[c] /\ error'[c] = error[c]
       /\ pc[c] = "orphaned" => pc'[c] \in {"orphaned", "cancelled"} /\ auth'[c] = None]_vars

\* Every call that got past _build_payload ends and gives its thread back,
\* cancelled ones included, however many calls wait for a worker.
CallsEnd ==
  \A c \in Calls : pc[c] \in InFlight \cup {"orphaned"} ~> pc[c] \in Ended

-----------------------------------------------------------------------------
(***************************************************************************)
(* What the documentation says of the signer and the code does not do.     *)
(***************************************************************************)
\* "A fully signed EIP-3009 transferWithAuthorization ready for submission"
\* (models.py:226): the terms that go out are the terms that were signed.
\* sign_async reads them before its await and again after it.
FullySigned ==
  \A c \in Calls : auth[c] # None /\ job[c].mode = "async" =>
                    auth[c].signature.terms = auth[c].terms

-----------------------------------------------------------------------------
(***************************************************************************)
(* The signer implements the abstract issuer: a call is open from the      *)
(* moment its payload is built, and a cancelled call has failed even while *)
(* its thread is still signing.                                            *)
(***************************************************************************)
StatusOf(label) ==
  CASE label = "idle" -> "idle"
    [] label \in InFlight -> "open"
    [] label = "returned" -> "issued"
    [] OTHER -> "failed"

Issuer == INSTANCE AuthorizationIssuer WITH
  status <- [c \in Calls |-> StatusOf(pc[c])],
  LongestWindow <- [c \in Calls |-> IF TimeoutOf[c] - SafetyBuffer > MaxWindow
                                     THEN TimeoutOf[c] - SafetyBuffer ELSE MaxWindow]

\* Each call of sign or sign_async is decided exactly once, by an error or by
\* one authorization within the longest window (EIP3009Signer.sign's contract).
ImplementsIssuer == Issuer!Spec
=============================================================================
