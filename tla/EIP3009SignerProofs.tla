------------------------ MODULE EIP3009SignerProofs ------------------------
(***************************************************************************)
(* Proofs about EIP3009Signer, for every set of calls, requirement         *)
(* objects, wallets, terms, deadlines and nonces, every timeout, window    *)
(* and pool size, and every horizon of the clock.                          *)
(***************************************************************************)
EXTENDS EIP3009Signer, TLAPS

-----------------------------------------------------------------------------
(***************************************************************************)
(* Types.                                                                  *)
(***************************************************************************)
\* _build_payload resolves the deadline and the nonce to values of their types
\* whatever the server sent, and the payload carries the bytes of the nonce
\* that the meta data name (eip3009.py:241-301).
LEMMA LocalsOfBuild ==
  ASSUME TypeOK, NEW c \in Calls, NEW r \in Reqs, NEW w \in Wallets,
         NEW mode \in {"sync", "async"}, NEW override \in Overrides
  PROVE  LET j == LocalsOf(c, r, w, mode, override)
         IN  /\ j \in Job
             /\ j.req = r
             /\ j.server = reqs[r].valid_before
             /\ j.built_at = now
             /\ j.payload.terms = reqs[r].terms
             /\ j.payload.nonce = BytesOf[j.meta.nonce]
             /\ j.payload.valid_before = Deadline(c, reqs[r])
             /\ j.meta.valid_before = Deadline(c, reqs[r])
<1> DEFINE q == reqs[r]
           n == EffectiveNonce(c, q, override)
<1>1. /\ q.terms \in Terms
      /\ q.valid_before \in Deadlines \cup {None}
      /\ q.nonce \in Nonces \cup {None}
  BY DEF TypeOK, Requirement, ShapedNonces
<1>2. now \in Int /\ TimeoutOf[c] \in Int
  BY SignerAssumption DEF TypeOK
<1>3. OwnDeadline(c) \in Int
  BY <1>2 DEF OwnDeadline, SafetyBuffer
<1> HIDE DEF q
<1>4. Deadline(c, q) \in Int
  BY <1>1, <1>3, SignerAssumption DEF Deadline
<1>5. n \in Nonces
  BY <1>1, SignerAssumption DEF EffectiveNonce, Overrides
<1>6. BytesOf[n] \in Bytes32
  BY <1>5, SignerAssumption
<1> HIDE DEF n
<1> DEFINE j == [req |-> r, mode |-> mode, server |-> q.valid_before, built_at |-> now,
                 payload |-> [from |-> w, terms |-> q.terms, valid_before |-> Deadline(c, q),
                              nonce |-> BytesOf[n]],
                 meta |-> [nonce |-> n, valid_before |-> Deadline(c, q)]]
<1>7. LocalsOf(c, r, w, mode, override) = j
  BY DEF LocalsOf, q, n
<1>8. j \in Job
  BY <1>1, <1>2, <1>4, <1>5, <1>6 DEF Job, Message, Meta
<1>9. QED
  BY <1>7, <1>8 DEF q

\* What _assemble puts together is an authorization (eip3009.py:304-321).
LEMMA AssembledType ==
  ASSUME TypeOK, NEW c \in Calls, pc[c] = "signed"
  PROVE  AssembledFrom(c) \in Authorization
<1>1. job[c] \in Job /\ signed[c] \in Message /\ now \in Int
  BY DEF TypeOK, InFlight, Ended
<1>2. job[c].req \in Reqs
  BY <1>1 DEF Job
<1>3. reqs[job[c].req].terms \in Terms
  BY <1>2 DEF TypeOK, Requirement
<1>4. job[c].payload \in Message /\ job[c].meta \in Meta
  BY <1>1 DEF Job
<1>5. QED
  BY <1>1, <1>3, <1>4 DEF AssembledFrom, Authorization, Message, Meta

\* TypeOK holds in every reachable state of the signer.
THEOREM TypeCorrect == Spec => []TypeOK
<1> USE DEF Goto, Raise, InFlight, Ended, Reasons
<1>1. Init => TypeOK
  BY SignerAssumption DEF Init, TypeOK
<1>2. TypeOK /\ [Next]_vars => TypeOK'
  <2> SUFFICES ASSUME TypeOK, [Next]_vars PROVE TypeOK'
    OBVIOUS
  <2> USE SignerAssumption DEF TypeOK
  <2>1. CASE Tick
    BY <2>1 DEF Tick
  <2>2. CASE Dequeue
    <3>1. Head(queue) \in Calls /\ Tail(queue) \in Seq(Calls)
      BY <2>2 DEF Dequeue
    <3>2. QED
      BY <2>2, <3>1 DEF Dequeue
  <2>3. ASSUME NEW r \in Reqs, EditRequirements(r) PROVE TypeOK'
    BY <2>3 DEF EditRequirements
  <2>4. ASSUME NEW c \in Calls, NEW r \in Reqs, NEW w \in Wallets,
               NEW mode \in {"sync", "async"}, NEW override \in Overrides,
               BuildPayload(c, r, w, mode, override)
        PROVE  TypeOK'
    <3>1. LocalsOf(c, r, w, mode, override) \in Job
      BY <2>4, LocalsOfBuild
    <3>2. /\ job' = [job EXCEPT ![c] = LocalsOf(c, r, w, mode, override)]
          /\ UNCHANGED <<now, reqs, signed, auth, edited>>
      BY <2>4 DEF BuildPayload
    <3>3. \/ \E why \in Reasons : Raise(c, why) /\ UNCHANGED queue
          \/ CallWallet(c, mode) /\ UNCHANGED error
      BY <2>4 DEF BuildPayload
    <3>4. CASE \E why \in Reasons : Raise(c, why) /\ UNCHANGED queue
      BY <3>1, <3>2, <3>4
    <3>5. CASE CallWallet(c, mode) /\ UNCHANGED error
      <4>1. CASE mode = "sync"
        BY <3>1, <3>2, <3>5, <4>1 DEF CallWallet
      <4>2. CASE mode = "async"
        <5>1. queue' = Append(queue, c) /\ pc' = [pc EXCEPT ![c] = "queued"] /\ error' = error
          BY <3>5, <4>2 DEF CallWallet
        <5>2. queue' \in Seq(Calls)
          BY <5>1
        <5>3. QED
          BY <3>1, <3>2, <5>1, <5>2
      <4>3. QED
        BY <4>1, <4>2
    <3>6. QED
      BY <3>3, <3>4, <3>5
  <2>5. ASSUME NEW c \in Calls, Sign(c) PROVE TypeOK'
    BY <2>5 DEF Sign, Job
  <2>6. ASSUME NEW c \in Calls, FailToSign(c) PROVE TypeOK'
    BY <2>6 DEF FailToSign
  <2>7. ASSUME NEW c \in Calls, Cancel(c) PROVE TypeOK'
    BY <2>7 DEF Cancel
  <2>8. ASSUME NEW c \in Calls, FinishOrphan(c) PROVE TypeOK'
    BY <2>8 DEF FinishOrphan, Job
  <2>9. ASSUME NEW c \in Calls, Assemble(c) PROVE TypeOK'
    <3>1. AssembledFrom(c) \in Authorization
      BY <2>9, AssembledType DEF Assemble
    <3>2. CASE auth' = [auth EXCEPT ![c] = AssembledFrom(c)] /\ Goto(c, "returned") /\ UNCHANGED error
      BY <2>9, <3>1, <3>2 DEF Assemble
    <3>3. CASE Raise(c, "Expired") /\ UNCHANGED auth
      BY <2>9, <3>3 DEF Assemble
    <3>4. QED
      BY <2>9, <3>2, <3>3 DEF Assemble
  <2>10. CASE UNCHANGED vars
    BY <2>10 DEF vars
  <2>11. QED
    BY <2>1, <2>2, <2>3, <2>4, <2>5, <2>6, <2>7, <2>8, <2>9, <2>10 DEF Next
<1>3. QED
  BY <1>1, <1>2, PTL DEF Spec

-----------------------------------------------------------------------------
(***************************************************************************)
(* The inductive invariant.  An authorization is put together from three   *)
(* sources: the locals of _build_payload, the signature, and the           *)
(* requirements read again.  The invariant follows the locals through the  *)
(* thread pool, ties the signature to them, and says which outcomes a      *)
(* control point allows, so that what a call returned cannot change.       *)
(***************************************************************************)
Open(c) == pc[c] \in InFlight \cup {"orphaned"}

\* The payload in flight carries the deadline and the bytes of the nonce that
\* the meta data name, and the terms of its requirements unless these changed.
PayloadFaithful(c) == Open(c) =>
  /\ job[c].payload.valid_before = job[c].meta.valid_before
  /\ job[c].payload.nonce = BytesOf[job[c].meta.nonce]
  /\ pc[c] # "orphaned" =>
       job[c].payload.terms = reqs[job[c].req].terms \/ c \in edited

\* The deadline in flight is one that its chooser may choose.
DeadlineGranted(c) == Open(c) => Granted(c, job[c], job[c].meta.valid_before)

SignedPayload(c) == pc[c] = "signed" => signed[c] = job[c].payload

OutcomeOf(c) ==
  /\ auth[c] # None => pc[c] = "returned"
  /\ error[c] # None => pc[c] = "raised"

CallInv(c) ==
  /\ PayloadFaithful(c)
  /\ DeadlineGranted(c)
  /\ SignedPayload(c)
  /\ OutcomeOf(c)
  /\ Covered(c)
  /\ Timely(c)
  /\ Unhurried(c)

SignerInv == \A c \in Calls : CallInv(c)

\* A step that leaves alone what CallInv reads of a call preserves it.
LEMMA UntouchedCall ==
  ASSUME NEW c \in Calls, CallInv(c),
         pc'[c] = pc[c], job'[c] = job[c], signed'[c] = signed[c],
         auth'[c] = auth[c], error'[c] = error[c],
         reqs' = reqs, edited' = edited
  PROVE  CallInv(c)'
BY DEF CallInv, PayloadFaithful, DeadlineGranted, SignedPayload, OutcomeOf,
       Covered, Timely, Unhurried, Granted, Open, InFlight

\* _build_payload leaves a call that has just begun, or that it refused
\* because of its time, in the invariant.
LEMMA BuildPreserves ==
  ASSUME TypeOK, SignerInv, NEW c \in Calls, NEW r \in Reqs, NEW w \in Wallets,
         NEW mode \in {"sync", "async"}, NEW override \in Overrides,
         BuildPayload(c, r, w, mode, override)
  PROVE  CallInv(c)'
<1> DEFINE j == LocalsOf(c, r, w, mode, override)
           q == reqs[r]
<1>1. /\ pc[c] = "idle"
      /\ job' = [job EXCEPT ![c] = j]
      /\ UNCHANGED <<now, reqs, signed, auth, edited>>
  BY DEF BuildPayload
<1>2. /\ j \in Job
      /\ j.req = r
      /\ j.server = q.valid_before
      /\ j.built_at = now
      /\ j.payload.terms = q.terms
      /\ j.payload.nonce = BytesOf[j.meta.nonce]
      /\ j.payload.valid_before = Deadline(c, q)
      /\ j.meta.valid_before = Deadline(c, q)
  BY LocalsOfBuild
<1> HIDE DEF j
<1>3. auth[c] = None /\ error[c] = None
  BY <1>1 DEF SignerInv, CallInv, OutcomeOf
<1>4. /\ pc \in [Calls -> {"idle", "orphaned"} \cup InFlight \cup Ended]
      /\ job'[c] = j
      /\ error \in [Calls -> [why : Reasons, at : 0 .. Horizon] \cup {None}]
      /\ now \in Int /\ TimeoutOf[c] \in Int /\ MaxWindow \in Int
      /\ q.valid_before \in Deadlines \cup {None} /\ Deadlines \subseteq Int
  <2>1. q \in Requirement
    BY DEF TypeOK
  <2>2. job'[c] = j
    BY <1>1 DEF TypeOK
  <2>3. now \in Int /\ TimeoutOf[c] \in Int /\ MaxWindow \in Int /\ Deadlines \subseteq Int
    BY SignerAssumption DEF TypeOK
  <2>4. QED
    BY <2>1, <2>2, <2>3 DEF TypeOK, Requirement
<1>5. CASE ~WindowTooLong(q) /\ CallWallet(c, mode) /\ UNCHANGED error
  <2>1. pc'[c] \in {"inline", "queued"}
    BY <1>4, <1>5 DEF CallWallet, Goto
  <2>2. Granted(c, j, Deadline(c, q))
    <3>1. CASE q.valid_before = None
      BY <1>2, <1>4, <3>1 DEF Granted, Deadline, OwnDeadline, SafetyBuffer
    <3>2. CASE q.valid_before # None
      <4> HIDE DEF q
      <4>1. q.valid_before \in Int
        BY <1>4, <3>2
      <4>2. ~(q.valid_before - now > MaxWindow)
        BY <1>5, <3>2 DEF WindowTooLong
      <4>3. q.valid_before - now <= MaxWindow
        BY <1>4, <4>1, <4>2
      <4>4. QED
        BY <1>2, <1>4, <3>2, <4>1, <4>3 DEF Granted, Deadline
    <3>3. QED
      BY <3>1, <3>2
  <2>3. QED
    BY <1>1, <1>2, <1>3, <1>4, <1>5, <2>1, <2>2
       DEF CallInv, PayloadFaithful, DeadlineGranted, SignedPayload, OutcomeOf, Covered,
           Timely, Unhurried, Open
<1>6. ASSUME NEW why \in Reasons, Raise(c, why),
             why \in {"AlreadyPast", "Expired"} => Deadline(c, q) <= now
      PROVE  CallInv(c)'
  <2>1. pc'[c] = "raised" /\ error'[c] = [why |-> why, at |-> now]
    BY <1>4, <1>6 DEF Raise, Goto
  <2>2. Unhurried(c)'
    BY <1>2, <1>4, <1>6, <2>1 DEF Unhurried, Deadline, OwnDeadline, SafetyBuffer
  <2>3. QED
    BY <1>1, <1>3, <2>1, <2>2
       DEF CallInv, PayloadFaithful, DeadlineGranted, SignedPayload, OutcomeOf, Covered,
           Timely, Open, InFlight
<1>7. QED
  BY <1>5, <1>6 DEF BuildPayload, Reasons

\* _assemble states what was signed, and refuses only what is over.
LEMMA AssemblePreserves ==
  ASSUME TypeOK, SignerInv, NEW c \in Calls, Assemble(c)
  PROVE  CallInv(c)'
<1> DEFINE a == AssembledFrom(c)
           j == job[c]
<1>1. /\ pc[c] = "signed" /\ pc \in [Calls -> {"idle", "orphaned"} \cup InFlight \cup Ended]
      /\ auth \in [Calls -> Authorization \cup {None}]
      /\ error \in [Calls -> [why : Reasons, at : 0 .. Horizon] \cup {None}]
      /\ j \in Job /\ now \in Int /\ now >= 0 /\ TimeoutOf[c] \in Int
      /\ UNCHANGED <<now, reqs, job, signed, edited>>
  BY SignerAssumption DEF Assemble, TypeOK
<1>2. /\ a.from = j.payload.from
      /\ a.terms = reqs[j.req].terms
      /\ a.valid_before = j.meta.valid_before
      /\ a.nonce = j.meta.nonce
      /\ a.signed_at = now
      /\ a.signature = j.payload
  BY <1>1 DEF AssembledFrom, SignerInv, CallInv, SignedPayload
<1>3. /\ j.payload.valid_before = j.meta.valid_before
      /\ j.payload.nonce = BytesOf[j.meta.nonce]
      /\ j.payload.terms = reqs[j.req].terms \/ c \in edited
      /\ Granted(c, j, j.meta.valid_before)
      /\ auth[c] = None /\ error[c] = None
  BY <1>1 DEF SignerInv, CallInv, PayloadFaithful, DeadlineGranted, OutcomeOf, Open, InFlight
<1>4. j.meta.valid_before \in Int /\ j.built_at \in Int
  BY <1>1 DEF Job, Meta
<1> HIDE DEF a, j
<1>5. CASE Constructible(a) /\ auth' = [auth EXCEPT ![c] = a] /\ Goto(c, "returned") /\ error' = error
  <2>1. pc'[c] = "returned" /\ auth'[c] = a /\ job'[c] = j
    BY <1>1, <1>5 DEF Goto, j
  <2>2. now < a.valid_before
    BY <1>1, <1>2, <1>4, <1>5 DEF Constructible
  <2>3. Covered(c)' /\ Timely(c)'
    BY <1>1, <1>2, <1>3, <2>1, <2>2 DEF Covered, Timely, Granted
  <2>4. QED
    BY <1>3, <1>5, <2>1, <2>3
       DEF CallInv, PayloadFaithful, DeadlineGranted, SignedPayload, OutcomeOf, Unhurried,
           Open, InFlight
<1>6. CASE ~Constructible(a) /\ Raise(c, "Expired") /\ auth' = auth
  <2>1. pc'[c] = "raised" /\ error'[c] = [why |-> "Expired", at |-> now] /\ job'[c] = j
    BY <1>1, <1>6 DEF Raise, Goto, j
  <2>2. a.valid_before <= now
    BY <1>1, <1>2, <1>4, <1>6 DEF Constructible
  <2>3. Unhurried(c)'
    BY <1>1, <1>2, <1>3, <1>4, <2>1, <2>2 DEF Unhurried, Granted, SafetyBuffer
  <2>4. QED
    BY <1>3, <1>6, <2>1, <2>3
       DEF CallInv, PayloadFaithful, DeadlineGranted, SignedPayload, OutcomeOf, Covered,
           Timely, Open, InFlight
<1>7. QED
  BY <1>5, <1>6 DEF Assemble, a

\* Init and every step preserve the invariant.
LEMMA SignerInvInit == Init => SignerInv
BY DEF Init, SignerInv, CallInv, PayloadFaithful, DeadlineGranted, SignedPayload, OutcomeOf,
       Covered, Timely, Unhurried, Open, InFlight

LEMMA SignerInvStep == TypeOK /\ SignerInv /\ [Next]_vars => SignerInv'
<1> SUFFICES ASSUME TypeOK, SignerInv, [Next]_vars, NEW d \in Calls
             PROVE  CallInv(d)'
  BY DEF SignerInv
<1> USE DEF SignerInv
<1>1. ASSUME UNCHANGED <<reqs, edited>>, NEW c \in Calls, CallInv(c)',
             \A b \in Calls \ {c} : /\ pc'[b] = pc[b] /\ job'[b] = job[b]
                                    /\ signed'[b] = signed[b]
                                    /\ auth'[b] = auth[b] /\ error'[b] = error[b]
      PROVE  CallInv(d)'
  BY <1>1, UntouchedCall
<1>2. CASE Tick
  BY <1>2, UntouchedCall DEF Tick
<1>3. CASE UNCHANGED vars
  BY <1>3, UntouchedCall DEF vars
<1>4. CASE Dequeue
  <2>1. UNCHANGED <<now, reqs, job, signed, auth, error, edited>>
    BY <1>4 DEF Dequeue
  <2>2. pc'[d] = pc[d] \/ (pc[d] = "queued" /\ pc'[d] = "running")
    BY <1>4 DEF Dequeue, TypeOK
  <2>3. QED
    BY <2>1, <2>2, UntouchedCall
       DEF CallInv, PayloadFaithful, DeadlineGranted, SignedPayload, OutcomeOf, Covered,
           Timely, Unhurried, Granted, Open, InFlight
<1>5. ASSUME NEW r \in Reqs, EditRequirements(r) PROVE CallInv(d)'
  <2>1. /\ UNCHANGED <<now, pc, job, signed, auth, error>>
        /\ edited' = edited \cup {c \in Calls : pc[c] \in InFlight /\ job[c].req = r}
        /\ \A p \in Reqs \ {r} : reqs'[p] = reqs[p]
    BY <1>5 DEF EditRequirements, TypeOK
  <2>2. Open(d) /\ pc[d] # "orphaned" => job[d].req \in Reqs /\ pc[d] \in InFlight
    BY DEF Open, TypeOK, Job, InFlight
  <2>3. PayloadFaithful(d)'
    BY <2>1, <2>2 DEF CallInv, PayloadFaithful, Open
  <2>4. QED
    BY <2>1, <2>3
       DEF CallInv, DeadlineGranted, SignedPayload, OutcomeOf, Covered, Timely, Unhurried,
           Granted, Open
<1>6. ASSUME NEW c \in Calls, NEW r \in Reqs, NEW w \in Wallets,
             NEW mode \in {"sync", "async"}, NEW override \in Overrides,
             BuildPayload(c, r, w, mode, override)
      PROVE  CallInv(d)'
  <2>1. CallInv(c)'
    BY <1>6, BuildPreserves
  <2>2. \A b \in Calls \ {c} : /\ pc'[b] = pc[b] /\ job'[b] = job[b]
                               /\ error'[b] = error[b]
    BY <1>6 DEF BuildPayload, CallWallet, Raise, Goto, TypeOK
  <2>3. QED
    BY <1>1, <1>6, <2>1, <2>2 DEF BuildPayload
<1>7. ASSUME NEW c \in Calls, Sign(c) PROVE CallInv(d)'
  <2>1. CallInv(c)'
    BY <1>7 DEF Sign, Goto, TypeOK, CallInv, PayloadFaithful, DeadlineGranted, SignedPayload,
                OutcomeOf, Covered, Timely, Unhurried, Granted, Open, InFlight
  <2>2. QED
    BY <1>1, <1>7, <2>1 DEF Sign, Goto, TypeOK
<1>8. ASSUME NEW c \in Calls, FailToSign(c) PROVE CallInv(d)'
  <2>1. CallInv(c)'
    BY <1>8 DEF FailToSign, Raise, Goto, TypeOK, CallInv, PayloadFaithful, DeadlineGranted,
                SignedPayload, OutcomeOf, Covered, Timely, Unhurried, Granted, Open, InFlight
  <2>2. QED
    BY <1>1, <1>8, <2>1 DEF FailToSign, Raise, Goto, TypeOK
<1>9. ASSUME NEW c \in Calls, Cancel(c) PROVE CallInv(d)'
  <2>1. CallInv(c)'
    BY <1>9 DEF Cancel, Goto, TypeOK, CallInv, PayloadFaithful, DeadlineGranted,
                SignedPayload, OutcomeOf, Covered, Timely, Unhurried, Granted, Open, InFlight
  <2>2. QED
    BY <1>1, <1>9, <2>1 DEF Cancel, Goto, TypeOK
<1>10. ASSUME NEW c \in Calls, FinishOrphan(c) PROVE CallInv(d)'
  <2>1. CallInv(c)'
    BY <1>10 DEF FinishOrphan, Goto, TypeOK, CallInv, PayloadFaithful, DeadlineGranted,
                 SignedPayload, OutcomeOf, Covered, Timely, Unhurried, Granted, Open, InFlight
  <2>2. QED
    BY <1>1, <1>10, <2>1 DEF FinishOrphan, Goto, TypeOK
<1>11. ASSUME NEW c \in Calls, Assemble(c) PROVE CallInv(d)'
  <2>1. CallInv(c)'
    BY <1>11, AssemblePreserves
  <2>2. QED
    BY <1>1, <1>11, <2>1 DEF Assemble, Raise, Goto, TypeOK
<1>12. QED
  BY <1>2, <1>3, <1>4, <1>5, <1>6, <1>7, <1>8, <1>9, <1>10, <1>11 DEF Next

LEMMA SignerInvariant == Spec => []SignerInv
BY SignerInvInit, SignerInvStep, TypeCorrect, PTL DEF Spec

\* The signature in every authorization is over its payer, deadline and nonce,
\* and over its terms unless the requirements changed while the call was in
\* flight (eip3009.py:210-229, 304-321).
THEOREM SignatureCovers == Spec => []SignatureCoversAuthorization
<1>1. SignerInv => SignatureCoversAuthorization
  BY DEF SignerInv, CallInv, SignatureCoversAuthorization
<1>2. QED
  BY <1>1, SignerInvariant, PTL

\* Every authorization is alive when it is handed over and expires within the
\* window its chooser was granted (eip3009.py:241-269, models.py:275-284).
THEOREM WindowKept == Spec => []IssuedWithinWindow
<1>1. SignerInv => IssuedWithinWindow
  BY DEF SignerInv, CallInv, IssuedWithinWindow
<1>2. QED
  BY <1>1, SignerInvariant, PTL

\* A call with a deadline of its own fails on time only when signing took the
\* whole window (eip3009.py:260-269, models.py:279).
THEOREM OwnWindowKept == Spec => []OwnWindowHonoured
<1>1. SignerInv => OwnWindowHonoured
  BY DEF SignerInv, CallInv, OwnWindowHonoured
<1>2. QED
  BY <1>1, SignerInvariant, PTL

-----------------------------------------------------------------------------
(***************************************************************************)
(* Step properties.                                                        *)
(***************************************************************************)
\* What a call ended with stays, and a cancelled call never hands over an
\* authorization though its thread signs on (local.py:175-176).
THEOREM OutcomesStay == Spec => OutcomesAreFinal
<1> DEFINE Final(c) ==
      /\ pc[c] \in Ended => pc'[c] = pc[c] /\ auth'[c] = auth[c] /\ error'[c] = error[c]
      /\ pc[c] = "orphaned" => pc'[c] \in {"orphaned", "cancelled"} /\ auth'[c] = None
<1>1. TypeOK /\ SignerInv /\ [Next]_vars => [\A c \in Calls : Final(c)]_vars
  <2> SUFFICES ASSUME TypeOK, SignerInv, Next, NEW d \in Calls PROVE Final(d)
    OBVIOUS
  <2>1. auth[d] # None => pc[d] = "returned"
    BY DEF SignerInv, CallInv, OutcomeOf
  <2> USE DEF TypeOK, InFlight, Ended, Goto, Raise
  <2>2. CASE Tick \/ Dequeue \/ \E r \in Reqs : EditRequirements(r)
    BY <2>1, <2>2 DEF Tick, Dequeue, EditRequirements
  <2>3. ASSUME NEW c \in Calls, NEW r \in Reqs, NEW w \in Wallets,
               NEW mode \in {"sync", "async"}, NEW override \in Overrides,
               BuildPayload(c, r, w, mode, override)
        PROVE  Final(d)
    BY <2>1, <2>3 DEF BuildPayload, CallWallet
  <2>4. ASSUME NEW c \in Calls, Sign(c) \/ FailToSign(c) \/ Cancel(c) \/ FinishOrphan(c)
        PROVE  Final(d)
    BY <2>1, <2>4 DEF Sign, FailToSign, Cancel, FinishOrphan
  <2>5. ASSUME NEW c \in Calls, Assemble(c) PROVE Final(d)
    BY <2>1, <2>5 DEF Assemble
  <2>6. QED
    BY <2>2, <2>3, <2>4, <2>5 DEF Next
<1>2. QED
  BY <1>1, TypeCorrect, SignerInvariant, PTL DEF Spec, OutcomesAreFinal

-----------------------------------------------------------------------------
(***************************************************************************)
(* The safety part of the refinement: initial states map to initial states *)
(* and every step of the signer is a step of the abstract issuer or leaves *)
(* its variables alone.                                                    *)
(***************************************************************************)
LEMMA StatusOfLabel ==
  ASSUME NEW label \in {"idle", "orphaned"} \cup InFlight \cup Ended
  PROVE  /\ label = "idle" => StatusOf(label) = "idle"
         /\ label \in InFlight => StatusOf(label) = "open"
         /\ label = "returned" => StatusOf(label) = "issued"
         /\ label \in {"raised", "cancelled", "orphaned"} => StatusOf(label) = "failed"
<1> USE DEF InFlight, Ended
<1>1. CASE label = "idle"
  BY <1>1 DEF StatusOf
<1>2. CASE label \in InFlight
  BY <1>2 DEF StatusOf
<1>3. CASE label = "returned"
  BY <1>3 DEF StatusOf
<1>4. CASE label \in {"raised", "cancelled", "orphaned"}
  BY <1>4 DEF StatusOf
<1>5. QED
  BY <1>1, <1>2, <1>3, <1>4

LEMMA InitRefines == Init => Issuer!Init
<1> SUFFICES ASSUME Init PROVE Issuer!Init
  OBVIOUS
<1>1. \A c \in Calls : StatusOf(pc[c]) = "idle"
  BY StatusOfLabel DEF Init
<1>2. QED
  BY <1>1 DEF Init, Issuer!Init

\* A step that moves one call to another label moves its status with it.
LEMMA StatusMoves ==
  ASSUME TypeOK, TypeOK', NEW c \in Calls, NEW label \in {"idle", "orphaned"} \cup InFlight \cup Ended,
         Goto(c, label)
  PROVE  [d \in Calls |-> StatusOf(pc[d])]' =
         [[d \in Calls |-> StatusOf(pc[d])] EXCEPT ![c] = StatusOf(label)]
BY DEF TypeOK, Goto

\* The payload of a call was built at some time in the past.
BuiltInv == \A c \in Calls : pc[c] # "idle" => job[c].built_at \in 0 .. now

LEMMA BuiltInvariant == Spec => []BuiltInv
<1>1. Init => BuiltInv
  BY DEF Init, BuiltInv
<1>2. TypeOK /\ BuiltInv /\ [Next]_vars => BuiltInv'
  <2> SUFFICES ASSUME TypeOK, BuiltInv, [Next]_vars, NEW d \in Calls, pc'[d] # "idle"
               PROVE  job'[d].built_at \in 0 .. now'
    BY DEF BuiltInv
  <2> USE DEF BuiltInv, TypeOK, Goto, Raise
  <2>1. ASSUME job'[d] = job[d], pc[d] # "idle", now' \in {now, now + 1}
        PROVE  job'[d].built_at \in 0 .. now'
    BY <2>1
  <2>2. ASSUME NEW c \in Calls, NEW r \in Reqs, NEW w \in Wallets,
               NEW mode \in {"sync", "async"}, NEW override \in Overrides,
               BuildPayload(c, r, w, mode, override)
        PROVE  job'[d].built_at \in 0 .. now'
    <3>1. LocalsOf(c, r, w, mode, override).built_at = now
      BY LocalsOfBuild
    <3>2. /\ job' = [job EXCEPT ![c] = LocalsOf(c, r, w, mode, override)]
          /\ now' = now
          /\ d # c => pc'[d] = pc[d]
      BY <2>2 DEF BuildPayload, CallWallet
    <3>3. QED
      BY <2>1, <3>1, <3>2
  <2>3. ASSUME NEW c \in Calls, Sign(c) \/ FailToSign(c) \/ Cancel(c) \/ FinishOrphan(c) \/ Assemble(c)
        PROVE  job'[d].built_at \in 0 .. now'
    BY <2>1, <2>3 DEF Sign, FailToSign, Cancel, FinishOrphan, Assemble, InFlight
  <2>4. CASE Tick \/ Dequeue \/ (\E r \in Reqs : EditRequirements(r)) \/ UNCHANGED vars
    BY <2>1, <2>4 DEF Tick, Dequeue, EditRequirements, vars
  <2>5. QED
    BY <2>2, <2>3, <2>4 DEF Next
<1>3. QED
  BY <1>1, <1>2, TypeCorrect, PTL DEF Spec

LEMMA AssembleRefines ==
  ASSUME TypeOK, TypeOK', SignerInv, BuiltInv, NEW c \in Calls, Assemble(c)
  PROVE  Issuer!Issue(c) \/ Issuer!Fail(c)
<1>1. /\ StatusOf(pc[c]) = "open"
      /\ now' = now
  BY StatusOfLabel DEF Assemble, TypeOK, InFlight
<1>2. CASE Raise(c, "Expired") /\ auth' = auth
  <2>1. StatusOf("raised") = "failed"
    BY StatusOfLabel DEF Ended
  <2>2. QED
    BY <1>1, <1>2, <2>1, StatusMoves DEF Raise, Issuer!Fail, Ended
<1>3. CASE /\ Constructible(AssembledFrom(c))
           /\ auth' = [auth EXCEPT ![c] = AssembledFrom(c)]
           /\ Goto(c, "returned")
  <2>1. StatusOf("returned") = "issued"
    BY StatusOfLabel DEF Ended
  <2> DEFINE j == job[c]
             m == j.payload
             a == AssembledFrom(c)
             longest == [d \in Calls |-> IF TimeoutOf[d] - SafetyBuffer > MaxWindow
                                        THEN TimeoutOf[d] - SafetyBuffer ELSE MaxWindow]
  <2>2. /\ j \in Job /\ now \in Int /\ now >= 0
        /\ signed[c] = m
        /\ m.valid_before = j.meta.valid_before
        /\ m.nonce = BytesOf[j.meta.nonce]
        /\ Granted(c, j, j.meta.valid_before)
    BY DEF TypeOK, SignerInv, CallInv, SignedPayload, PayloadFaithful, DeadlineGranted, Assemble,
           Open, InFlight
  <2>3. /\ m.from \in Wallets /\ m.terms \in Terms /\ j.meta.nonce \in Nonces
        /\ j.meta.valid_before \in Int
        /\ m = [from |-> m.from, terms |-> m.terms, valid_before |-> m.valid_before,
                nonce |-> m.nonce]
    BY <2>2 DEF Job, Meta, Message
  <2>4. reqs[j.req].terms \in Terms
    BY <2>2 DEF TypeOK, Job, Requirement
  <2>5. j.built_at \in Int /\ j.built_at <= now
    BY <2>2 DEF BuiltInv, Assemble
  <2>6. j.meta.valid_before \in (now + 1) .. (now + longest[c])
    <3>1. now < j.meta.valid_before
      BY <1>3, <2>2, <2>3 DEF Constructible, AssembledFrom
    <3>2. TimeoutOf[c] \in Int /\ MaxWindow \in Int
      BY SignerAssumption
    <3>3. longest[c] \in Int /\ j.meta.valid_before - j.built_at <= longest[c]
      BY <2>2, <2>3, <2>5, <3>2 DEF Granted, SafetyBuffer
    <3> HIDE DEF longest
    <3>4. QED
      BY <2>2, <2>3, <2>5, <3>1, <3>3
  <2>7. a = [from |-> m.from, terms |-> reqs[j.req].terms, valid_before |-> j.meta.valid_before,
             nonce |-> j.meta.nonce, signed_at |-> now,
             signature |-> [from |-> m.from, terms |-> m.terms,
                            valid_before |-> j.meta.valid_before,
                            nonce |-> BytesOf[j.meta.nonce]]]
    BY <2>2, <2>3 DEF AssembledFrom
  <2>8. auth' = [auth EXCEPT ![c] = a]
    BY <1>3
  <2> HIDE DEF m, a, longest
  <2>9. \E w \in Wallets, reported, signed_terms \in Terms, nonce \in Nonces,
           deadline \in (now + 1) .. (now + longest[c]) :
          auth' = [auth EXCEPT ![c] =
                     [from |-> w, terms |-> reported, valid_before |-> deadline, nonce |-> nonce,
                      signed_at |-> now,
                      signature |-> [from |-> w, terms |-> signed_terms,
                                     valid_before |-> deadline, nonce |-> BytesOf[nonce]]]]
    BY <2>3, <2>4, <2>6, <2>7, <2>8
  <2>10. [d \in Calls |-> StatusOf(pc[d])]' =
           [[d \in Calls |-> StatusOf(pc[d])] EXCEPT ![c] = "issued"]
    BY <1>3, <2>1, StatusMoves DEF Ended
  <2>11. [d \in Calls |-> StatusOf(pc[d])][c] = "open"
    BY <1>1
  <2>12. QED
    BY <1>1, <2>9, <2>10, <2>11 DEF Issuer!Issue, longest
<1>4. QED
  BY <1>2, <1>3 DEF Assemble

\* Every step of the signer is one of the abstract issuer's or a stutter.
LEMMA StepRefines ==
  TypeOK /\ TypeOK' /\ SignerInv /\ BuiltInv /\ [Next]_vars => [Issuer!Next]_(Issuer!vars)
<1> DEFINE status == [c \in Calls |-> StatusOf(pc[c])]
<1> SUFFICES ASSUME TypeOK, TypeOK', SignerInv, BuiltInv, [Next]_vars
             PROVE  Issuer!Next \/ UNCHANGED Issuer!vars
  OBVIOUS
<1>1. ASSUME NEW c \in Calls, NEW label \in InFlight \cup Ended \cup {"orphaned"},
             Goto(c, label), StatusOf(label) = StatusOf(pc[c]), UNCHANGED <<now, auth>>
      PROVE  UNCHANGED Issuer!vars
  <2>1. status' = [status EXCEPT ![c] = StatusOf(label)]
    BY <1>1, StatusMoves
  <2>2. QED
    BY <1>1, <2>1 DEF Issuer!vars
<1>2. ASSUME NEW c \in Calls, NEW label \in {"raised", "cancelled", "orphaned"},
             Goto(c, label), StatusOf(pc[c]) \in {"idle", "open"}, UNCHANGED <<now, auth>>
      PROVE  Issuer!Fail(c)
  <2>1. status' = [status EXCEPT ![c] = "failed"]
    BY <1>2, StatusMoves, StatusOfLabel DEF Ended
  <2>2. QED
    BY <1>2, <2>1 DEF Issuer!Fail
<1>3. CASE Tick
  BY <1>3 DEF Tick, Issuer!Next, Issuer!Tick
<1>4. CASE UNCHANGED vars
  BY <1>4 DEF vars, Issuer!vars
<1>5. CASE Dequeue
  <2>1. Head(queue) \in Calls /\ UNCHANGED <<now, auth>>
    BY <1>5 DEF Dequeue, TypeOK
  <2>2. CASE pc[Head(queue)] = "queued"
    <3>1. Goto(Head(queue), "running")
      BY <1>5, <2>2 DEF Dequeue, Goto, TypeOK
    <3>2. QED
      BY <1>1, <2>1, <2>2, <3>1, StatusOfLabel DEF InFlight
  <2>3. CASE pc[Head(queue)] # "queued"
    <3>1. pc' = pc
      BY <1>5, <2>1, <2>3 DEF Dequeue, TypeOK
    <3>2. QED
      BY <2>1, <3>1 DEF Issuer!vars
  <2>4. QED
    BY <2>2, <2>3
<1>6. ASSUME NEW r \in Reqs, EditRequirements(r) PROVE UNCHANGED Issuer!vars
  BY <1>6 DEF EditRequirements, Issuer!vars
<1>7. ASSUME NEW c \in Calls, NEW r \in Reqs, NEW w \in Wallets,
             NEW mode \in {"sync", "async"}, NEW override \in Overrides,
             BuildPayload(c, r, w, mode, override)
      PROVE  Issuer!Begin(c) \/ Issuer!Fail(c)
  <2>1. pc[c] = "idle" /\ StatusOf(pc[c]) = "idle" /\ UNCHANGED <<now, auth>>
    BY <1>7, StatusOfLabel DEF BuildPayload
  <2>2. Goto(c, "raised") \/ Goto(c, "inline") \/ Goto(c, "queued")
    BY <1>7 DEF BuildPayload, Raise, CallWallet
  <2>3. CASE Goto(c, "raised")
    BY <1>2, <2>1, <2>3
  <2>4. ASSUME NEW label \in {"inline", "queued"}, Goto(c, label) PROVE Issuer!Begin(c)
    <3>1. status' = [status EXCEPT ![c] = "open"]
      BY <2>4, StatusMoves, StatusOfLabel DEF InFlight
    <3>2. QED
      BY <2>1, <3>1 DEF Issuer!Begin
  <2>5. QED
    BY <2>2, <2>3, <2>4
<1>8. ASSUME NEW c \in Calls, Sign(c) PROVE UNCHANGED Issuer!vars
  BY <1>1, <1>8, StatusOfLabel DEF Sign, InFlight
<1>9. ASSUME NEW c \in Calls, FailToSign(c) PROVE Issuer!Fail(c)
  BY <1>2, <1>9, StatusOfLabel DEF FailToSign, Raise, InFlight
<1>10. ASSUME NEW c \in Calls, Cancel(c) PROVE Issuer!Fail(c)
  <2>1. StatusOf(pc[c]) = "open" /\ UNCHANGED <<now, auth>>
    BY <1>10, StatusOfLabel DEF Cancel
  <2>2. Goto(c, "orphaned") \/ Goto(c, "cancelled")
    BY <1>10 DEF Cancel
  <2>3. QED
    BY <1>2, <2>1, <2>2
<1>11. ASSUME NEW c \in Calls, FinishOrphan(c) PROVE UNCHANGED Issuer!vars
  BY <1>1, <1>11, StatusOfLabel DEF FinishOrphan, Ended
<1>12. ASSUME NEW c \in Calls, Assemble(c) PROVE Issuer!Issue(c) \/ Issuer!Fail(c)
  BY <1>12, AssembleRefines
<1>13. QED
  BY <1>3, <1>4, <1>5, <1>6, <1>7, <1>8, <1>9, <1>10, <1>11, <1>12 DEF Next, Issuer!Next

\* The signer implements the safety part of the abstract issuer: each call is
\* decided at most once, by an error or by one authorization within the
\* longest window, signed for its payer, deadline and nonce
\* (EIP3009Signer.sign and sign_async, eip3009.py:187-229).
THEOREM ImplementsIssuerSteps == Spec => Issuer!Init /\ [][Issuer!Next]_(Issuer!vars)
BY InitRefines, StepRefines, TypeCorrect, SignerInvariant, BuiltInvariant, PTL DEF Spec
=============================================================================
