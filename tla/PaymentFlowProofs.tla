------------------------- MODULE PaymentFlowProofs -------------------------
(***************************************************************************)
(* Proofs about PaymentFlow, for every number of attempts, nonces and      *)
(* resends, every spelling of the nonces, every default ttl and every      *)
(* window, provided that record is called with the time that the           *)
(* authorization has left.  Without that the property fails, and a run     *)
(* shows how.                                                              *)
(***************************************************************************)
EXTENDS PaymentFlow, RedisNonceCacheProofs

-----------------------------------------------------------------------------
(***************************************************************************)
(* The invariant of one attempt: what it asked of the cache covers what    *)
(* its authorization has left, and whoever was or will be told True has    *)
(* been granted the nonce up to the deadline.                              *)
(***************************************************************************)
GrantedTo(c) ==
  \E l \in leases :
    l.call = c /\ l.nonce = auth[c].nonce /\ l.until >= auth[c].valid_before

SignedBefore(c) == stage[c] # "idle" => auth[c].valid_before <= now + Window

AskedForWindow(c) == pc[c] # "idle" =>
  /\ call[c].op = "record"
  /\ call[c].nonce = auth[c].nonce
  /\ call[c].ttl \in Ttls
  /\ auth[c].valid_before <= now + call[c].ttl

ToldTruth(c) ==
  /\ pc[c] = "idle" => reply[c] = None
  /\ reply[c] # None /\ Truth(reply[c].value) => GrantedTo(c)
  /\ pc[c] = "returned" /\ result[c].value => GrantedTo(c)

SubmittedGranted(c) == submitted[c] # None => stage[c] = "submitted" /\ GrantedTo(c)

AttemptInv(c) ==
  SignedBefore(c) /\ AskedForWindow(c) /\ ToldTruth(c) /\ SubmittedGranted(c)

FlowInv == FlowTypeOK /\ GrantInv /\ \A c \in Calls : AttemptInv(c)

LEMMA FlowInitInv == FlowInit => FlowInv
<1> SUFFICES ASSUME FlowInit PROVE FlowInv
  OBVIOUS
<1>1. CacheTypeOK /\ GrantInv
  BY CacheTypeInit, GrantInit DEF FlowInit
<1>2. QED
  BY <1>1 DEF FlowInit, CacheInit, FlowInv, FlowTypeOK, AttemptInv, SignedBefore,
              AskedForWindow, ToldTruth, SubmittedGranted, Stages

\* Every step of the flow is a step of the cache, or none.
LEMMA FlowIsCache == FlowInv /\ [FlowNext]_vars => [CacheNext]_cacheVars
<1> SUFFICES ASSUME FlowInv, [FlowNext]_vars PROVE CacheNext \/ UNCHANGED cacheVars
  OBVIOUS
<1>1. ASSUME NEW c \in Calls, RecordAttempt(c) PROVE Ask(c)
  <2> DEFINE ttl == IF RecordsWindow THEN auth[c].valid_before - now ELSE None
  <2>1. auth[c] \in Authz /\ now \in 0 .. Horizon /\ auth[c].valid_before <= now + Window
    BY <1>1 DEF FlowInv, FlowTypeOK, CacheTypeOK, AttemptInv, SignedBefore, RecordAttempt
  <2>2. auth[c].nonce \in Nonces /\ auth[c].valid_before \in 1 .. Horizon + Window
    BY <2>1 DEF Authz
  <2>3. auth[c].valid_before - now \in -Horizon .. Window
    BY <2>1, <2>2, CacheAssumption, FlowAssumption
  <2>4. ttl \in Ttls \cup {None}
    BY <2>3, FlowAssumption
  <2>5. record(c, auth[c].nonce, ttl)
    BY <1>1 DEF RecordAttempt
  <2>6. QED
    BY <2>2, <2>4, <2>5 DEF Ask
<1>2. CASE CacheStep
  BY <1>2 DEF CacheStep, CacheNext
<1>3. ASSUME NEW c \in Calls, SignAttempt(c) \/ Submit(c) \/ Abort(c) \/ Settle(c)
      PROVE  UNCHANGED cacheVars
  BY <1>3 DEF SignAttempt, Submit, Abort, Settle
<1>4. CASE UNCHANGED vars
  BY <1>4 DEF vars
<1>5. QED
  BY <1>1, <1>2, <1>3, <1>4 DEF FlowNext, CacheNext

\* Grants are kept: in the flow nobody evicts.
LEMMA GrantsKept ==
  ASSUME FlowInv, NEW d \in Calls, leases \subseteq leases', auth'[d] = auth[d], GrantedTo(d)
  PROVE  GrantedTo(d)'
BY DEF GrantedTo

\* A step that leaves an attempt's own state alone keeps its invariant.
LEMMA UntouchedAttempt ==
  ASSUME FlowInv, NEW d \in Calls, leases \subseteq leases', now' \in {now, now + 1},
         stage'[d] = stage[d], auth'[d] = auth[d], submitted'[d] = submitted[d],
         pc'[d] = pc[d], call'[d] = call[d], reply'[d] = reply[d], result'[d] = result[d]
  PROVE  AttemptInv(d)'
<1>1. now \in Int /\ now' \in Int /\ now' >= now /\ Window \in Int /\ Ttls \subseteq Int
  BY CacheAssumption, FlowAssumption DEF FlowInv, FlowTypeOK, CacheTypeOK
<1>2. stage[d] # "idle" => auth[d].valid_before \in Int
  BY DEF FlowInv, FlowTypeOK, Authz
<1>3. pc[d] # "idle" => stage[d] # "idle"
  BY DEF FlowInv, FlowTypeOK
<1>4. SignedBefore(d)'
  BY <1>1, <1>2 DEF FlowInv, AttemptInv, SignedBefore
<1>5. AskedForWindow(d)'
  <2> SUFFICES ASSUME pc[d] # "idle" PROVE auth[d].valid_before <= now' + call[d].ttl
    BY DEF FlowInv, AttemptInv, AskedForWindow
  <2>1. call[d].ttl \in Int /\ auth[d].valid_before <= now + call[d].ttl
    BY <1>1 DEF FlowInv, AttemptInv, AskedForWindow
  <2>2. auth[d].valid_before \in Int
    BY <1>2, <1>3
  <2>3. QED
    BY <1>1, <2>1, <2>2
<1>6. ToldTruth(d)' /\ SubmittedGranted(d)'
  BY GrantsKept DEF FlowInv, AttemptInv, ToldTruth, SubmittedGranted
<1>7. QED
  BY <1>4, <1>5, <1>6 DEF AttemptInv

\* A command of the flow is a SET: it grants the nonce and answers OK, or it
\* leaves the leases alone and answers something that is not true.
LEMMA FlowExecute ==
  ASSUME FlowInv, NEW c \in Calls, NEW n \in 1 .. Resends + 1, <<c, n>> \in net, Execute(c, n)
  PROVE  \E value \in {"OK", "nil", "error"} :
           /\ Answer(c, n, value)
           /\ leases \subseteq leases'
           /\ value = "OK" =>
                \E l \in leases' : /\ l.call = c /\ l.nonce = call[c].nonce
                                   /\ l.until = now + call[c].ttl
<1>1. pc[c] # "idle"
  BY DEF FlowInv, FlowTypeOK, CacheTypeOK
<1>2. call[c].op = "record" /\ call[c].ttl \in Ttls
  BY <1>1 DEF FlowInv, AttemptInv, AskedForWindow
<1>3. EffectiveTtl(call[c].ttl) = call[c].ttl
  BY <1>2, CacheAssumption DEF EffectiveTtl
<1>4. ExecuteSet(c, n)
  BY <1>2 DEF Execute, ExecuteExists, ExecuteDel, ExecutePing
<1> DEFINE key == call[c].nonce
           ttl == call[c].ttl
<1>5. CASE ttl > 0 /\ ~Live(key) /\ Answer(c, n, "OK") /\ SetKey(c, key, ttl)
  <2> DEFINE new == [call |-> c, nonce |-> key, from |-> now, until |-> now + ttl,
                     evicted |-> FALSE]
  <2>1. leases' = leases \cup {new}
    BY <1>5 DEF SetKey
  <2>2. new.call = c /\ new.nonce = key /\ new.until = now + ttl
    OBVIOUS
  <2> HIDE DEF new
  <2>3. leases \subseteq leases' /\ new \in leases'
    BY <2>1
  <2>4. QED
    BY <1>5, <2>2, <2>3
<1>6. CASE UNCHANGED leases /\ \E value \in {"nil", "error"} : Answer(c, n, value)
  BY <1>6
<1>7. QED
  BY <1>3, <1>4, <1>5, <1>6 DEF ExecuteSet

\* The types of the flow's own variables.
LEMMA FlowTypeStep == FlowInv /\ CacheTypeOK' /\ [FlowNext]_vars => FlowTypeOK'
<1> SUFFICES ASSUME FlowInv, CacheTypeOK', [FlowNext]_vars PROVE FlowTypeOK'
  OBVIOUS
<1>1. FlowTypeOK /\ CacheTypeOK /\ now \in 0 .. Horizon /\ Window \in Nat /\ Horizon \in Nat
  BY CacheAssumption, FlowAssumption DEF FlowInv, FlowTypeOK, CacheTypeOK
<1> USE <1>1 DEF FlowTypeOK, Enter, Stages
<1>2. CASE CacheStep
  <2>1. UNCHANGED flowVars /\ \A c \in Calls : pc'[c] = "idle" <=> pc[c] = "idle"
    <3>1. CASE CacheTick
      BY <1>2, <3>1 DEF CacheStep, CacheTick
    <3>2. ASSUME NEW c \in Calls, Receive(c) PROVE \A d \in Calls : pc'[d] = "idle" <=> pc[d] = "idle"
      BY <3>2 DEF Receive, CacheTypeOK
    <3>3. ASSUME NEW c \in Calls, Disconnect(c) PROVE \A d \in Calls : pc'[d] = "idle" <=> pc[d] = "idle"
      BY <3>3 DEF Disconnect, GiveUp, CacheTypeOK
    <3>4. ASSUME NEW c \in Calls, NEW n \in 1 .. Resends + 1, Execute(c, n) PROVE pc' = pc
      BY <3>4, ExecuteAnswers DEF Answer
    <3>5. QED
      BY <1>2, <3>1, <3>2, <3>3, <3>4 DEF CacheStep
  <2>2. QED
    BY <2>1 DEF flowVars
<1>3. ASSUME NEW c \in Calls, SignAttempt(c) PROVE FlowTypeOK'
  <2>1. PICK n \in Nonces, deadline \in (now + 1) .. (now + Window) :
          auth' = [auth EXCEPT ![c] = [nonce |-> n, valid_before |-> deadline]]
    BY <1>3 DEF SignAttempt
  <2>2. [nonce |-> n, valid_before |-> deadline] \in Authz
    BY DEF Authz
  <2>3. /\ stage' = [stage EXCEPT ![c] = "signed"] /\ stage[c] = "idle"
        /\ UNCHANGED <<pc, submitted, settled>>
    BY <1>3 DEF SignAttempt, cacheVars
  <2>4. auth' \in [Calls -> Authz \cup {None}] /\ auth'[c] \in Authz
        /\ \A d \in Calls : stage[d] # "idle" => auth'[d] \in Authz
    BY <2>1, <2>2
  <2>5. QED
    BY <2>3, <2>4
<1>4. ASSUME NEW c \in Calls, RecordAttempt(c) PROVE FlowTypeOK'
  <2>1. /\ pc' = [pc EXCEPT ![c] = "waiting"] /\ pc \in [Calls -> {"idle", "waiting", "returned", "raised"}]
        /\ stage[c] = "signed" /\ stage' = [stage EXCEPT ![c] = "asking"]
        /\ UNCHANGED <<auth, submitted, settled>>
    BY <1>4 DEF RecordAttempt, record, Send, CacheTypeOK
  <2>2. QED
    BY <2>1
<1>5. ASSUME NEW c \in Calls, Submit(c) \/ Abort(c) \/ Settle(c) PROVE FlowTypeOK'
  BY <1>5 DEF Submit, Abort, Settle, cacheVars
<1>6. CASE UNCHANGED vars
  BY <1>6 DEF vars, cacheVars, flowVars
<1>7. QED
  BY <1>2, <1>3, <1>4, <1>5, <1>6 DEF FlowNext

\* Every step keeps the invariant of every attempt.
LEMMA AttemptStep ==
  ASSUME RecordsWindow
  PROVE  FlowInv /\ FlowTypeOK' /\ [FlowNext]_vars => \A d \in Calls : AttemptInv(d)'
<1> SUFFICES ASSUME FlowInv, FlowTypeOK', [FlowNext]_vars, NEW d \in Calls
             PROVE  AttemptInv(d)'
  OBVIOUS
<1>1. FlowTypeOK /\ CacheTypeOK /\ AttemptInv(d)
  BY DEF FlowInv, FlowTypeOK
<1>2. /\ now \in 0 .. Horizon /\ Window \in Nat /\ Horizon \in Nat /\ Ttls \subseteq Int
      /\ None \notin Int
  BY <1>1, CacheAssumption, FlowAssumption DEF CacheTypeOK
<1>3. ASSUME UNCHANGED <<leases, now>>, NEW c \in Calls, AttemptInv(c)',
             \A b \in Calls \ {c} :
               /\ stage'[b] = stage[b] /\ auth'[b] = auth[b] /\ submitted'[b] = submitted[b]
               /\ pc'[b] = pc[b] /\ call'[b] = call[b] /\ reply'[b] = reply[b]
               /\ result'[b] = result[b]
      PROVE  AttemptInv(d)'
  BY <1>3, UntouchedAttempt
<1>4. CASE UNCHANGED vars
  BY <1>4, UntouchedAttempt DEF vars, cacheVars, flowVars
<1>5. CASE CacheTick /\ UNCHANGED flowVars
  BY <1>5, UntouchedAttempt DEF CacheTick, flowVars
<1>6. ASSUME NEW c \in Calls, Receive(c), UNCHANGED flowVars PROVE AttemptInv(d)'
  <2>1. AttemptInv(c)'
    BY <1>6, GrantsKept DEF FlowInv, FlowTypeOK, CacheTypeOK, AttemptInv, SignedBefore, AskedForWindow,
       ToldTruth, SubmittedGranted, Receive, flowVars
  <2>2. QED
    BY <1>1, <1>3, <1>6, <2>1 DEF Receive, flowVars, CacheTypeOK
<1>7. ASSUME NEW c \in Calls, Disconnect(c), UNCHANGED flowVars PROVE AttemptInv(d)'
  <2>1. /\ pc[c] = "waiting" /\ call[c].op = "record"
        /\ pc'[c] \in {"waiting", "raised"} /\ reply'[c] = None
        /\ UNCHANGED <<now, expires, call, leases, stage, auth, submitted>>
    BY <1>1, <1>7 DEF Disconnect, GiveUp, flowVars, CacheTypeOK, FlowInv, AttemptInv, AskedForWindow
  <2>2. AttemptInv(c)'
    BY <2>1, GrantsKept DEF FlowInv, AttemptInv, SignedBefore, AskedForWindow, ToldTruth,
                            SubmittedGranted
  <2>3. QED
    BY <1>1, <1>3, <1>7, <2>2 DEF Disconnect, GiveUp, flowVars, CacheTypeOK
<1>8. ASSUME NEW c \in Calls, NEW n \in 1 .. Resends + 1, <<c, n>> \in net, Execute(c, n),
             UNCHANGED flowVars
      PROVE  AttemptInv(d)'
  <2>1. PICK value \in {"OK", "nil", "error"} :
          /\ Answer(c, n, value)
          /\ leases \subseteq leases'
          /\ value = "OK" =>
               \E l \in leases' : /\ l.call = c /\ l.nonce = call[c].nonce
                                  /\ l.until = now + call[c].ttl
    BY <1>8, FlowExecute
  <2>2. /\ UNCHANGED <<now, pc, call, attempt, result, stage, auth, submitted>>
        /\ reply \in [Calls -> Reply \cup {None}]
        /\ \/ reply' = reply
           \/ pc[c] = "waiting" /\ reply' = [reply EXCEPT ![c] = [value |-> value, at |-> now]]
    BY <1>1, <1>8, <2>1 DEF Answer, flowVars, CacheTypeOK
  <2>3. CASE d = c /\ pc[c] = "waiting"
             /\ reply' = [reply EXCEPT ![c] = [value |-> value, at |-> now]]
    <3>1. reply'[c].value = value /\ pc'[c] = "waiting"
      BY <2>2, <2>3
    <3>2. Truth(value) => GrantedTo(c)'
      <4> SUFFICES ASSUME Truth(value) PROVE GrantedTo(c)'
        OBVIOUS
      <4>1. PICK l \in leases' : /\ l.call = c /\ l.nonce = call[c].nonce
                                 /\ l.until = now + call[c].ttl
        BY <2>1 DEF Truth
      <4>2. /\ call[c].nonce = auth[c].nonce /\ call[c].ttl \in Int
            /\ auth[c].valid_before <= now + call[c].ttl
        BY <1>1, <1>2, <2>3 DEF FlowInv, AttemptInv, AskedForWindow
      <4>3. stage[c] # "idle" /\ auth[c].valid_before \in Int
        BY <1>1, <2>3 DEF FlowTypeOK, Authz
      <4>4. QED
        BY <1>2, <2>2, <4>1, <4>2, <4>3 DEF GrantedTo
    <3>3. ToldTruth(c)'
      BY <3>1, <3>2 DEF ToldTruth
    <3>4. SubmittedGranted(c)'
      BY <1>1, <2>1, <2>2, <2>3, GrantsKept DEF AttemptInv, SubmittedGranted
    <3>5. SignedBefore(c)' /\ AskedForWindow(c)'
      BY <1>1, <2>2, <2>3 DEF AttemptInv, SignedBefore, AskedForWindow
    <3>6. QED
      BY <2>3, <3>3, <3>4, <3>5 DEF AttemptInv
  <2>4. CASE reply'[d] = reply[d]
    BY <2>1, <2>2, <2>4, UntouchedAttempt
  <2>5. QED
    BY <2>2, <2>3, <2>4
<1>9. ASSUME NEW c \in Calls, SignAttempt(c) PROVE AttemptInv(d)'
  <2>1. PICK n \in Nonces, deadline \in (now + 1) .. (now + Window) :
          auth' = [auth EXCEPT ![c] = [nonce |-> n, valid_before |-> deadline]]
    BY <1>9 DEF SignAttempt
  <2>2. /\ stage[c] = "idle" /\ stage' = [stage EXCEPT ![c] = "signed"]
        /\ UNCHANGED <<now, leases, pc, call, reply, result, submitted>>
    BY <1>9 DEF SignAttempt, Enter, cacheVars
  <2>3. pc[c] = "idle" /\ reply[c] = None /\ submitted[c] = None
    BY <1>1, <2>2 DEF FlowInv, FlowTypeOK, AttemptInv, ToldTruth, SubmittedGranted
  <2>4. auth'[c].valid_before <= now + Window
    BY <1>1, <1>2, <2>1 DEF FlowTypeOK
  <2>5. AttemptInv(c)'
    BY <2>2, <2>3, <2>4 DEF AttemptInv, SignedBefore, AskedForWindow, ToldTruth, SubmittedGranted
  <2>6. QED
    BY <1>1, <1>3, <2>1, <2>2, <2>5 DEF FlowTypeOK
<1>10. ASSUME NEW c \in Calls, RecordAttempt(c) PROVE AttemptInv(d)'
  <2> DEFINE ttl == auth[c].valid_before - now
  <2>1. /\ stage[c] = "signed" /\ pc[c] = "idle"
        /\ stage' = [stage EXCEPT ![c] = "asking"]
        /\ pc' = [pc EXCEPT ![c] = "waiting"]
        /\ call' = [call EXCEPT ![c] = [op |-> "record", nonce |-> auth[c].nonce, ttl |-> ttl]]
        /\ UNCHANGED <<now, leases, auth, submitted, reply, result>>
    BY <1>10 DEF RecordAttempt, record, Send, Enter
  <2>2. /\ auth[c].valid_before \in 1 .. Horizon + Window
        /\ auth[c].valid_before <= now + Window
    BY <1>1, <2>1 DEF FlowInv, FlowTypeOK, Authz, AttemptInv, SignedBefore
  <2>3. ttl \in Ttls /\ auth[c].valid_before <= now + ttl
    BY <1>2, <2>2, FlowAssumption
  <2> HIDE DEF ttl
  <2>4. call'[c] = [op |-> "record", nonce |-> auth[c].nonce, ttl |-> ttl]
    BY <1>1, <2>1 DEF CacheTypeOK
  <2>5. submitted[c] = None /\ reply[c] = None
    BY <2>1 DEF FlowInv, AttemptInv, SubmittedGranted, ToldTruth
  <2>6. stage'[c] = "asking" /\ pc'[c] = "waiting"
    BY <1>1, <2>1 DEF FlowTypeOK, CacheTypeOK
  <2>7. AttemptInv(c)'
    BY <2>1, <2>2, <2>3, <2>4, <2>5, <2>6
       DEF AttemptInv, SignedBefore, AskedForWindow, ToldTruth, SubmittedGranted
  <2>8. QED
    BY <1>1, <1>3, <2>1, <2>7 DEF FlowTypeOK, CacheTypeOK
<1>11. ASSUME NEW c \in Calls, Submit(c) PROVE AttemptInv(d)'
  <2>1. /\ stage[c] = "asking" /\ pc[c] = "returned" /\ result[c].value
        /\ stage' = [stage EXCEPT ![c] = "submitted"]
        /\ submitted' = [submitted EXCEPT ![c] = now]
        /\ UNCHANGED <<now, leases, pc, call, reply, result, auth>>
    BY <1>11 DEF Submit, Enter, cacheVars
  <2>2. GrantedTo(c)'
    BY <2>1, GrantsKept DEF FlowInv, AttemptInv, ToldTruth
  <2>3. stage'[c] = "submitted"
    BY <1>1, <2>1 DEF FlowTypeOK
  <2>4. ToldTruth(c)' /\ SubmittedGranted(c)'
    BY <2>1, <2>2, <2>3 DEF FlowInv, AttemptInv, ToldTruth, SubmittedGranted
  <2>5. SignedBefore(c)' /\ AskedForWindow(c)'
    BY <2>1 DEF FlowInv, AttemptInv, SignedBefore, AskedForWindow
  <2>6. AttemptInv(c)'
    BY <2>4, <2>5 DEF AttemptInv
  <2>7. QED
    BY <1>1, <1>3, <2>1, <2>6 DEF FlowTypeOK
<1>12. ASSUME NEW c \in Calls, Abort(c) \/ Settle(c) PROVE AttemptInv(d)'
  <2>1. UNCHANGED <<now, leases, pc, call, reply, result, auth, submitted>>
    BY <1>12 DEF Abort, Settle, cacheVars
  <2>2. CASE Settle(c)
    BY <2>1, <2>2, UntouchedAttempt DEF Settle
  <2>3. CASE Abort(c)
    <3>1. stage[c] = "asking" /\ stage' = [stage EXCEPT ![c] = "dropped"]
      BY <2>3 DEF Abort, Enter
    <3>2. submitted[c] = None
      BY <3>1 DEF FlowInv, AttemptInv, SubmittedGranted
    <3>3. AttemptInv(c)'
      BY <2>1, <3>1, <3>2, GrantsKept DEF FlowInv, AttemptInv, SignedBefore, AskedForWindow, ToldTruth,
         SubmittedGranted
    <3>4. QED
      BY <1>1, <1>3, <2>1, <3>1, <3>3 DEF FlowTypeOK
  <2>4. QED
    BY <1>12, <2>2, <2>3
<1>13. QED
  BY <1>4, <1>5, <1>6, <1>7, <1>8, <1>9, <1>10, <1>11, <1>12 DEF FlowNext, CacheStep

LEMMA FlowInvariant == ASSUME RecordsWindow PROVE FlowSpec => []FlowInv
<1>1. FlowInv /\ [FlowNext]_vars => FlowInv'
  <2> SUFFICES ASSUME FlowInv, [FlowNext]_vars PROVE FlowInv'
    OBVIOUS
  <2>1. CacheTypeOK /\ GrantInv
    BY DEF FlowInv, FlowTypeOK
  <2>2. CacheTypeOK' /\ GrantInv'
    BY <2>1, FlowIsCache, CacheTypeStep, GrantStep
  <2>3. FlowTypeOK'
    BY <2>2, FlowTypeStep
  <2>4. QED
    BY <2>2, <2>3, AttemptStep DEF FlowInv
<1>2. QED
  BY <1>1, FlowInitInv, PTL DEF FlowSpec

\* Every variable of the protocol keeps its type, and an attempt has asked the
\* cache exactly when it has come so far (README.md:470-516).
THEOREM FlowTypeCorrect == ASSUME RecordsWindow PROVE FlowSpec => []FlowTypeOK
<1>1. FlowInv => FlowTypeOK
  BY DEF FlowInv
<1>2. QED
  BY <1>1, FlowInvariant, PTL

-----------------------------------------------------------------------------
\* While a submitted authorization is usable Redis knows its nonce
\* (redis_nonce_cache.py:13-16, 113-121), if record was given the time that was
\* left.
THEOREM NonceGuarded == ASSUME RecordsWindow PROVE FlowSpec => []WindowGuarded
<1>1. FlowInv => WindowGuarded
  <2> SUFFICES ASSUME FlowInv, NEW c \in Calls, Usable(c) PROVE Live(auth[c].nonce)
    BY DEF WindowGuarded
  <2>1. PICK l \in leases : l.nonce = auth[c].nonce /\ l.until >= auth[c].valid_before
    BY DEF FlowInv, AttemptInv, SubmittedGranted, GrantedTo, Usable
  <2>2. now \in Int /\ l.until \in Int /\ None \notin Int
    BY CacheAssumption DEF FlowInv, FlowTypeOK, CacheTypeOK, Lease
  <2>3. now < auth[c].valid_before /\ auth[c].valid_before \in Int
    BY DEF FlowInv, FlowTypeOK, AttemptInv, SubmittedGranted, Usable, Authz
  <2>4. l.until > now
    BY <2>1, <2>2, <2>3
  <2>5. expires[l.nonce] = l.until
    BY <2>4 DEF FlowInv, GrantInv, StoreMatchesLeases
  <2>6. QED
    BY <2>1, <2>2, <2>4, <2>5 DEF Live
<1>2. QED
  BY <1>1, FlowInvariant, PTL

\* Grants of one nonce do not overlap, so only one attempt can hold it.
LEMMA OneUsable ==
  ASSUME FlowInv
  PROVE  UsedOnceInWindow
<1> SUFFICES ASSUME NEW c \in Calls, NEW d \in Calls, c # d, Usable(c), Usable(d),
                    auth[c].nonce = auth[d].nonce
             PROVE  FALSE
  BY DEF UsedOnceInWindow
<1>1. ASSUME NEW b \in Calls, Usable(b)
      PROVE  /\ auth[b].nonce \in Nonces
             /\ \E l \in leases : /\ l.call = b /\ l.nonce = auth[b].nonce
                                  /\ l.from \in Int /\ l.until \in Int
                                  /\ l.from <= now /\ now < l.until
  <2>1. PICK l \in leases :
          l.call = b /\ l.nonce = auth[b].nonce /\ l.until >= auth[b].valid_before
    BY <1>1 DEF FlowInv, AttemptInv, SubmittedGranted, GrantedTo, Usable
  <2>2. /\ now < auth[b].valid_before /\ auth[b].valid_before \in Int
        /\ auth[b].nonce \in Nonces
    BY <1>1 DEF FlowInv, FlowTypeOK, AttemptInv, SubmittedGranted, Usable, Authz
  <2>3. now \in Int /\ l.from \in Int /\ l.until \in Int /\ l.from <= now
    BY CacheAssumption DEF FlowInv, FlowTypeOK, CacheTypeOK, Lease, GrantInv
  <2>4. QED
    BY <2>1, <2>2, <2>3
<1>2. PICK k \in leases : /\ k.call = c /\ k.nonce = auth[c].nonce
                          /\ k.from \in Int /\ k.until \in Int
                          /\ k.from <= now /\ now < k.until
  BY <1>1
<1>3. PICK l \in leases : /\ l.call = d /\ l.nonce = auth[d].nonce
                          /\ l.from \in Int /\ l.until \in Int
                          /\ l.from <= now /\ now < l.until
  BY <1>1
<1>4. k # l /\ k.nonce = l.nonce
  BY <1>2, <1>3
<1>5. k.until <= l.from \/ l.until <= k.from
  BY <1>4 DEF FlowInv, GrantInv, LeasesDisjoint
<1>6. now \in Int
  BY CacheAssumption DEF FlowInv, FlowTypeOK, CacheTypeOK
<1>7. QED
  BY <1>2, <1>3, <1>5, <1>6

\* A nonce text is used at most once within its window
\* (redis_nonce_cache.py:6-7, 108), if record was given the time that was left.
THEOREM NonceUsedOnce == ASSUME RecordsWindow PROVE FlowSpec => []UsedOnceInWindow
  BY OneUsable, FlowInvariant, PTL

-----------------------------------------------------------------------------
(***************************************************************************)
(* What the flow implements.                                               *)
(***************************************************************************)
\* The attempts use the cache as any other program does, so that all that is
\* proved of the cache holds for them: README.md:470-516 asks it for nothing
\* record does not expect.
THEOREM FlowImplementsCache == ASSUME RecordsWindow PROVE FlowSpec => CacheSpec
<1>1. FlowInit => CacheInit
  BY DEF FlowInit
<1>2. QED
  BY <1>1, FlowIsCache, FlowInvariant, PTL DEF FlowSpec, CacheSpec

\* Money moves only for an authorization that has left its instance.
SettledReleased == settled \subseteq Released

LedgerInv == FlowInv /\ SettledReleased

LEMMA LedgerInvariant == ASSUME RecordsWindow PROVE FlowSpec => []LedgerInv
<1>1. FlowInit => SettledReleased
  BY DEF FlowInit, SettledReleased
<1>2. FlowInv /\ SettledReleased /\ [FlowNext]_vars => SettledReleased'
  <2> SUFFICES ASSUME FlowInv, SettledReleased, [FlowNext]_vars PROVE SettledReleased'
    OBVIOUS
  <2>1. now # None /\ submitted \in [Calls -> (0 .. Horizon) \cup {None}]
    BY CacheAssumption DEF FlowInv, FlowTypeOK, CacheTypeOK
  <2>2. CASE CacheStep \/ UNCHANGED vars
    BY <2>2 DEF CacheStep, vars, flowVars, SettledReleased, Released
  <2>3. ASSUME NEW c \in Calls, SignAttempt(c) \/ RecordAttempt(c) \/ Abort(c)
        PROVE  SettledReleased'
    BY <2>3 DEF SignAttempt, RecordAttempt, Abort, SettledReleased, Released
  <2>4. ASSUME NEW c \in Calls, Submit(c) PROVE SettledReleased'
    BY <2>1, <2>4 DEF Submit, SettledReleased, Released
  <2>5. ASSUME NEW c \in Calls, Settle(c) PROVE SettledReleased'
    BY <2>5 DEF Settle, Usable, SettledReleased, Released
  <2>6. QED
    BY <2>2, <2>3, <2>4, <2>5 DEF FlowNext
<1>3. QED
  BY <1>1, <1>2, FlowInvariant, PTL DEF FlowSpec, LedgerInv

Entry(c) == [attempt |-> c, nonce |-> auth[c].nonce, until |-> auth[c].valid_before]

\* A step that releases nothing and settles nothing leaves the ledger alone.
LEMMA LedgerUnchanged ==
  ASSUME SettledReleased, UNCHANGED <<now, submitted, settled>>,
         \A c \in Released : auth'[c] = auth[c]
  PROVE  UNCHANGED Ledger!vars
<1>1. Released' = Released /\ \A c \in Released : Entry(c)' = Entry(c)
  BY DEF Released, Entry
<1>2. {Entry(c) : c \in Released}' = {Entry(c) : c \in Released}
  BY <1>1
<1>3. UsedOnChain' = UsedOnChain
  BY DEF SettledReleased, UsedOnChain
<1>4. QED
  BY <1>2, <1>3 DEF Ledger!vars, Entry

LEMMA CacheStepMaps ==
  ASSUME LedgerInv, CacheStep
  PROVE  [Ledger!Next]_(Ledger!vars)
<1>1. UNCHANGED <<stage, auth, submitted, settled>> /\ SettledReleased
  BY DEF CacheStep, flowVars, LedgerInv
<1>2. CASE CacheTick
  <2>1. now' = now + 1
    BY <1>2 DEF CacheTick
  <2>2. Released' = Released /\ UsedOnChain' = UsedOnChain
    BY <1>1 DEF Released, UsedOnChain
  <2>3. Ledger!Tick
    BY <1>1, <2>1, <2>2 DEF Ledger!Tick
  <2>4. QED
    BY <2>3 DEF Ledger!Next
<1>3. CASE now' = now
  BY <1>1, <1>3, LedgerUnchanged
<1>4. now' = now \/ CacheTick
  BY ExecuteAnswers DEF CacheStep, Receive, Disconnect, Answer
<1>5. QED
  BY <1>2, <1>3, <1>4

\* When an attempt submits, no other authorization with its nonce can be used.
LEMMA SubmitMaps ==
  ASSUME LedgerInv, UsedOnceInWindow', NEW c \in Calls, Submit(c)
  PROVE  Ledger!Next
<1> DEFINE out == {Entry(d) : d \in Released}
<1>1. /\ stage[c] = "asking" /\ submitted' = [submitted EXCEPT ![c] = now]
      /\ UNCHANGED <<now, auth, settled>>
  BY DEF Submit, cacheVars
<1>2. /\ now \in Int /\ now # None
      /\ submitted \in [Calls -> (0 .. Horizon) \cup {None}]
      /\ submitted[c] = None
      /\ auth[c] \in Authz /\ auth[c].nonce \in Nonces /\ auth[c].valid_before \in 1 .. Horizon + Window
  BY <1>1, CacheAssumption
     DEF LedgerInv, FlowInv, FlowTypeOK, CacheTypeOK, AttemptInv, SubmittedGranted, Authz
<1>3. Released' = Released \cup {c} /\ c \notin Released
  BY <1>1, <1>2 DEF Released
<1>4. \A d \in Calls : Entry(d)' = Entry(d)
  BY <1>1 DEF Entry
<1>5. {Entry(d) : d \in Released}' = out \cup {Entry(c)}
  BY <1>3, <1>4 DEF Released
<1>6. \A o \in out : o.attempt # c
  BY <1>3 DEF Entry
<1>7. ASSUME now < auth[c].valid_before, NEW o \in out, o.nonce = auth[c].nonce
      PROVE  o.until <= now
  <2>1. PICK d \in Released : o = Entry(d)
    OBVIOUS
  <2>2. d \in Calls /\ d # c /\ submitted[d] # None
    BY <1>3, <2>1 DEF Released
  <2>3. auth[d].valid_before \in Int
    BY <2>2 DEF LedgerInv, FlowInv, FlowTypeOK, AttemptInv, SubmittedGranted, Authz
  <2>4. ~Usable(d)'
    <3>1. Usable(c)'
      BY <1>1, <1>2, <1>7 DEF Usable
    <3>2. QED
      BY <1>1, <1>7, <2>1, <2>2, <3>1 DEF UsedOnceInWindow, Entry
  <2>5. QED
    BY <1>1, <1>2, <2>1, <2>2, <2>3, <2>4 DEF Usable, Entry
<1>8. UsedOnChain' = UsedOnChain
  BY <1>1 DEF UsedOnChain
<1>9. Ledger!Release(c, auth[c].nonce, auth[c].valid_before)
  BY <1>1, <1>5, <1>6, <1>7, <1>8 DEF Ledger!Release, Entry
<1>10. QED
  <2>1. PICK n \in Nonces : n = auth[c].nonce
    BY <1>2
  <2>2. PICK deadline \in 1 .. Horizon + Window : deadline = auth[c].valid_before
    BY <1>2
  <2>3. Ledger!Release(c, n, deadline)
    BY <1>9, <2>1, <2>2 DEF Ledger!Release
  <2>4. QED
    BY <2>3, Zenon DEF Ledger!Next

LEMMA SettleMaps ==
  ASSUME LedgerInv, NEW c \in Calls, Settle(c)
  PROVE  Ledger!Next
<1>1. /\ submitted[c] # None /\ now < auth[c].valid_before
      /\ BytesOf[auth[c].nonce] \notin UsedOnChain
      /\ settled' = settled \cup {c}
      /\ UNCHANGED <<now, auth, submitted>>
  BY DEF Settle, Usable, cacheVars
<1>2. UsedOnChain' = UsedOnChain \cup {BytesOf[auth[c].nonce]}
  BY <1>1 DEF UsedOnChain
<1>3. Released' = Released /\ c \in Released
  BY <1>1 DEF Released
<1>4. Ledger!Transfer(Entry(c))
  BY <1>1, <1>2, <1>3 DEF Ledger!Transfer, Entry
<1>5. QED
  BY <1>3, <1>4 DEF Ledger!Next, Entry

\* Whatever instances crash and whatever is lost, late or repeated between them
\* and Redis, the deployment keeps its nonces as one program with one ledger
\* does (redis_nonce_cache.py:6-23), if record was given the time that was left.
THEOREM FlowImplementsLedger ==
  ASSUME RecordsWindow
  PROVE  FlowSpec => ImplementsLedger
<1>1. FlowInit => Ledger!Init
  BY DEF FlowInit, CacheInit, Ledger!Init, Released, UsedOnChain
<1>2. LedgerInv /\ UsedOnceInWindow' /\ [FlowNext]_vars => [Ledger!Next]_(Ledger!vars)
  <2> SUFFICES ASSUME LedgerInv, UsedOnceInWindow', [FlowNext]_vars PROVE [Ledger!Next]_(Ledger!vars)
    OBVIOUS
  <2>1. CASE CacheStep
    BY <2>1, CacheStepMaps
  <2>2. ASSUME NEW c \in Calls, SignAttempt(c) PROVE UNCHANGED Ledger!vars
    <3>1. /\ UNCHANGED <<now, submitted, settled>> /\ stage[c] = "idle"
          /\ \A d \in Calls : d # c => auth'[d] = auth[d]
      BY <2>2 DEF SignAttempt, cacheVars, LedgerInv, FlowInv, FlowTypeOK
    <3>2. c \notin Released
      BY <3>1 DEF LedgerInv, FlowInv, AttemptInv, SubmittedGranted, Released
    <3>3. QED
      BY <3>1, <3>2, LedgerUnchanged DEF LedgerInv, Released
  <2>3. ASSUME NEW c \in Calls, RecordAttempt(c) \/ Abort(c) PROVE UNCHANGED Ledger!vars
    BY <2>3, LedgerUnchanged DEF RecordAttempt, record, Send, Abort, cacheVars, LedgerInv
  <2>4. ASSUME NEW c \in Calls, Submit(c) PROVE Ledger!Next
    BY <2>4, SubmitMaps
  <2>5. ASSUME NEW c \in Calls, Settle(c) PROVE Ledger!Next
    BY <2>5, SettleMaps
  <2>6. CASE UNCHANGED vars
    BY <2>6, LedgerUnchanged DEF vars, cacheVars, flowVars, LedgerInv
  <2>7. QED
    BY <2>1, <2>2, <2>3, <2>4, <2>5, <2>6 DEF FlowNext
<1>3. QED
  BY <1>1, <1>2, NonceUsedOnce, LedgerInvariant, PTL DEF FlowSpec, ImplementsLedger, Ledger!Spec
=============================================================================
