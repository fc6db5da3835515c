----------------------- MODULE RedisNonceCacheProofs -----------------------
(***************************************************************************)
(* Proofs about RedisNonceCache, for every number of calls, nonces and     *)
(* resends, all ttls and every horizon of the clock.                       *)
(***************************************************************************)
EXTENDS RedisNonceCache, TLAPS

-----------------------------------------------------------------------------
(***************************************************************************)
(* What the three kinds of server step do to the keys and the leases.      *)
(***************************************************************************)
\* A command that is on its way belongs to a call, so its arguments are known.
LEMMA KnownArguments ==
  ASSUME CacheTypeOK, NEW c \in Calls, NEW n \in 1 .. Resends + 1, <<c, n>> \in net
  PROVE  /\ call[c] \in Request
         /\ call[c].nonce \in Nonces
         /\ EffectiveTtl(call[c].ttl) \in Int
<1>1. call[c] \in Request
  BY DEF CacheTypeOK
<1>2. call[c].nonce \in Nonces /\ call[c].ttl \in Ttls \cup {None}
  BY <1>1 DEF Request
<1>3. QED
  BY <1>1, <1>2, CacheAssumption DEF EffectiveTtl

\* Executing a command leaves the keys and the leases alone, or grants a free
\* key to its call, or takes a key from whoever holds it.
LEMMA ExecuteCases ==
  ASSUME CacheTypeOK, NEW c \in Calls, NEW n \in 1 .. Resends + 1, <<c, n>> \in net,
         Execute(c, n)
  PROVE  \/ UNCHANGED <<expires, leases>>
         \/ \E ttl \in Int : ttl > 0 /\ ~Live(call[c].nonce) /\ SetKey(c, call[c].nonce, ttl)
         \/ /\ expires' = [expires EXCEPT ![call[c].nonce] = None]
            /\ leases' = Freed(call[c].nonce)
BY KnownArguments DEF Execute, ExecuteSet, ExecuteExists, ExecuteDel, ExecutePing

\* Whatever a step of the server is, it answers one command.
LEMMA ExecuteAnswers ==
  ASSUME NEW c \in Calls, NEW n \in 1 .. Resends + 1, Execute(c, n)
  PROVE  \E value \in {"OK", "nil", "error", "1", "0"} : Answer(c, n, value)
BY DEF Execute, ExecuteSet, ExecuteExists, ExecuteDel, ExecutePing

-----------------------------------------------------------------------------
LEMMA CacheTypeInit == CacheInit => CacheTypeOK
BY CacheAssumption DEF CacheInit, CacheTypeOK

LEMMA CacheTypeStep == CacheTypeOK /\ [CacheNext]_cacheVars => CacheTypeOK'
<1> USE CacheAssumption
<1> SUFFICES ASSUME CacheTypeOK, [CacheNext]_cacheVars PROVE CacheTypeOK'
  OBVIOUS
<1> USE DEF CacheTypeOK
<1>1. CASE CacheTick
  BY <1>1 DEF CacheTick
<1>2. ASSUME NEW c \in Calls, NEW q \in Request, Send(c, q) PROVE CacheTypeOK'
  BY <1>2 DEF Send
<1>3. ASSUME NEW c \in Calls, Ask(c) PROVE CacheTypeOK'
  <2>1. \E q \in Request : Send(c, q)
    BY <1>3 DEF Ask, record, is_known, evict, ping, Request, Operations
  <2>2. QED
    BY <1>2, <2>1
<1>4. ASSUME NEW c \in Calls, Receive(c) PROVE CacheTypeOK'
  <2>1. reply[c] \in Reply
    BY <1>4 DEF Receive
  <2>2. [value |-> Truth(reply[c].value), at |-> reply[c].at] \in Result
    BY <2>1 DEF Reply, Result, Truth
  <2>3. QED
    BY <1>4, <2>2 DEF Receive
<1>5. ASSUME NEW c \in Calls, Disconnect(c) PROVE CacheTypeOK'
  <2>1. [value |-> FALSE, at |-> now] \in Result
    BY DEF Result
  <2>2. attempt[c] \in 0 .. Resends + 1
    BY DEF CacheTypeOK
  <2>3. CASE attempt[c] <= Resends
    <3>1. attempt[c] + 1 \in 1 .. Resends + 1
      BY <2>2, <2>3
    <3>2. CASE /\ attempt' = [attempt EXCEPT ![c] = @ + 1]
               /\ net' = net \cup {<<c, attempt[c] + 1>>}
               /\ UNCHANGED <<pc, result>>
      BY <1>5, <3>1, <3>2 DEF Disconnect
    <3>3. QED
      BY <1>5, <2>2, <2>3, <3>2 DEF Disconnect
  <2>4. CASE attempt[c] > Resends
    <3>1. /\ pc[c] = "waiting"
          /\ reply' = [reply EXCEPT ![c] = None]
          /\ GiveUp(c)
          /\ UNCHANGED <<now, expires, call, attempt, net, leases>>
      BY <1>5, <2>2, <2>4 DEF Disconnect
    <3>2. \/ /\ pc' = [pc EXCEPT ![c] = "returned"]
             /\ result' = [result EXCEPT ![c] = [value |-> FALSE, at |-> now]]
          \/ /\ pc' = [pc EXCEPT ![c] = "raised"]
             /\ result' = result
      BY <3>1 DEF GiveUp
    <3>3. /\ pc' \in [Calls -> {"idle", "waiting", "returned", "raised"}]
          /\ \A d \in Calls : pc'[d] # "idle" <=> pc[d] # "idle"
      BY <3>1, <3>2
    <3>4. reply' \in [Calls -> Reply \cup {None}] /\ result' \in [Calls -> Result \cup {None}]
      BY <2>1, <3>1, <3>2
    <3>6. \A d \in Calls : pc'[d] = "returned" => result'[d] \in Result
      BY <2>1, <3>1, <3>2
    <3>5. \A m \in net : pc'[m[1]] # "idle"
      BY <3>3
    <3>7. QED
      BY <3>1, <3>3, <3>4, <3>5, <3>6
  <2>5. QED
    BY <2>2, <2>3, <2>4
<1>6. ASSUME NEW c \in Calls, NEW n \in 1 .. Resends + 1, <<c, n>> \in net, Execute(c, n)
      PROVE  CacheTypeOK'
  <2>1. PICK value \in {"OK", "nil", "error", "1", "0"} : Answer(c, n, value)
    BY <1>6, ExecuteAnswers
  <2>2. [value |-> value, at |-> now] \in Reply
    BY DEF Reply
  <2>3. /\ UNCHANGED <<now, pc, call, attempt, result>>
        /\ net' = net \ {<<c, n>>}
        /\ reply' \in [Calls -> Reply \cup {None}]
    BY <2>1, <2>2 DEF Answer
  <2>4. call[c].nonce \in Nonces
    BY <1>6, KnownArguments
  <2>5. expires' \in [Nonces -> Int \cup {None}] /\ leases' \subseteq Lease
    <3>1. CASE UNCHANGED <<expires, leases>>
      BY <3>1
    <3>2. ASSUME NEW ttl \in Int, SetKey(c, call[c].nonce, ttl)
          PROVE  expires' \in [Nonces -> Int \cup {None}] /\ leases' \subseteq Lease
      <4>1. now \in 0 .. Horizon /\ now + ttl \in Int
        BY DEF CacheTypeOK
      <4>2. [call |-> c, nonce |-> call[c].nonce, from |-> now, until |-> now + ttl,
             evicted |-> FALSE] \in Lease
        BY <2>4, <4>1 DEF Lease
      <4>3. QED
        BY <3>2, <4>1, <4>2 DEF SetKey
    <3>3. CASE /\ expires' = [expires EXCEPT ![call[c].nonce] = None]
               /\ leases' = Freed(call[c].nonce)
      <4>1. \A l \in leases : Ended(l) \in Lease
        BY DEF Lease, Ended
      <4>2. Freed(call[c].nonce) \subseteq Lease
        BY <4>1 DEF Freed
      <4>3. QED
        BY <3>3, <4>2
    <3>4. QED
      BY <1>6, <3>1, <3>2, <3>3, ExecuteCases
  <2>6. QED
    BY <2>3, <2>5
<1>7. CASE UNCHANGED cacheVars
  BY <1>7 DEF cacheVars
<1>8. QED
  BY <1>1, <1>3, <1>4, <1>5, <1>6, <1>7 DEF CacheNext

\* CacheTypeOK holds in every reachable state.
THEOREM CacheTypeCorrect == CacheSpec => []CacheTypeOK
BY CacheTypeInit, CacheTypeStep, PTL DEF CacheSpec

-----------------------------------------------------------------------------
(***************************************************************************)
(* The inductive invariant: no grant lies in the future, and the keys are  *)
(* exactly the grants that are not over.  A free key then means that every *)
(* earlier grant of its nonce is over, which is why a new one is disjoint  *)
(* from all of them.                                                       *)
(***************************************************************************)
GrantInv ==
  /\ \A l \in leases : l.from <= now
  /\ StoreMatchesLeases
  /\ LeasesDisjoint

\* A new grant of a free key keeps the invariant.
LEMMA GrantPreserves ==
  ASSUME CacheTypeOK, GrantInv, now' = now,
         NEW c \in Calls, NEW key \in Nonces, NEW ttl \in Int, ttl > 0,
         ~Live(key), SetKey(c, key, ttl)
  PROVE  GrantInv'
<1> DEFINE new == [call |-> c, nonce |-> key, from |-> now, until |-> now + ttl, evicted |-> FALSE]
<1>1. /\ expires' = [expires EXCEPT ![key] = now + ttl]
      /\ leases' = leases \cup {new}
      /\ new.nonce = key /\ new.from = now /\ new.until = now + ttl
  BY DEF SetKey
<1>2. /\ now \in Int /\ None \notin Int
      /\ expires \in [Nonces -> Int \cup {None}]
      /\ \A l \in leases : l.from \in Int /\ l.until \in Int /\ l.nonce \in Nonces
  BY CacheAssumption DEF CacheTypeOK, Lease
<1> HIDE DEF new
<1>3. \A l \in leases : l.nonce = key => l.until <= now
  <2> SUFFICES ASSUME NEW l \in leases, l.nonce = key, l.until > now PROVE FALSE
    BY <1>2
  <2>1. expires[key] = l.until
    BY DEF GrantInv, StoreMatchesLeases
  <2>2. QED
    BY <1>2, <2>1 DEF Live
<1>4. \A l \in leases' : l.from <= now'
  BY <1>1, <1>2 DEF GrantInv
<1>5. StoreMatchesLeases'
  <2>1. ASSUME NEW n \in Nonces, Live(n)'
        PROVE  \E l \in leases' : l.nonce = n /\ l.until = expires'[n]
    <3>1. CASE n = key
      BY <1>1, <1>2, <3>1
    <3>2. CASE n # key
      BY <1>1, <1>2, <2>1, <3>2 DEF GrantInv, StoreMatchesLeases, Live
    <3>3. QED
      BY <3>1, <3>2
  <2>2. ASSUME NEW l \in leases', l.until > now' PROVE expires'[l.nonce] = l.until
    <3>1. CASE l = new
      BY <1>1, <1>2, <3>1
    <3>2. CASE l \in leases
      BY <1>1, <1>2, <1>3, <2>2, <3>2 DEF GrantInv, StoreMatchesLeases
    <3>3. QED
      BY <1>1, <3>1, <3>2
  <2>3. QED
    BY <2>1, <2>2 DEF StoreMatchesLeases
<1>6. LeasesDisjoint'
  BY <1>1, <1>2, <1>3 DEF GrantInv, LeasesDisjoint
<1>7. QED
  BY <1>4, <1>5, <1>6 DEF GrantInv

\* Taking a key from its holder ends the holder's grant now.
LEMMA EvictPreserves ==
  ASSUME CacheTypeOK, GrantInv, now' = now, NEW key \in Nonces,
         expires' = [expires EXCEPT ![key] = None],
         leases' = Freed(key)
  PROVE  GrantInv'
<1> DEFINE cut(l) == IF l.nonce = key /\ l.until > now
                     THEN Ended(l) ELSE l
<1>1. /\ now \in Int /\ None \notin Int
      /\ expires \in [Nonces -> Int \cup {None}]
      /\ leases \subseteq Lease
  BY CacheAssumption DEF CacheTypeOK
<1>2. ASSUME NEW l \in leases
      PROVE  /\ cut(l).nonce = l.nonce /\ cut(l).from = l.from /\ cut(l).until <= l.until
             /\ cut(l).until \in Int /\ l.until \in Int /\ l.from \in Int /\ l.nonce \in Nonces
             /\ l.nonce = key => cut(l).until <= now
             /\ l.nonce # key => cut(l) = l
  BY <1>1 DEF Lease, Ended
<1>3. leases' = {cut(l) : l \in leases}
  BY DEF Freed
<1> HIDE DEF cut
<1>4. \A l \in leases' : l.from <= now'
  BY <1>2, <1>3 DEF GrantInv
<1>5. StoreMatchesLeases'
  <2>1. ASSUME NEW n \in Nonces, Live(n)'
        PROVE  \E l \in leases' : l.nonce = n /\ l.until = expires'[n]
    <3>1. n # key /\ Live(n)
      BY <1>1, <2>1 DEF Live
    <3>2. PICK l \in leases : l.nonce = n /\ l.until = expires[n]
      BY <3>1 DEF GrantInv, StoreMatchesLeases
    <3>3. cut(l) = l /\ cut(l) \in leases'
      BY <1>2, <1>3, <3>1, <3>2
    <3>4. QED
      BY <1>1, <3>1, <3>2, <3>3
  <2>2. ASSUME NEW l \in leases, cut(l).until > now' PROVE expires'[l.nonce] = cut(l).until
    BY <1>1, <1>2, <2>2 DEF GrantInv, StoreMatchesLeases
  <2>3. QED
    BY <1>2, <1>3, <2>1, <2>2 DEF StoreMatchesLeases
<1>6. LeasesDisjoint'
  <2> SUFFICES ASSUME NEW k \in leases, NEW l \in leases, k # l, k.nonce = l.nonce
               PROVE  cut(k).until <= cut(l).from \/ cut(l).until <= cut(k).from
    BY <1>2, <1>3 DEF LeasesDisjoint
  <2>1. k.until <= l.from \/ l.until <= k.from
    BY DEF GrantInv, LeasesDisjoint
  <2>2. QED
    BY <1>2, <2>1
<1>7. QED
  BY <1>4, <1>5, <1>6 DEF GrantInv

LEMMA GrantInit == CacheInit => GrantInv
BY DEF CacheInit, GrantInv, StoreMatchesLeases, LeasesDisjoint, Live

LEMMA GrantStep == CacheTypeOK /\ GrantInv /\ [CacheNext]_cacheVars => GrantInv'
<1> SUFFICES ASSUME CacheTypeOK, GrantInv, [CacheNext]_cacheVars PROVE GrantInv'
  OBVIOUS
<1>1. ASSUME UNCHANGED <<expires, leases>>, now' \in {now, now + 1} PROVE GrantInv'
  <2>1. /\ now \in Int /\ leases \subseteq Lease /\ None \notin Int
        /\ expires \in [Nonces -> Int \cup {None}]
    BY CacheAssumption DEF CacheTypeOK
  <2>2. \A l \in leases : l.from \in Int /\ l.until \in Int
    BY <2>1 DEF Lease
  <2>3. StoreMatchesLeases'
    BY <1>1, <2>1, <2>2 DEF GrantInv, StoreMatchesLeases, Live
  <2>4. QED
    BY <1>1, <2>1, <2>2, <2>3 DEF GrantInv, LeasesDisjoint
<1>2. CASE CacheTick \/ UNCHANGED cacheVars
  BY <1>1, <1>2 DEF CacheTick, cacheVars
<1>3. ASSUME NEW c \in Calls, Ask(c) \/ Receive(c) \/ Disconnect(c) PROVE GrantInv'
  BY <1>1, <1>3 DEF Ask, record, is_known, evict, ping, Send, Receive, Disconnect
<1>4. ASSUME NEW c \in Calls, NEW n \in 1 .. Resends + 1, <<c, n>> \in net, Execute(c, n)
      PROVE  GrantInv'
  <2>1. now' = now
    BY <1>4, ExecuteAnswers DEF Answer
  <2>2. call[c].nonce \in Nonces
    BY <1>4, KnownArguments
  <2>3. QED
    BY <1>1, <1>4, <2>1, <2>2, ExecuteCases, GrantPreserves, EvictPreserves
<1>5. QED
  BY <1>2, <1>3, <1>4 DEF CacheNext

LEMMA GrantInvariant == CacheSpec => []GrantInv
BY GrantInit, GrantStep, CacheTypeCorrect, PTL DEF CacheSpec

\* Two grants of one nonce never overlap in time (redis_nonce_cache.py:110).
THEOREM OneHolderAtATime == CacheSpec => []LeasesDisjoint
<1>1. GrantInv => LeasesDisjoint
  BY DEF GrantInv
<1>2. QED
  BY <1>1, GrantInvariant, PTL

\* The keys in Redis are the grants that are not over
\* (redis_nonce_cache.py:108-111).
THEOREM KeysAreGrants == CacheSpec => []StoreMatchesLeases
<1>1. GrantInv => StoreMatchesLeases
  BY DEF GrantInv
<1>2. QED
  BY <1>1, GrantInvariant, PTL

-----------------------------------------------------------------------------
(***************************************************************************)
(* What a caller is told.                                                  *)
(***************************************************************************)
\* The server granted call c its nonce at time t.
Granted(c, t) ==
  \E l \in leases :
    /\ l.call = c /\ l.nonce = call[c].nonce /\ l.from = t
    /\ \/ l.evicted
       \/ l.until = l.from + IF call[c].ttl # None THEN call[c].ttl ELSE DefaultTtl

\* At time t the nonce of call c was taken, by itself only if it asked again.
Taken(c, t) ==
  \E l \in leases :
    /\ l.nonce = call[c].nonce
    /\ l.from <= t /\ t <= l.until
    /\ l.call # c \/ attempt[c] > 1

\* A first command is executed once: when its call has a grant, it is gone.
SentOnce ==
  /\ \A c \in Calls : pc[c] = "idle" => reply[c] = None
  /\ \A c \in Calls : pc[c] # "idle" => attempt[c] >= 1
  /\ \A m \in net : m[2] <= attempt[m[1]]
  /\ \A l \in leases : pc[l.call] # "idle" /\ (attempt[l.call] = 1 => <<l.call, 1>> \notin net)

Recording(c) == pc[c] # "idle" /\ call[c].op = "record"

ReplyTruthful ==
  \A c \in Calls : Recording(c) /\ pc[c] = "waiting" /\ reply[c] # None =>
    /\ reply[c].at <= now
    /\ reply[c].value \in {"OK", "nil", "error"}
    /\ reply[c].value = "OK" => Granted(c, reply[c].at)
    /\ reply[c].value = "nil" => Taken(c, reply[c].at)

ResultTruthful ==
  \A c \in Calls : Recording(c) /\ pc[c] = "returned" =>
    /\ result[c].at <= now
    /\ IF result[c].value THEN Granted(c, result[c].at) ELSE Taken(c, result[c].at)

ToldInv == SentOnce /\ ReplyTruthful /\ ResultTruthful

\* New grants leave the old ones, and an eviction that ends one leaves behind
\* that it was granted and, for times that are past, that it was in force.
LEMMA HistoryKept ==
  ASSUME CacheTypeOK, NEW c \in Calls, NEW t \in Int, t <= now,
         call'[c] = call[c], attempt'[c] >= attempt[c], attempt'[c] \in Int, now' = now,
         \/ leases \subseteq leases'
         \/ \E key \in Nonces : leases' = Freed(key)
  PROVE  (Granted(c, t) => Granted(c, t)') /\ (Taken(c, t) => Taken(c, t)')
<1>1. /\ now \in Int /\ attempt[c] \in Int
      /\ \A l \in leases : l.from \in Int /\ l.until \in Int
  BY CacheAssumption DEF CacheTypeOK, Lease
<1>2. ASSUME NEW l \in leases
      PROVE  \E k \in leases' :
               /\ k.call = l.call /\ k.nonce = l.nonce /\ k.from = l.from
               /\ k.evicted \/ k = l
               /\ t <= l.until => t <= k.until
  <2>1. CASE leases \subseteq leases'
    BY <2>1
  <2>2. ASSUME NEW key \in Nonces, leases' = Freed(key)
        PROVE  \E k \in leases' :
                 /\ k.call = l.call /\ k.nonce = l.nonce /\ k.from = l.from
                 /\ k.evicted \/ k = l
                 /\ t <= l.until => t <= k.until
    <3>1. CASE l.nonce = key /\ l.until > now
      <4>1. Ended(l) \in leases'
        BY <2>2, <3>1 DEF Freed
      <4>2. QED
        BY <4>1 DEF Ended
    <3>2. CASE ~(l.nonce = key /\ l.until > now)
      BY <2>2, <3>2 DEF Freed
    <3>3. QED
      BY <3>1, <3>2
  <2>3. QED
    BY <2>1, <2>2
<1>3. ASSUME Granted(c, t) PROVE Granted(c, t)'
  BY <1>2, <1>3 DEF Granted
<1>4. ASSUME Taken(c, t) PROVE Taken(c, t)'
  BY <1>1, <1>2, <1>4 DEF Taken
<1>5. QED
  BY <1>3, <1>4

\* A set command that is answered "OK" was granted its key, and one answered
\* "nil" met a grant in force, not its own unless it was sent again.
LEMMA SetTruthful ==
  ASSUME CacheTypeOK, GrantInv, SentOnce, NEW c \in Calls, NEW n \in 1 .. Resends + 1,
         <<c, n>> \in net, ExecuteSet(c, n), attempt[c] = n, now' = now,
         call' = call, attempt' = attempt
  PROVE  \E value \in {"OK", "nil", "error"} :
           /\ Answer(c, n, value)
           /\ value = "OK" => Granted(c, now)'
           /\ value = "nil" => Taken(c, now)'
<1> DEFINE key == call[c].nonce
           ttl == EffectiveTtl(call[c].ttl)
<1>1. call[c] \in Request /\ key \in Nonces /\ ttl \in Int
  BY KnownArguments
<1>2. now \in Int /\ \A l \in leases : l.from \in Int /\ l.until \in Int
  BY CacheAssumption DEF CacheTypeOK, Lease
<1>3. CASE ttl <= 0 /\ Answer(c, n, "error")
  BY <1>3
<1>4. CASE Live(key) /\ Answer(c, n, "nil") /\ UNCHANGED <<expires, leases>>
  <2>1. PICK l \in leases : l.nonce = key /\ l.until = expires[key]
    BY <1>1, <1>4 DEF GrantInv, StoreMatchesLeases
  <2>2. l.from <= now /\ now <= l.until
    BY <1>2, <1>4, <2>1 DEF GrantInv, Live
  <2>3. l.call # c \/ attempt[c] > 1
    BY <1>1 DEF SentOnce
  <2>4. QED
    BY <1>4, <2>1, <2>2, <2>3 DEF Taken
<1>5. CASE Answer(c, n, "OK") /\ SetKey(c, key, ttl)
  <2>1. [call |-> c, nonce |-> key, from |-> now, until |-> now + ttl, evicted |-> FALSE]
          \in leases'
    BY <1>5 DEF SetKey
  <2>2. QED
    BY <1>5, <2>1 DEF Granted, EffectiveTtl
<1>6. QED
  BY <1>3, <1>4, <1>5 DEF ExecuteSet

\* The clock and the calls of others change nothing for a call.
LEMMA OthersKept ==
  ASSUME UNCHANGED leases, NEW c \in Calls, NEW t,
         call'[c] = call[c], attempt'[c] = attempt[c]
  PROVE  (Granted(c, t) => Granted(c, t)') /\ (Taken(c, t) => Taken(c, t)')
BY DEF Granted, Taken

\* What a step of the server does to the leases keeps them in history.
LEMMA ExecuteKeeps ==
  ASSUME CacheTypeOK, NEW c \in Calls, NEW n \in 1 .. Resends + 1, <<c, n>> \in net,
         Execute(c, n)
  PROVE  \/ leases \subseteq leases'
         \/ \E key \in Nonces : leases' = Freed(key)
BY ExecuteCases, KnownArguments DEF SetKey

\* Only the call of the command that is executed gets a new lease.
LEMMA ExecuteLeases ==
  ASSUME CacheTypeOK, NEW c \in Calls, NEW n \in 1 .. Resends + 1, <<c, n>> \in net,
         Execute(c, n)
  PROVE  \A l \in leases' : l.call = c \/ \E k \in leases : k.call = l.call
<1>1. CASE UNCHANGED <<expires, leases>>
  BY <1>1
<1>2. ASSUME NEW ttl \in Int, SetKey(c, call[c].nonce, ttl)
      PROVE  \A l \in leases' : l.call = c \/ \E k \in leases : k.call = l.call
  BY <1>2 DEF SetKey
<1>3. CASE leases' = Freed(call[c].nonce)
  BY <1>3 DEF Freed, Ended
<1>4. QED
  BY <1>1, <1>2, <1>3, ExecuteCases

LEMMA SentOnceStep ==
  CacheTypeOK /\ SentOnce /\ [CacheNext]_cacheVars => SentOnce'
<1> SUFFICES ASSUME CacheTypeOK, SentOnce, [CacheNext]_cacheVars PROVE SentOnce'
  OBVIOUS
<1>0. /\ pc \in [Calls -> {"idle", "waiting", "returned", "raised"}]
      /\ attempt \in [Calls -> 0 .. Resends + 1] /\ Resends \in Nat
      /\ net \subseteq Calls \X (1 .. Resends + 1)
      /\ reply \in [Calls -> Reply \cup {None}]
      /\ \A l \in leases : l.call \in Calls
      /\ \A m \in net : pc[m[1]] # "idle"
  BY CacheAssumption DEF CacheTypeOK, Lease
<1>1. CASE CacheTick \/ UNCHANGED cacheVars
  BY <1>1 DEF CacheTick, cacheVars, SentOnce
<1>2. ASSUME NEW c \in Calls, NEW q, Send(c, q) PROVE SentOnce'
  BY <1>0, <1>2 DEF Send, SentOnce
<1>3. ASSUME NEW c \in Calls, Ask(c) PROVE SentOnce'
  BY <1>2, <1>3 DEF Ask, record, is_known, evict, ping
<1>4. ASSUME NEW c \in Calls, Receive(c) PROVE SentOnce'
  BY <1>0, <1>4 DEF Receive, SentOnce
<1>5. ASSUME NEW c \in Calls, Disconnect(c) PROVE SentOnce'
  <2>1. CASE /\ attempt[c] <= Resends
             /\ attempt' = [attempt EXCEPT ![c] = @ + 1]
             /\ net' = net \cup {<<c, attempt[c] + 1>>}
             /\ UNCHANGED <<pc, result>>
    <3>1. /\ pc[c] = "waiting" /\ leases' = leases
          /\ reply' = [reply EXCEPT ![c] = None]
      BY <1>5 DEF Disconnect
    <3>2. attempt[c] >= 1 /\ attempt'[c] = attempt[c] + 1 /\ attempt'[c] # 1
      BY <1>0, <2>1, <3>1 DEF SentOnce
    <3>3. \A m \in net' : m[2] <= attempt'[m[1]]
      BY <1>0, <2>1, <3>2 DEF SentOnce
    <3>4. \A l \in leases' : /\ pc'[l.call] # "idle"
                             /\ attempt'[l.call] = 1 => <<l.call, 1>> \notin net'
      BY <1>0, <2>1, <3>1, <3>2 DEF SentOnce
    <3>5. QED
      BY <1>0, <2>1, <3>1, <3>2, <3>3, <3>4 DEF SentOnce
  <2>2. CASE GiveUp(c) /\ UNCHANGED <<attempt, net>>
    <3>1. /\ pc[c] = "waiting" /\ leases' = leases
          /\ reply' = [reply EXCEPT ![c] = None]
      BY <1>5 DEF Disconnect
    <3>2. \A d \in Calls : pc'[d] = "idle" <=> pc[d] = "idle"
      BY <1>0, <2>2, <3>1 DEF GiveUp
    <3>3. QED
      BY <1>0, <2>2, <3>1, <3>2 DEF SentOnce
  <2>3. QED
    BY <1>5, <2>1, <2>2 DEF Disconnect
<1>6. ASSUME NEW c \in Calls, NEW n \in 1 .. Resends + 1, <<c, n>> \in net, Execute(c, n)
      PROVE  SentOnce'
  <2>1. PICK value : Answer(c, n, value)
    BY <1>6, ExecuteAnswers
  <2>2. /\ net' = net \ {<<c, n>>} /\ UNCHANGED <<pc, attempt>>
        /\ \A d \in Calls : pc[d] = "idle" => reply'[d] = reply[d]
    BY <1>0, <2>1 DEF Answer
  <2>3. n <= attempt[c] /\ pc[c] # "idle"
    BY <1>0, <1>6 DEF SentOnce
  <2>4. attempt[c] = 1 => <<c, 1>> \notin net'
    BY <1>0, <2>2, <2>3
  <2>5. \A l \in leases' : l.call = c \/ \E k \in leases : k.call = l.call
    BY <1>6, ExecuteLeases
  <2>6. QED
    BY <2>2, <2>3, <2>4, <2>5 DEF SentOnce
<1>7. QED
  BY <1>1, <1>3, <1>4, <1>5, <1>6 DEF CacheNext

LEMMA ToldStep ==
  CacheTypeOK /\ GrantInv /\ ToldInv /\ [CacheNext]_cacheVars => ReplyTruthful' /\ ResultTruthful'
<1> SUFFICES ASSUME CacheTypeOK, GrantInv, ToldInv, [CacheNext]_cacheVars
             PROVE  ReplyTruthful' /\ ResultTruthful'
  OBVIOUS
<1> USE DEF ToldInv
<1>0. /\ pc \in [Calls -> {"idle", "waiting", "returned", "raised"}]
      /\ call \in [Calls -> Request \cup {None}]
      /\ attempt \in [Calls -> 0 .. Resends + 1] /\ Resends \in Nat
      /\ reply \in [Calls -> Reply \cup {None}]
      /\ result \in [Calls -> Result \cup {None}]
      /\ now \in Int
      /\ \A r \in Reply : r.at \in Int
      /\ \A r \in Result : r.at \in Int
  BY CacheAssumption DEF CacheTypeOK, Reply, Result
<1>1. CASE CacheTick \/ UNCHANGED cacheVars
  <2>1. /\ UNCHANGED <<pc, call, attempt, reply, result, leases>>
        /\ now' \in {now, now + 1}
    BY <1>1 DEF CacheTick, cacheVars
  <2>2. ReplyTruthful'
    BY <1>0, <2>1, OthersKept DEF ReplyTruthful, Recording
  <2>3. ResultTruthful'
    BY <1>0, <2>1, OthersKept DEF ResultTruthful, Recording, CacheTypeOK
  <2>4. QED
    BY <2>2, <2>3
<1>2. ASSUME NEW c \in Calls, NEW q, Send(c, q) PROVE ReplyTruthful' /\ ResultTruthful'
  <2>1. /\ pc[c] = "idle" /\ pc' = [pc EXCEPT ![c] = "waiting"]
        /\ reply[c] = None
        /\ UNCHANGED <<now, reply, result, leases>>
        /\ \A d \in Calls : d # c => call'[d] = call[d] /\ attempt'[d] = attempt[d]
    BY <1>0, <1>2 DEF Send, SentOnce
  <2>2. ReplyTruthful'
    BY <1>0, <2>1, OthersKept DEF ReplyTruthful, Recording
  <2>3. ResultTruthful'
    BY <1>0, <2>1, OthersKept DEF ResultTruthful, Recording
  <2>4. QED
    BY <2>2, <2>3
<1>3. ASSUME NEW c \in Calls, Ask(c) PROVE ReplyTruthful' /\ ResultTruthful'
  BY <1>2, <1>3 DEF Ask, record, is_known, evict, ping
<1>4. ASSUME NEW c \in Calls, Receive(c) PROVE ReplyTruthful' /\ ResultTruthful'
  <2>1. /\ pc[c] = "waiting" /\ reply[c] # None
        /\ UNCHANGED <<now, call, attempt, reply, leases>>
        /\ \A d \in Calls : d # c => pc'[d] = pc[d] /\ result'[d] = result[d]
        /\ \/ pc'[c] = "raised"
           \/ /\ pc'[c] = "returned" /\ reply[c].value # "error"
              /\ result'[c] = [value |-> Truth(reply[c].value), at |-> reply[c].at]
    BY <1>0, <1>4 DEF Receive
  <2>2. ReplyTruthful'
    BY <1>0, <2>1, OthersKept DEF ReplyTruthful, Recording
  <2>3. ASSUME NEW d \in Calls, Recording(d)', pc'[d] = "returned"
        PROVE  /\ result'[d].at <= now'
               /\ IF result'[d].value THEN Granted(d, result[d].at)' ELSE Taken(d, result[d].at)'
    <3>1. CASE d # c
      BY <1>0, <2>1, <2>3, <3>1, OthersKept DEF ResultTruthful, Recording
    <3>2. CASE d = c
      <4>1. /\ reply[c].value \in {"OK", "nil"} /\ reply[c].at <= now
            /\ reply[c].value = "OK" => Granted(c, reply[c].at)
            /\ reply[c].value = "nil" => Taken(c, reply[c].at)
        BY <2>1, <2>3, <3>2 DEF ReplyTruthful, Recording
      <4>2. result'[c] = [value |-> Truth(reply[c].value), at |-> reply[c].at]
        BY <2>1, <2>3, <3>2
      <4>3. Truth(reply[c].value) <=> reply[c].value = "OK"
        BY <4>1 DEF Truth
      <4>4. result'[c].at = reply[c].at /\ (result'[c].value <=> reply[c].value = "OK")
        BY <4>2, <4>3
      <4>5. /\ Granted(c, reply[c].at) => Granted(c, result[c].at)'
            /\ Taken(c, reply[c].at) => Taken(c, result[c].at)'
        BY <2>1, <4>4 DEF Granted, Taken
      <4>6. QED
        BY <2>1, <3>2, <4>1, <4>4, <4>5
    <3>3. QED
      BY <3>1, <3>2
  <2>4. QED
    BY <2>2, <2>3 DEF ResultTruthful
<1>5. ASSUME NEW c \in Calls, Disconnect(c) PROVE ReplyTruthful' /\ ResultTruthful'
  <2>1. /\ pc[c] = "waiting" /\ reply'[c] = None
        /\ UNCHANGED <<now, call, leases>>
        /\ \A d \in Calls : d # c => /\ pc'[d] = pc[d] /\ result'[d] = result[d]
                                     /\ attempt'[d] = attempt[d] /\ reply'[d] = reply[d]
        /\ pc'[c] = "returned" => call[c].op = "ping"
    BY <1>0, <1>5 DEF Disconnect, GiveUp
  <2>2. ReplyTruthful'
    BY <1>0, <2>1, OthersKept DEF ReplyTruthful, Recording
  <2>3. ResultTruthful'
    BY <1>0, <2>1, OthersKept DEF ResultTruthful, Recording
  <2>4. QED
    BY <2>2, <2>3
<1>6. ASSUME NEW c \in Calls, NEW n \in 1 .. Resends + 1, <<c, n>> \in net, Execute(c, n)
      PROVE  ReplyTruthful' /\ ResultTruthful'
  <2>1. PICK value : Answer(c, n, value)
    BY <1>6, ExecuteAnswers
  <2>2. /\ UNCHANGED <<now, pc, call, attempt, result>>
        /\ \A d \in Calls : d # c => reply'[d] = reply[d]
        /\ ~(pc[c] = "waiting" /\ attempt[c] = n) => reply' = reply
    BY <1>0, <2>1 DEF Answer
  <2>3. ASSUME NEW d \in Calls, NEW t \in Int, t <= now
        PROVE  (Granted(d, t) => Granted(d, t)') /\ (Taken(d, t) => Taken(d, t)')
    <3>1. attempt[d] \in Int
      BY <1>0
    <3>2. QED
      BY <1>6, <2>2, <2>3, <3>1, ExecuteKeeps, HistoryKept
  <2>4. ResultTruthful'
    BY <1>0, <2>2, <2>3 DEF ResultTruthful, Recording, CacheTypeOK
  <2>5. ASSUME NEW d \in Calls, reply'[d] = reply[d], Recording(d), pc[d] = "waiting",
               reply[d] # None
        PROVE  /\ reply'[d].at <= now'
               /\ reply'[d].value \in {"OK", "nil", "error"}
               /\ reply'[d].value = "OK" => Granted(d, reply[d].at)'
               /\ reply'[d].value = "nil" => Taken(d, reply[d].at)'
    <3>1. /\ reply[d].at \in Int /\ reply[d].at <= now
          /\ reply[d].value \in {"OK", "nil", "error"}
          /\ reply[d].value = "OK" => Granted(d, reply[d].at)
          /\ reply[d].value = "nil" => Taken(d, reply[d].at)
      BY <1>0, <2>5 DEF ReplyTruthful
    <3>2. PICK t \in Int : t = reply[d].at
      BY <3>1
    <3>3. /\ Granted(d, reply[d].at) => Granted(d, t)
          /\ Taken(d, reply[d].at) => Taken(d, t)
      BY <3>2 DEF Granted, Taken
    <3>4. /\ Granted(d, t)' => Granted(d, reply[d].at)'
          /\ Taken(d, t)' => Taken(d, reply[d].at)'
      BY <2>5, <3>2 DEF Granted, Taken
    <3>5. QED
      BY <2>2, <2>3, <2>5, <3>1, <3>2, <3>3, <3>4
  <2>6. ASSUME Recording(c), pc[c] = "waiting", attempt[c] = n
        PROVE  /\ reply'[c].at <= now'
               /\ reply'[c].value \in {"OK", "nil", "error"}
               /\ reply'[c].value = "OK" => Granted(c, reply[c].at)'
               /\ reply'[c].value = "nil" => Taken(c, reply[c].at)'
    <3>1. ExecuteSet(c, n)
      BY <1>6, <2>6 DEF Recording, Execute, ExecuteSet, ExecuteExists, ExecuteDel, ExecutePing
    <3>2. PICK v \in {"OK", "nil", "error"} :
            /\ Answer(c, n, v)
            /\ v = "OK" => Granted(c, now)'
            /\ v = "nil" => Taken(c, now)'
      BY <1>6, <2>2, <2>6, <3>1, SetTruthful
    <3>3. reply'[c] = [value |-> v, at |-> now]
      BY <1>0, <2>6, <3>2 DEF Answer
    <3>4. /\ Granted(c, now)' => Granted(c, reply[c].at)'
          /\ Taken(c, now)' => Taken(c, reply[c].at)'
      BY <2>2, <3>3 DEF Granted, Taken
    <3>5. QED
      BY <1>0, <2>2, <3>2, <3>3, <3>4
  <2>7. ReplyTruthful'
    BY <2>2, <2>5, <2>6 DEF ReplyTruthful, Recording
  <2>8. QED
    BY <2>4, <2>7
<1>7. QED
  BY <1>1, <1>3, <1>4, <1>5, <1>6 DEF CacheNext

LEMMA ToldInvariant == CacheSpec => []ToldInv
<1>1. CacheInit => ToldInv
  BY DEF CacheInit, ToldInv, SentOnce, ReplyTruthful, ResultTruthful, Recording
<1>2. CacheTypeOK /\ GrantInv /\ ToldInv /\ [CacheNext]_cacheVars => ToldInv'
  BY SentOnceStep, ToldStep DEF ToldInv
<1>3. QED
  BY <1>1, <1>2, CacheTypeCorrect, GrantInvariant, PTL DEF CacheSpec

\* Whoever is told True was granted the nonce (redis_nonce_cache.py:108-111).
THEOREM TrueIsGrant == CacheSpec => []TrueMeansGranted
<1>1. ToldInv => TrueMeansGranted
  BY DEF ToldInv, ResultTruthful, Recording, Granted, TrueMeansGranted
<1>2. QED
  BY <1>1, ToldInvariant, PTL

\* Whoever is told False met a grant in force (redis_nonce_cache.py:105-106).
THEOREM FalseIsTaken == CacheSpec => []FalseMeansTaken
<1>1. ToldInv => FalseMeansTaken
  BY DEF ToldInv, ResultTruthful, Recording, Taken, FalseMeansTaken
<1>2. QED
  BY <1>1, ToldInvariant, PTL

\* Two callers who are told True for one nonce have it one after the other,
\* unless it was evicted (redis_nonce_cache.py:90-111).
THEOREM WinnersTakeTurns == CacheSpec => []WinnersApart
<1>1. CacheTypeOK /\ GrantInv /\ ToldInv => WinnersApart
  <2> DEFINE Until(a) == result[a].at + IF call[a].ttl # None THEN call[a].ttl ELSE DefaultTtl
  <2> SUFFICES ASSUME CacheTypeOK, GrantInv, ToldInv,
                      NEW c \in Calls, NEW d \in Calls, c # d, Won(c), Won(d),
                      call[c].nonce = call[d].nonce,
                      \A l \in leases : l.nonce = call[c].nonce => ~l.evicted
               PROVE  Until(c) <= result[d].at \/ Until(d) <= result[c].at
    BY DEF WinnersApart
  <2>1. PICK k \in leases : k.call = c /\ k.nonce = call[c].nonce /\ k.from = result[c].at
                            /\ k.until = Until(c)
    BY DEF ToldInv, ResultTruthful, Recording, Granted, Won
  <2>2. PICK l \in leases : l.call = d /\ l.nonce = call[d].nonce /\ l.from = result[d].at
                            /\ l.until = Until(d)
    BY DEF ToldInv, ResultTruthful, Recording, Granted, Won
  <2>3. k.until <= l.from \/ l.until <= k.from
    BY <2>1, <2>2 DEF GrantInv, LeasesDisjoint
  <2>4. QED
    BY <2>1, <2>2, <2>3
<1>2. QED
  BY <1>1, CacheTypeCorrect, GrantInvariant, ToldInvariant, PTL
=============================================================================
