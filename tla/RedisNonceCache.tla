--------------------------- MODULE RedisNonceCache ---------------------------
(***************************************************************************)
(* conway_sdk/wallet/redis_nonce_cache.py and the Redis server it talks    *)
(* to.  Every element of Calls is one call of record, is_known, evict or   *)
(* ping, from any thread of any instance of the deployment.                *)
(*                                                                         *)
(* A command travels to the server, is executed there at some later time   *)
(* and its reply travels back.  The connection may fail at any moment      *)
(* between: the client then sends the command again, Resends times (none   *)
(* by default in redis-py 5, three in redis-py 6), and raises after that.  *)
(* A command whose client gave up may still be executed.                   *)
(***************************************************************************)
EXTENDS Integers, FiniteSets

CONSTANTS
  Calls,       \* calls of the cache's methods
  Nonces,      \* nonce texts; a key is key_prefix and such a text
  Ttls,        \* explicit ttl arguments of record
  DefaultTtl,  \* RedisNonceCache.default_ttl
  Resends,     \* how often the client repeats a command
  Horizon,     \* bound on the clock
  None

ASSUME CacheAssumption ==
  /\ Ttls \subseteq Int
  /\ None \notin Ttls
  /\ None \notin Int
  /\ DefaultTtl \in Int
  /\ Resends \in Nat
  /\ Horizon \in Nat

VARIABLES
  now,      \* clock of the Redis server, in seconds
  expires,  \* when the key of a nonce expires, None when it was never set
  pc,       \* "idle", "waiting", "returned" or "raised"
  call,     \* what a call asked for
  attempt,  \* how often its command was sent
  net,      \* commands on their way, as <<call, attempt>>
  reply,    \* the reply on its way to a waiting call
  result,   \* what a call returned
  leases    \* history: who recorded a nonce, from when until when

cacheVars == <<now, expires, pc, call, attempt, net, reply, result, leases>>

Operations == {"record", "is_known", "evict", "ping"}
Request == [op : Operations, nonce : Nonces, ttl : Ttls \cup {None}]
Reply == [value : {"OK", "nil", "error", "1", "0"}, at : 0 .. Horizon]
Result == [value : BOOLEAN, at : 0 .. Horizon]
Lease == [call : Calls, nonce : Nonces, from : 0 .. Horizon, until : Int, evicted : BOOLEAN]

CacheInit ==
  /\ now = 0
  /\ expires = [n \in Nonces |-> None]
  /\ pc = [c \in Calls |-> "idle"]
  /\ call = [c \in Calls |-> None]
  /\ attempt = [c \in Calls |-> 0]
  /\ net = {}
  /\ reply = [c \in Calls |-> None]
  /\ result = [c \in Calls |-> None]
  /\ leases = {}

\* Redis treats a key whose time is over as absent.
Live(n) == expires[n] # None /\ expires[n] > now

-----------------------------------------------------------------------------
(***************************************************************************)
(* The client.                                                             *)
(***************************************************************************)
\* Mutant: "ttl or self._default_ttl".
TruthyTtl(ttl) == IF ttl \in {None, 0} THEN DefaultTtl ELSE ttl

\* Mutant: the explicit argument is ignored.
FixedTtl(ttl) == DefaultTtl

EffectiveTtl(ttl) == IF ttl # None THEN ttl ELSE DefaultTtl

Send(c, request) ==
  /\ pc[c] = "idle"
  /\ pc' = [pc EXCEPT ![c] = "waiting"]
  /\ call' = [call EXCEPT ![c] = request]
  /\ attempt' = [attempt EXCEPT ![c] = 1]
  /\ net' = net \cup {<<c, 1>>}
  /\ UNCHANGED <<now, expires, reply, result, leases>>

record(c, n, ttl) == Send(c, [op |-> "record", nonce |-> n, ttl |-> ttl])
is_known(c, n) == Send(c, [op |-> "is_known", nonce |-> n, ttl |-> None])
evict(c, n) == Send(c, [op |-> "evict", nonce |-> n, ttl |-> None])
ping(c, n) == Send(c, [op |-> "ping", nonce |-> n, ttl |-> None])

\* Mutant: "result is not False", of a client that answers None.
NotFalse(value) == value # "0"

\* "result is True or result == 1", bool(exists(...)), bool(delete(...)), and
\* True after a ping.
Truth(value) == value \in {"OK", "1"}

\* redis-py turns an error reply into an exception, which record does not catch.
Receive(c) ==
  /\ pc[c] = "waiting"
  /\ reply[c] # None
  /\ IF reply[c].value = "error"
     THEN pc' = [pc EXCEPT ![c] = "raised"] /\ UNCHANGED result
     ELSE /\ pc' = [pc EXCEPT ![c] = "returned"]
          /\ result' = [result EXCEPT ![c] = [value |-> Truth(reply[c].value), at |-> reply[c].at]]
  /\ UNCHANGED <<now, expires, call, attempt, net, reply, leases>>

\* Mutant: every method swallows the failure as ping does.
SwallowFailure(c) ==
  /\ pc' = [pc EXCEPT ![c] = "returned"]
  /\ result' = [result EXCEPT ![c] = [value |-> FALSE, at |-> now]]

\* Mutant: the exception is caught and nothing is returned.
ReturnNothing(c) ==
  /\ pc' = [pc EXCEPT ![c] = "returned"]
  /\ UNCHANGED result

\* The client's exception leaves record, is_known and evict; ping returns False.
GiveUp(c) ==
  IF call[c].op = "ping"
  THEN /\ pc' = [pc EXCEPT ![c] = "returned"]
       /\ result' = [result EXCEPT ![c] = [value |-> FALSE, at |-> now]]
  ELSE /\ pc' = [pc EXCEPT ![c] = "raised"]
       /\ UNCHANGED result

\* The connection fails or times out while a call waits.
Disconnect(c) ==
  /\ pc[c] = "waiting"
  /\ reply' = [reply EXCEPT ![c] = None]
  /\ \/ /\ attempt[c] <= Resends
        /\ attempt' = [attempt EXCEPT ![c] = @ + 1]
        /\ net' = net \cup {<<c, attempt[c] + 1>>}
        /\ UNCHANGED <<pc, result>>
     \/ /\ attempt[c] > Resends
        /\ GiveUp(c)
        /\ UNCHANGED <<attempt, net>>
  /\ UNCHANGED <<now, expires, call, leases>>

-----------------------------------------------------------------------------
(***************************************************************************)
(* The server, which executes one command at a time.                       *)
(***************************************************************************)
\* A command of an attempt the client has given up gets no reply.
Answer(c, n, value) ==
  /\ <<c, n>> \in net
  /\ net' = net \ {<<c, n>>}
  /\ reply' = IF pc[c] = "waiting" /\ attempt[c] = n
              THEN [reply EXCEPT ![c] = [value |-> value, at |-> now]] ELSE reply
  /\ UNCHANGED <<now, pc, call, attempt, result>>

SetKey(c, key, ttl) ==
  /\ expires' = [expires EXCEPT ![key] = now + ttl]
  /\ leases' = leases \cup
       {[call |-> c, nonce |-> key, from |-> now, until |-> now + ttl, evicted |-> FALSE]}

\* Mutant: SET key "1" EX ttl, without NX.
ExecuteSetAlways(c, n) ==
  LET key == call[c].nonce
      ttl == EffectiveTtl(call[c].ttl)
  IN
  /\ call[c].op = "record"
  /\ \/ ttl <= 0 /\ Answer(c, n, "error") /\ UNCHANGED <<expires, leases>>
     \/ ttl > 0 /\ Answer(c, n, "OK") /\ SetKey(c, key, ttl)

\* Mutant: SETNX, then EXPIRE whether or not the key was there.
ExecuteSetRefresh(c, n) ==
  LET key == call[c].nonce
      ttl == EffectiveTtl(call[c].ttl)
  IN
  /\ call[c].op = "record"
  /\ \/ ttl <= 0 /\ Answer(c, n, "error") /\ UNCHANGED <<expires, leases>>
     \/ /\ ttl > 0 /\ Live(key) /\ Answer(c, n, "nil")
        /\ expires' = [expires EXCEPT ![key] = now + ttl] /\ UNCHANGED leases
     \/ ttl > 0 /\ ~Live(key) /\ Answer(c, n, "OK") /\ SetKey(c, key, ttl)

\* SET key "1" NX EX ttl; Redis refuses an expiry that is not positive.
ExecuteSet(c, n) ==
  LET key == call[c].nonce
      ttl == EffectiveTtl(call[c].ttl)
  IN
  /\ call[c].op = "record"
  /\ \/ ttl <= 0 /\ Answer(c, n, "error") /\ UNCHANGED <<expires, leases>>
     \/ ttl > 0 /\ Live(key) /\ Answer(c, n, "nil") /\ UNCHANGED <<expires, leases>>
     \/ ttl > 0 /\ ~Live(key) /\ Answer(c, n, "OK") /\ SetKey(c, key, ttl)

ExecuteExists(c, n) ==
  /\ call[c].op = "is_known"
  /\ Answer(c, n, IF Live(call[c].nonce) THEN "1" ELSE "0")
  /\ UNCHANGED <<expires, leases>>

\* DEL key ends the lease that holds the key.
Ended(l) == [call |-> l.call, nonce |-> l.nonce, from |-> l.from, until |-> now, evicted |-> TRUE]

Freed(key) == {IF l.nonce = key /\ l.until > now THEN Ended(l) ELSE l : l \in leases}

ExecuteDel(c, n) ==
  LET key == call[c].nonce
  IN
  /\ call[c].op = "evict"
  /\ Answer(c, n, IF Live(key) THEN "1" ELSE "0")
  /\ expires' = [expires EXCEPT ![key] = None]
  /\ leases' = Freed(key)

ExecutePing(c, n) ==
  /\ call[c].op = "ping"
  /\ Answer(c, n, "OK")
  /\ UNCHANGED <<expires, leases>>

Execute(c, n) == ExecuteSet(c, n) \/ ExecuteExists(c, n) \/ ExecuteDel(c, n) \/ ExecutePing(c, n)

CacheTick ==
  /\ now < Horizon
  /\ now' = now + 1
  /\ UNCHANGED <<expires, pc, call, attempt, net, reply, result, leases>>

Ask(c) ==
  \E n \in Nonces :
    \/ \E ttl \in Ttls \cup {None} : record(c, n, ttl)
    \/ is_known(c, n)
    \/ evict(c, n)
    \/ ping(c, n)

CacheNext ==
  \/ CacheTick
  \/ \E c \in Calls : Ask(c) \/ Receive(c) \/ Disconnect(c)
  \/ \E c \in Calls, n \in 1 .. Resends + 1 : <<c, n>> \in net /\ Execute(c, n)

CacheSpec == CacheInit /\ [][CacheNext]_cacheVars

-----------------------------------------------------------------------------
(***************************************************************************)
(* Properties.                                                             *)
(***************************************************************************)
CacheTypeOK ==
  /\ now \in 0 .. Horizon
  /\ expires \in [Nonces -> Int \cup {None}]
  /\ pc \in [Calls -> {"idle", "waiting", "returned", "raised"}]
  /\ call \in [Calls -> Request \cup {None}]
  /\ attempt \in [Calls -> 0 .. Resends + 1]
  /\ net \subseteq Calls \X (1 .. Resends + 1)
  /\ reply \in [Calls -> Reply \cup {None}]
  /\ result \in [Calls -> Result \cup {None}]
  /\ leases \subseteq Lease
  /\ \A c \in Calls : pc[c] # "idle" => call[c] \in Request
  /\ \A c \in Calls : pc[c] = "returned" => result[c] \in Result
  /\ \A m \in net : pc[m[1]] # "idle"

\* What Redis holds is what record calls were granted, for as long as they were
\* granted it: no call shortens, extends or outlives another's entry, and every
\* entry ends by itself (redis_nonce_cache.py:108-111, "first writer wins" and
\* "automatic expiry").
StoreMatchesLeases ==
  /\ \A n \in Nonces : Live(n) => \E l \in leases : l.nonce = n /\ l.until = expires[n]
  /\ \A l \in leases : l.until > now => expires[l.nonce] = l.until

\* Two grants of one nonce never overlap in time, with commands late, repeated
\* or executed after their caller gave up (redis_nonce_cache.py:110).
LeasesDisjoint ==
  \A k, l \in leases : k # l /\ k.nonce = l.nonce => k.until <= l.from \/ l.until <= k.from

\* A record that returned True was granted the nonce for the time it asked for
\* (redis_nonce_cache.py:108-111).
TrueMeansGranted ==
  \A c \in Calls :
    pc[c] = "returned" /\ call[c].op = "record" /\ result[c].value =>
      \E l \in leases :
        /\ l.call = c /\ l.nonce = call[c].nonce /\ l.from = result[c].at
        /\ \/ l.evicted
           \/ l.until = l.from + IF call[c].ttl # None THEN call[c].ttl ELSE DefaultTtl

\* A record that returned False met a grant that was there when the server
\* looked: another call's, or, when its command was sent again, its own
\* (redis_nonce_cache.py:105-106, "already present").
FalseMeansTaken ==
  \A c \in Calls :
    pc[c] = "returned" /\ call[c].op = "record" /\ ~result[c].value =>
      \E l \in leases :
        /\ l.nonce = call[c].nonce
        /\ l.from <= result[c].at /\ result[c].at <= l.until
        /\ l.call # c \/ attempt[c] > 1

\* Two callers that are both told a nonce is theirs have it one after the other,
\* by what they asked for and were told, unless somebody evicted it
\* (redis_nonce_cache.py:90-111).
Won(c) == pc[c] = "returned" /\ call[c].op = "record" /\ result[c].value

WinnersApart ==
  \A c, d \in Calls :
    LET Until(a) == result[a].at + IF call[a].ttl # None THEN call[a].ttl ELSE DefaultTtl
    IN  c # d /\ Won(c) /\ Won(d) /\ call[c].nonce = call[d].nonce =>
          \/ \E l \in leases : l.nonce = call[c].nonce /\ l.evicted
          \/ Until(c) <= result[d].at
          \/ Until(d) <= result[c].at

\* "The first instance to call record() wins; all others get False"
\* (README.md:459-460): when a call got False, the one that holds the nonce was
\* or will be told that it won.  The winner whose reply is lost is told nothing.
FirstInstanceWins ==
  \A c \in Calls :
    pc[c] = "returned" /\ call[c].op = "record" /\ ~result[c].value =>
      \E l \in leases : l.nonce = call[c].nonce /\ pc[l.call] # "raised"
=============================================================================
