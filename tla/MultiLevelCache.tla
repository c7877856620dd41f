-------------------------- MODULE MultiLevelCache --------------------------
(***************************************************************************)
(* internal/services/cache: processes (nodes) with a local L1 map in front *)
(* of one shared Redis (L2).  Every l1 helper is one step under l1mu and   *)
(* every Redis command one step; the calls of all goroutines interleave    *)
(* between them.  Time passes in ticks, TTLs are counted in ticks.         *)
(***************************************************************************)
EXTENDS Integers, FiniteSets

CONSTANTS
  Nodes, Keys, Values,
  Callers,      \* goroutines
  Home,         \* the node each caller runs on
  L1MaxSize,
  DefaultTTL,
  TTLs,         \* TTLs (after jitter) a Set may carry
  NilTTL,       \* DefaultNilTTL
  Ops,          \* operations in use
  Faults,       \* "redis": a Redis command may fail
  Nothing,      \* no value
  NilValue      \* nilPlaceholder

AllOps == {"get", "getMany", "exists", "set", "setNil", "setMany", "delete", "publish", "clear"}
Writes == AllOps \ {"get", "getMany", "exists"}
Forever == -1                          \* a Redis key without TTL
Stored == Values \cup {NilValue}

ASSUME CacheAssumption ==
  /\ Home \in [Callers -> Nodes]
  /\ L1MaxSize \in Nat \ {0}
  /\ TTLs \cup {DefaultTTL, NilTTL} \subseteq Nat \ {0} /\ IsFiniteSet(TTLs)
  /\ Ops \subseteq AllOps /\ Faults \subseteq {"redis"}
  /\ {Nothing, NilValue} \cap Values = {} /\ Nothing # NilValue

VARIABLES
  l1,        \* per node and key: value and ticks left; 0 left: expired, not yet removed
  recency,   \* per node: the pairs of keys in l1 whose first was hit before the second (lastHit)
  l2,        \* per key: value (or Nothing) and ticks left
  call,      \* the call of every goroutine
  flight,    \* singleflight: goroutine that reads a key for its node, or Nothing
  deleted,   \* history: keys removed from Redis by a call, and no Set begun since
  mixed      \* history: keys written while another call used them, while another
             \* node had them in its L1, or with a Redis error

vars == <<l1, recency, l2, call, flight, deleted, mixed>>

NoEntry == [val |-> Nothing, ttl |-> 0]

\* keys: the call's keys; todo: the ones still to do, in any order (a slice of the
\* caller, Go's map order, SCAN's order); missing: keys GetMany did not find in L1;
\* val, ttl: value to store (or read from Redis) and its TTL; read: what MGET returned.
Idle == [op |-> "none", at |-> "idle", todo |-> {}, keys |-> {}, val |-> Nothing, ttl |-> 0,
         missing |-> {}, read |-> [k \in Keys |-> Nothing]]

Init ==
  /\ l1 = [n \in Nodes |-> [k \in Keys |-> NoEntry]]
  /\ recency = [n \in Nodes |-> {}]
  /\ l2 = [k \in Keys |-> NoEntry]
  /\ call = [c \in Callers |-> Idle]
  /\ flight = [n \in Nodes |-> [k \in Keys |-> Nothing]]
  /\ deleted = {}
  /\ mixed = {}

-----------------------------------------------------------------------------
(* L1. *)

InL1(n, k) == l1[n][k].val # Nothing
Held(n) == {k \in Keys : InL1(n, k)}

\* The order without the keys of S, and with k hit last of the keys H.
Forget(order, S) == {p \in order : p[1] \notin S /\ p[2] \notin S}
HitLast(order, H, k) == Forget(order, {k}) \cup ((H \ {k}) \X {k})

\* Mutated Evicted: the entry hit last is dropped.
EvictedYoungest(n) ==
  {k \in Held(n) : Cardinality(Held(n)) >= L1MaxSize /\ \A x \in Held(n) : <<k, x>> \notin recency[n]}

\* evictOneLocked, called by l1Set on a full map: the entry not hit for longest.
Evicted(n) ==
  {k \in Held(n) : Cardinality(Held(n)) >= L1MaxSize /\ \A x \in Held(n) : <<x, k>> \notin recency[n]}

\* l1Set: a full map loses an entry first, even if k itself is in it.
l1Set(n, k, val, ttl) ==
  LET out == Evicted(n)
  IN /\ recency' = [recency EXCEPT ![n] = HitLast(Forget(@, out), Held(n) \ out, k)]
     /\ l1' = [l1 EXCEPT ![n] = [x \in Keys |-> IF x = k THEN [val |-> val, ttl |-> ttl]
                                               ELSE IF x \in out THEN NoEntry ELSE @[x]]]

\* l1Del and l1Clear.  A key that is not in the map is no error.
l1Remove(n, S) ==
  /\ recency' = [recency EXCEPT ![n] = Forget(@, S)]
  /\ l1' = [l1 EXCEPT ![n] = [x \in Keys |-> IF x \in S THEN NoEntry ELSE @[x]]]

Hit(n, k) == InL1(n, k) /\ l1[n][k].ttl > 0

\* l1Get: an expired entry is removed, a hit becomes the youngest.
l1Get(n, k) ==
  IF Hit(n, k)
  THEN recency' = [recency EXCEPT ![n] = HitLast(@, Held(n), k)] /\ UNCHANGED l1
  ELSE l1Remove(n, {k})

-----------------------------------------------------------------------------
(* Calls. *)

UsesKey(c, k) == call[c].op # "none" /\ k \in call[c].keys

\* Keys for which the new call races with another or leaves another L1 behind.
Races(c, op, keys) ==
  {k \in keys :
     \/ \E d \in Callers : UsesKey(d, k) /\ (op \in Writes \/ call[d].op \in Writes)
     \/ op \in Writes /\ \E n \in Nodes \ {Home[c]} : InL1(n, k)}

Sets == {"set", "setNil", "setMany"}

Begin(c, op, keys, val, ttl) ==
  /\ call[c] = Idle /\ op \in Ops
  /\ call' = [call EXCEPT ![c] = [Idle EXCEPT !.op = op, !.keys = keys, !.todo = keys,
                                 !.val = val, !.ttl = ttl,
                                 !.at = IF op = "publish" THEN "l2" ELSE "l1"]]
  /\ mixed' = mixed \cup Races(c, op, keys)
  /\ deleted' = IF op \in Sets THEN deleted \ keys ELSE deleted
  /\ UNCHANGED <<l1, recency, l2, flight>>

Return(c) == call' = [call EXCEPT ![c] = Idle]
LastKey(c, k) == call[c].todo = {k}

\* Get and Exists look into L1 first.
LookUp(c, k) ==
  /\ call[c].op \in {"get", "exists"} /\ call[c].at = "l1"
  /\ l1Get(Home[c], k)
  /\ IF Hit(Home[c], k) \/ call[c].op = "exists"
     THEN Return(c) ELSE call' = [call EXCEPT ![c].at = "flight"]
  /\ UNCHANGED <<l2, flight, deleted, mixed>>

\* sf.Do: the first caller reads Redis, the others wait for its result.
JoinFlight(c, k) ==
  LET n == Home[c]
  IN /\ call[c].at = "flight"
     /\ \/ /\ flight[n][k] = Nothing
           /\ flight' = [flight EXCEPT ![n][k] = c]
           /\ call' = [call EXCEPT ![c].at = "read"]
        \/ /\ flight[n][k] # Nothing
           /\ call' = [call EXCEPT ![c].at = "wait"]
           /\ UNCHANGED flight
     /\ UNCHANGED <<l1, recency, l2, deleted, mixed>>

\* Mutated Land: the goroutines that wait get no result.
LandAlone(c, k) ==
  /\ flight' = [flight EXCEPT ![Home[c]][k] = Nothing]
  /\ Return(c)

\* The end of the flight: everyone who waits for it returns as well.
Land(c, k) ==
  LET n == Home[c]
  IN /\ flight' = [flight EXCEPT ![n][k] = Nothing]
     /\ call' = [d \in Callers |->
          IF d = c \/ (Home[d] = n /\ call[d].at = "wait" /\ k \in call[d].todo) THEN Idle ELSE call[d]]

\* Redis GET; a miss or an error ends the flight.
ReadL2(c, k) ==
  /\ call[c].at = "read"
  /\ \/ /\ l2[k].val # Nothing
        /\ call' = [call EXCEPT ![c].at = "fill", ![c].val = l2[k].val]
        /\ UNCHANGED flight
     \/ /\ l2[k].val = Nothing \/ "redis" \in Faults
        /\ Land(c, k)
  /\ UNCHANGED <<l1, recency, l2, deleted, mixed>>

\* l1Set with DefaultTTL, whatever is left of the TTL in Redis.
Fill(c, k) ==
  /\ call[c].at = "fill"
  /\ l1Set(Home[c], k, call[c].val, DefaultTTL)
  /\ Land(c, k)
  /\ UNCHANGED <<l2, deleted, mixed>>

\* GetMany: l1Get key by key, one MGET, l1Set key by key; no singleflight.
LookUpMany(c, k) ==
  LET missing == IF Hit(Home[c], k) THEN call[c].missing ELSE call[c].missing \cup {k}
  IN /\ call[c].op = "getMany" /\ call[c].at = "l1"
     /\ l1Get(Home[c], k)
     /\ IF LastKey(c, k) /\ missing = {} THEN Return(c)
        ELSE call' = [call EXCEPT ![c].todo = IF LastKey(c, k) THEN missing ELSE @ \ {k},
                                  ![c].missing = IF LastKey(c, k) THEN {} ELSE missing,
                                  ![c].at = IF LastKey(c, k) THEN "mget" ELSE "l1"]
     /\ UNCHANGED <<l2, flight, deleted, mixed>>

ReadMany(c) ==
  LET found == {k \in call[c].todo : l2[k].val # Nothing}
  IN /\ call[c].at = "mget"
     /\ \/ /\ found # {}
           /\ call' = [call EXCEPT ![c].at = "fillMany", ![c].todo = found,
                                   ![c].read = [k \in Keys |-> l2[k].val]]
        \/ found = {} /\ Return(c)
        \/ "redis" \in Faults /\ Return(c)
     /\ UNCHANGED <<l1, recency, l2, flight, deleted, mixed>>

FillMany(c, k) ==
  /\ call[c].at = "fillMany"
  /\ l1Set(Home[c], k, call[c].read[k], DefaultTTL)
  /\ IF LastKey(c, k) THEN Return(c) ELSE call' = [call EXCEPT ![c].todo = @ \ {k}]
  /\ UNCHANGED <<l2, flight, deleted, mixed>>

-----------------------------------------------------------------------------
\* Set, SetNil and SetMany store into L1 first ...
StoreL1(c, k) ==
  /\ call[c].op \in Sets /\ call[c].at = "l1"
  /\ l1Set(Home[c], k, call[c].val, call[c].ttl)
  /\ call' = [call EXCEPT ![c].todo = @ \ {k}, ![c].at = IF LastKey(c, k) THEN "l2" ELSE "l1"]
  /\ UNCHANGED <<l2, flight, deleted, mixed>>

\* Mutated StoreL2: SETNX instead of SET.
StoreL2IfAbsent(c) ==
  /\ call[c].op \in Sets /\ call[c].at = "l2"
  /\ l2' = [k \in Keys |-> IF k \in call[c].keys /\ l2[k].val = Nothing
                           THEN [val |-> call[c].val, ttl |-> call[c].ttl] ELSE l2[k]]
  /\ Return(c)
  /\ UNCHANGED <<l1, recency, flight, deleted, mixed>>

\* ... then into Redis; MSET takes no TTL.  An error is returned, L1 stays.
StoreL2(c) ==
  /\ call[c].op \in Sets /\ call[c].at = "l2"
  /\ \/ /\ l2' = [k \in Keys |->
             IF k \in call[c].keys
             THEN [val |-> call[c].val, ttl |-> IF call[c].op = "setMany" THEN Forever ELSE call[c].ttl]
             ELSE l2[k]]
        /\ UNCHANGED mixed
     \/ /\ "redis" \in Faults
        /\ mixed' = mixed \cup call[c].keys
        /\ UNCHANGED l2
  /\ Return(c)
  /\ UNCHANGED <<l1, recency, flight, deleted>>

\* Mutated RemoveL1: Clear and Delete leave L1 alone.
RemoveL1Skipped(c) ==
  /\ call[c].op \in {"delete", "clear", "publish"} /\ call[c].at = "l1"
  /\ IF call[c].op = "publish" THEN Return(c) ELSE call' = [call EXCEPT ![c].at = "l2"]
  /\ UNCHANGED <<l1, recency, l2, flight, deleted, mixed>>

\* Delete and Clear empty L1 first, PublishInvalidation empties it last.
RemoveL1(c) ==
  /\ call[c].op \in {"delete", "clear", "publish"} /\ call[c].at = "l1"
  /\ l1Remove(Home[c], call[c].keys)
  /\ IF call[c].op = "publish" THEN Return(c) ELSE call' = [call EXCEPT ![c].at = "l2"]
  /\ UNCHANGED <<l2, flight, deleted, mixed>>

\* DEL in Redis; Clear deletes what SCAN returns key by key.  The message
\* PublishInvalidation sends on "cache:invalidate" has no receiver.
RemoveL2(c, k) ==
  LET op == call[c].op
  IN /\ op \in {"delete", "clear", "publish"} /\ call[c].at = "l2"
     /\ \/ /\ l2' = [l2 EXCEPT ![k] = NoEntry]
           /\ CASE op = "publish" -> call' = [call EXCEPT ![c].at = "l1"]
                [] op # "publish" /\ LastKey(c, k) -> Return(c)
                [] OTHER -> call' = [call EXCEPT ![c].todo = @ \ {k}]
           /\ deleted' = deleted \cup {k}
           /\ UNCHANGED mixed
        \/ /\ "redis" \in Faults
           /\ mixed' = mixed \cup call[c].keys
           /\ Return(c)
           /\ UNCHANGED <<l2, deleted>>
     /\ UNCHANGED <<l1, recency, flight>>

-----------------------------------------------------------------------------
(* Time. *)

Older(e) == IF e.ttl <= 0 THEN e ELSE [e EXCEPT !.ttl = @ - 1]

\* A Redis key whose TTL ends is removed.
Tick ==
  LET dead == {k \in Keys : l2[k].ttl = 1}
  IN /\ l2' = [k \in Keys |-> IF k \in dead THEN NoEntry ELSE Older(l2[k])]
     /\ l1' = [n \in Nodes |-> [k \in Keys |-> Older(l1[n][k])]]
     /\ UNCHANGED <<recency, call, flight, deleted, mixed>>

\* evictLoop's sweep.
Sweep(n) ==
  /\ l1Remove(n, {k \in Keys : InL1(n, k) /\ l1[n][k].ttl = 0})
  /\ UNCHANGED <<l2, call, flight, deleted, mixed>>

l2Key(k) == <<"cache", k>>

\* invalidationLoop receives the expiry event of k, which may be late or lost:
\* l1Del(msg.Payload), where the payload is the Redis key, not the key of L1.
Invalidate(n, k) ==
  /\ l1Remove(n, {l2Key(k)})
  /\ UNCHANGED <<l2, call, flight, deleted, mixed>>

-----------------------------------------------------------------------------
Step(c) ==
  \/ \E k \in call[c].todo :
       \/ LookUp(c, k) \/ JoinFlight(c, k) \/ ReadL2(c, k) \/ Fill(c, k)
       \/ LookUpMany(c, k) \/ FillMany(c, k) \/ StoreL1(c, k) \/ RemoveL2(c, k)
  \/ ReadMany(c) \/ StoreL2(c) \/ RemoveL1(c)

Next ==
  \/ \E c \in Callers :
       \/ \E op \in {"get", "exists", "delete", "publish"}, k \in Keys : Begin(c, op, {k}, Nothing, 0)
       \/ \E k \in Keys, v \in Values, t \in TTLs : Begin(c, "set", {k}, v, t)
       \/ \E k \in Keys : Begin(c, "setNil", {k}, NilValue, NilTTL)
       \/ \E op \in {"getMany", "clear"} : Begin(c, op, Keys, Nothing, 0)
       \/ \E v \in Values, t \in TTLs : Begin(c, "setMany", Keys, v, t)
       \/ Step(c)
  \/ Tick
  \/ \E n \in Nodes : Sweep(n) \/ \E k \in Keys : Invalidate(n, k)

Spec == Init /\ [][Next]_vars

\* Goroutines run and Redis answers or fails.
FairSpec == Spec /\ \A c \in Callers : WF_vars(Step(c))

RoomIsMade(n) ==
  ~(Held(n)' \subseteq Held(n)) =>
    /\ Cardinality(Held(n)') <= L1MaxSize
    /\ \A x, y \in Held(n) \ Held(n)' : x = y
    /\ \A k \in Held(n) \ Held(n)' :
         L1MaxSize > 1 => \E x \in Held(n) : <<k, x>> \in recency[n]

\* A key that comes into a map leaves it within L1MaxSize and pushes out at most
\* one other, never the one hit last (unless L1MaxSize is 1).
RecentSurvives == [][\A n \in Nodes : RoomIsMade(n)]_vars

Quiet(k) == \A c \in Callers : ~UsesKey(c, k)

\* Where both levels hold a key they hold the same value, as long as the key's
\* writes never overlapped another call, failed, or left it in another node's
\* L1: concurrent reads, refills, evictions and expiries do not separate them.
LevelsAgree ==
  \A n \in Nodes, k \in Keys \ mixed :
    Quiet(k) /\ Hit(n, k) /\ l2[k].val # Nothing => l1[n][k].val = l2[k].val

\* Every call returns: no goroutine stays in one for ever.
EveryCallReturns == \A c \in Callers : []<>(call[c] = Idle)

\* "Deletes the key from L1 and L2" (Delete, Clear, PublishInvalidation): without
\* a new write it is not back in either, as long as no call overlapped the
\* deletion, no Redis command failed and no other node had the key in its L1.
DeletedStaysDeleted ==
  \A k \in deleted \ mixed :
    Quiet(k) => l2[k].val = Nothing /\ \A n \in Nodes : ~Hit(n, k)
=============================================================================
