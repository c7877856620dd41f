---------------------------- MODULE CacheProofs ----------------------------
(***************************************************************************)
(* MultiLevelCache: that the levels agree, that a deletion lasts and that  *)
(* room in L1 is made by the entry not hit for longest, for any number of  *)
(* nodes, keys and goroutines.  The first two speak of keys no call uses;  *)
(* the invariant adds what holds of a key while calls use it: a write has  *)
(* it to itself, and a value read from Redis that is still to be stored    *)
(* into L1 is the one that Redis holds.  For the third, the entries of an  *)
(* L1 are in the order of their hits and fit into it.                      *)
(***************************************************************************)
EXTENDS MultiLevelCache, FiniteSetTheorems, WellFoundedInduction, TLAPS

EntryType == [val : Stored \cup {Nothing}, ttl : Int]

Places == {"idle", "l1", "flight", "read", "wait", "fill", "mget", "fillMany", "l2"}

CallType ==
  [op : AllOps \cup {"none"}, at : Places, todo : SUBSET Keys, keys : SUBSET Keys,
   val : Stored \cup {Nothing}, ttl : Int, missing : SUBSET Keys,
   read : [Keys -> Stored \cup {Nothing}]]

\* Where a call can be, and which of its keys are still to do.
CallInPlace(r) ==
  /\ r.todo \subseteq r.keys /\ r.missing \subseteq r.keys
  /\ r.at \in {"flight", "read", "wait", "fill"} => r.op = "get"
  /\ r.at \in {"mget", "fillMany"} => r.op = "getMany"
  /\ r.at = "l2" => r.op \in Writes
  /\ r.op \in Sets /\ r.at = "l2" => r.todo = {}
  /\ r.op \notin {"getMany", "setMany", "clear"} => \A x, y \in r.keys : x = y
  /\ r.op = "none" => r = Idle

TypesOK ==
  /\ l1 \in [Nodes -> [Keys -> EntryType]]
  /\ l2 \in [Keys -> EntryType]
  /\ call \in [Callers -> CallType]
  /\ \A c \in Callers : CallInPlace(call[c])

\* What holds of key k while call c uses it.
OnKey(k, c) ==
  LET r == call[c]
      n == Home[c]
  IN /\ r.op \in Writes => \A m \in Nodes \ {n} : ~InL1(m, k)
     /\ r.op \in Sets => k \notin deleted /\ (k \notin r.todo /\ Hit(n, k) => l1[n][k].val = r.val)
     /\ r.op \in {"delete", "clear"} /\ r.at = "l2" => ~InL1(n, k)
     /\ r.op = "publish" /\ r.at = "l1" => l2[k].val = Nothing
     /\ r.at = "fill" => k \notin deleted /\ (l2[k].val # Nothing => r.val = l2[k].val)
     /\ r.at = "fillMany" /\ k \in r.todo =>
          k \notin deleted /\ (l2[k].val # Nothing => r.read[k] = l2[k].val)

Writing(k) == \E c \in Callers : UsesKey(c, k) /\ call[c].op \in Writes

Publishes(c, k) == UsesKey(c, k) /\ call[c].op = "publish" /\ call[c].at = "l1"

WriteAlone(k) == \A c, d \in Callers : UsesKey(c, k) /\ UsesKey(d, k) /\ call[c].op \in Writes => c = d

AgreeOn(k) == \A n \in Nodes : Hit(n, k) /\ l2[k].val # Nothing => l1[n][k].val = l2[k].val

\* Only the L1 that PublishInvalidation is about to empty may hold a deleted key.
GoneFrom(k) ==
  /\ l2[k].val = Nothing
  /\ \A n \in Nodes : InL1(n, k) => \E c \in Callers : Publishes(c, k) /\ n = Home[c]

KeyInOrder(k) ==
  k \notin mixed =>
    /\ WriteAlone(k)
    /\ \A c \in Callers : UsesKey(c, k) => OnKey(k, c)
    /\ ~Writing(k) => AgreeOn(k)
    /\ k \in deleted => GoneFrom(k)

CacheIInv == TypesOK /\ \A k \in Keys : KeyInOrder(k)

-----------------------------------------------------------------------------
\* What an entry of L1 may become while nobody stores into it.
Fades(m, k) ==
  /\ InL1(m, k)' => InL1(m, k) /\ l1'[m][k].val = l1[m][k].val
  /\ Hit(m, k)' => Hit(m, k)

\* A call that a step leaves alone, that does not use the key, or that only reads.
CallKept(d, k) ==
  \/ call'[d] = call[d]
  \/ ~UsesKey(d, k) /\ ~UsesKey(d, k)'
  \/ /\ UsesKey(d, k) /\ call[d].op \notin Writes
     /\ UsesKey(d, k)' => call'[d].op = call[d].op /\ OnKey(k, d)'

\* A step that stores nothing for key k and deletes nothing keeps it in order.
LEMMA KeyKept ==
  ASSUME NEW k \in Keys, KeyInOrder(k), \A d \in Callers : CallKept(d, k),
         \A m \in Nodes : Fades(m, k), l2'[k].val \in {l2[k].val, Nothing},
         k \in mixed => k \in mixed', k \in deleted' <=> k \in deleted
  PROVE  KeyInOrder(k)'
<1>. SUFFICES ASSUME k \notin mixed'
              PROVE  /\ WriteAlone(k)'
                     /\ \A c \in Callers : UsesKey(c, k)' => OnKey(k, c)'
                     /\ ~Writing(k)' => AgreeOn(k)'
                     /\ k \in deleted' => GoneFrom(k)'
  BY DEF KeyInOrder
<1>1. /\ WriteAlone(k) /\ \A c \in Callers : UsesKey(c, k) => OnKey(k, c)
      /\ ~Writing(k) => AgreeOn(k)
      /\ k \in deleted => GoneFrom(k)
  BY DEF KeyInOrder
<1>2. \A d \in Callers : UsesKey(d, k)' => UsesKey(d, k) /\ call'[d].op = call[d].op
  BY DEF CallKept, UsesKey
<1>3. \A d \in Callers : UsesKey(d, k) /\ call[d].op \in Writes => call'[d] = call[d] /\ UsesKey(d, k)'
  BY DEF CallKept, UsesKey
<1>4. WriteAlone(k)'
  BY <1>1, <1>2 DEF WriteAlone
<1>5. ASSUME NEW c \in Callers, UsesKey(c, k)' PROVE OnKey(k, c)'
  <2>1. CASE call'[c] = call[c]
    <3>1. UsesKey(c, k) /\ OnKey(k, c) /\ Home[c] \in Nodes
      BY <1>1, <1>2, <1>5, CacheAssumption
    <3>2. PICK r, n : r = call[c] /\ n = Home[c]
      OBVIOUS
    <3>3. /\ r.op \in Writes => \A m \in Nodes \ {n} : ~InL1(m, k)'
          /\ r.op \in {"delete", "clear"} /\ r.at = "l2" => ~InL1(n, k)'
      BY <3>1, <3>2 DEF OnKey, Fades
    <3>4. r.op \in Sets => k \notin deleted' /\ (k \notin r.todo /\ Hit(n, k)' => l1'[n][k].val = r.val)
      BY <3>1, <3>2 DEF OnKey, Fades, Hit
    <3>5. r.op = "publish" /\ r.at = "l1" => l2'[k].val = Nothing
      BY <3>1, <3>2 DEF OnKey
    <3>6. /\ r.at = "fill" => k \notin deleted' /\ (l2'[k].val # Nothing => r.val = l2'[k].val)
          /\ r.at = "fillMany" /\ k \in r.todo =>
               k \notin deleted' /\ (l2'[k].val # Nothing => r.read[k] = l2'[k].val)
      BY <3>1, <3>2 DEF OnKey
    <3>. QED
      BY <2>1, <3>2, <3>3, <3>4, <3>5, <3>6 DEF OnKey
  <2>2. CASE call'[c] # call[c]
    BY <1>2, <1>5, <2>2 DEF CallKept
  <2>. QED
    BY <2>1, <2>2
<1>6. Writing(k) => Writing(k)'
  BY <1>3 DEF Writing
<1>7. AgreeOn(k) => AgreeOn(k)'
  BY DEF AgreeOn, Fades, Hit
<1>8. GoneFrom(k) => GoneFrom(k)'
  <2>1. ASSUME NEW c \in Callers, Publishes(c, k) PROVE Publishes(c, k)'
    BY <1>3, <2>1 DEF Publishes, Writes, AllOps
  <2>. QED
    BY <2>1 DEF GoneFrom, Fades
<1>. QED
  BY <1>1, <1>4, <1>5, <1>6, <1>7, <1>8

\* Idle, as a call.
LEMMA IdleType == Idle \in CallType /\ CallInPlace(Idle) /\ Idle.op = "none"
BY DEF Idle, CallType, CallInPlace, Places, Sets, Writes, AllOps

LEMMA NoEntryType == NoEntry \in EntryType /\ NoEntry.val = Nothing
BY DEF NoEntry, EntryType

\* l1Set: one entry is stored; another may be evicted.
LEMMA L1SetEffect ==
  ASSUME TypesOK, NEW n \in Nodes, NEW k \in Keys, NEW val \in Stored \cup {Nothing}, NEW ttl \in Int,
         l1Set(n, k, val, ttl)
  PROVE  /\ l1' \in [Nodes -> [Keys -> EntryType]] /\ l1'[n][k].val = val
         /\ \A m \in Nodes, x \in Keys : m # n \/ x # k => Fades(m, x)
<1>1. PICK gone : l1' = [l1 EXCEPT ![n] = [x \in Keys |-> IF x = k THEN [val |-> val, ttl |-> ttl]
                                                     ELSE IF x \in gone THEN NoEntry ELSE @[x]]]
  BY DEF l1Set
<1>2. PICK e : e = [val |-> val, ttl |-> ttl]
  OBVIOUS
<1>3. e \in EntryType /\ e.val = val
  BY <1>2 DEF EntryType
<1>4. \A x \in Keys : l1[n][x] \in EntryType
  BY DEF TypesOK
<1>5. PICK f : f = [x \in Keys |-> IF x = k THEN e ELSE IF x \in gone THEN NoEntry ELSE l1[n][x]]
  OBVIOUS
<1>6. f \in [Keys -> EntryType] /\ f[k] = e /\ \A x \in Keys : x # k => f[x] \in {l1[n][x], NoEntry}
  BY <1>3, <1>4, <1>5, NoEntryType
<1>7. l1' = [l1 EXCEPT ![n] = f]
  BY <1>1, <1>2, <1>5 DEF TypesOK
<1>8. /\ l1' \in [Nodes -> [Keys -> EntryType]] /\ l1'[n] = f
      /\ \A m \in Nodes : m # n => l1'[m] = l1[m]
  BY <1>6, <1>7 DEF TypesOK
<1>9. ASSUME NEW m \in Nodes, NEW x \in Keys, m # n \/ x # k PROVE Fades(m, x)
  <2>1. l1'[m][x] \in {l1[m][x], NoEntry}
    BY <1>6, <1>8, <1>9
  <2>. QED
    BY <2>1, NoEntryType DEF Fades, Hit, InL1
<1>. QED
  BY <1>3, <1>6, <1>8, <1>9

\* l1Del and l1Clear.
LEMMA L1RemoveEffect ==
  ASSUME TypesOK, NEW n \in Nodes, NEW S, l1Remove(n, S)
  PROVE  /\ l1' \in [Nodes -> [Keys -> EntryType]]
         /\ \A m \in Nodes, x \in Keys : Fades(m, x)
         /\ \A x \in Keys : x \in S => ~InL1(n, x)'
<1>1. l1' = [l1 EXCEPT ![n] = [x \in Keys |-> IF x \in S THEN NoEntry ELSE @[x]]]
  BY DEF l1Remove
<1>2. \A x \in Keys : l1[n][x] \in EntryType
  BY DEF TypesOK
<1>3. PICK f : f = [x \in Keys |-> IF x \in S THEN NoEntry ELSE l1[n][x]]
  OBVIOUS
<1>4. f \in [Keys -> EntryType] /\ \A x \in Keys : f[x] = IF x \in S THEN NoEntry ELSE l1[n][x]
  BY <1>2, <1>3, NoEntryType
<1>5. l1' = [l1 EXCEPT ![n] = f]
  BY <1>1, <1>3 DEF TypesOK
<1>6. /\ l1' \in [Nodes -> [Keys -> EntryType]] /\ l1'[n] = f
      /\ \A m \in Nodes : m # n => l1'[m] = l1[m]
  BY <1>4, <1>5 DEF TypesOK
<1>7. ASSUME NEW m \in Nodes, NEW x \in Keys PROVE Fades(m, x)
  <2>1. l1'[m][x] \in {l1[m][x], NoEntry}
    BY <1>4, <1>6
  <2>. QED
    BY <2>1, NoEntryType DEF Fades, Hit, InL1
<1>8. \A x \in Keys : x \in S => ~InL1(n, x)'
  BY <1>4, <1>6, NoEntryType DEF InL1
<1>. QED
  BY <1>6, <1>7, <1>8

LEMMA L1SameEffect ==
  ASSUME TypesOK, l1' = l1
  PROVE  /\ l1' \in [Nodes -> [Keys -> EntryType]]
         /\ \A m \in Nodes, x \in Keys : Fades(m, x)
BY DEF TypesOK, Fades, Hit, InL1

LEMMA L1GetEffect ==
  ASSUME TypesOK, NEW n \in Nodes, NEW k \in Keys, l1Get(n, k)
  PROVE  /\ l1' \in [Nodes -> [Keys -> EntryType]]
         /\ \A m \in Nodes, x \in Keys : Fades(m, x)
<1>1. l1' = l1 \/ l1Remove(n, {k})
  BY DEF l1Get
<1>. QED
  BY <1>1, L1SameEffect, L1RemoveEffect

\* The types of the calls after one of them has changed.
LEMMA CallsTyped ==
  ASSUME TypesOK, NEW c \in Callers, NEW n, n \in CallType, CallInPlace(n), call' = [call EXCEPT ![c] = n]
  PROVE  /\ call' \in [Callers -> CallType] /\ \A d \in Callers : CallInPlace(call[d])'
         /\ call'[c] = n /\ \A d \in Callers : d # c => call'[d] = call[d]
<1>1. /\ call' \in [Callers -> CallType] /\ call'[c] = n
      /\ \A d \in Callers : d # c => call'[d] = call[d]
  BY DEF TypesOK
<1>2. ASSUME NEW d \in Callers PROVE CallInPlace(call[d])'
  <2>1. CallInPlace(call[d])
    BY DEF TypesOK
  <2>. QED
    BY <1>1, <2>1 DEF CallInPlace
<1>. QED
  BY <1>1, <1>2

\* A step of a call that only reads and stores nothing.
LEMMA ReadStep ==
  ASSUME CacheIInv, NEW c \in Callers, call[c].op \notin Writes,
         NEW n, n \in CallType, CallInPlace(n), call' = [call EXCEPT ![c] = n],
         n.op = "none" \/ (n.op = call[c].op /\ n.keys = call[c].keys),
         l1' \in [Nodes -> [Keys -> EntryType]], \A m \in Nodes, x \in Keys : Fades(m, x),
         l2' = l2, deleted' = deleted, mixed' = mixed,
         \A k \in Keys : k \notin mixed /\ n.op # "none" /\ UsesKey(c, k) => OnKey(k, c)'
  PROVE  CacheIInv'
<1>1. /\ call' \in [Callers -> CallType] /\ \A d \in Callers : CallInPlace(call[d])'
      /\ call'[c] = n /\ \A d \in Callers : d # c => call'[d] = call[d]
  BY CallsTyped DEF CacheIInv
<1>2. TypesOK'
  BY <1>1 DEF CacheIInv, TypesOK
<1>3. ASSUME NEW k \in Keys PROVE KeyInOrder(k)'
  <2>1. CASE k \in mixed
    BY <2>1 DEF KeyInOrder
  <2>2. CASE k \notin mixed
    <3>1. ASSUME NEW d \in Callers PROVE CallKept(d, k)
      BY <1>1, <2>2 DEF CallKept, UsesKey
    <3>. QED
      BY <3>1, KeyKept DEF CacheIInv
  <2>. QED
    BY <2>1, <2>2
<1>. QED
  BY <1>2, <1>3 DEF CacheIInv

\* A value read from Redis goes into L1: no write of the key is under way.
LEMMA KeyFilled ==
  ASSUME NEW k \in Keys, KeyInOrder(k), k \notin mixed, k \notin deleted,
         NEW c \in Callers, UsesKey(c, k), call[c].op \notin Writes,
         \A d \in Callers : CallKept(d, k),
         l2[k].val # Nothing => l1'[Home[c]][k].val = l2[k].val,
         \A m \in Nodes : m # Home[c] => Fades(m, k),
         l2' = l2, deleted' = deleted, mixed' = mixed
  PROVE  KeyInOrder(k)'
<1>1. WriteAlone(k) /\ (\A d \in Callers : UsesKey(d, k) => OnKey(k, d)) /\ (~Writing(k) => AgreeOn(k))
  BY DEF KeyInOrder
<1>2. \A d \in Callers : UsesKey(d, k) => call[d].op \notin Writes
  BY <1>1 DEF WriteAlone
<1>3. AgreeOn(k)
  BY <1>1, <1>2 DEF Writing
<1>4. \A d \in Callers : UsesKey(d, k)' => UsesKey(d, k) /\ call'[d].op = call[d].op
  BY DEF CallKept, UsesKey
<1>5. WriteAlone(k)'
  BY <1>2, <1>4 DEF WriteAlone
<1>6. ASSUME NEW d \in Callers, UsesKey(d, k)' PROVE OnKey(k, d)'
  <2>1. CASE call'[d] = call[d]
    <3>1. UsesKey(d, k) /\ OnKey(k, d) /\ call[d].op \notin Writes
      BY <1>1, <1>2, <1>4, <1>6
    <3>2. call[d].op \notin Sets \cup {"delete", "clear", "publish"}
      BY <3>1 DEF Writes, AllOps, Sets
    <3>. QED
      BY <2>1, <3>1, <3>2 DEF OnKey
  <2>2. CASE call'[d] # call[d]
    BY <1>4, <1>6, <2>2 DEF CallKept
  <2>. QED
    BY <2>1, <2>2
<1>7. AgreeOn(k)'
  <2>1. ASSUME NEW n \in Nodes, Hit(n, k)', l2[k].val # Nothing PROVE l1'[n][k].val = l2[k].val
    <3>1. CASE n = Home[c]
      BY <2>1, <3>1
    <3>2. CASE n # Home[c]
      BY <1>3, <2>1, <3>2 DEF AgreeOn, Fades, Hit
    <3>. QED
      BY <3>1, <3>2
  <2>. QED
    BY <2>1 DEF AgreeOn
<1>. QED
  BY <1>5, <1>6, <1>7 DEF KeyInOrder

\* The end of a flight: every call it ends is a Get.
LEMMA Landed ==
  ASSUME TypesOK, NEW c \in Callers, NEW k \in Keys, call[c].op = "get", Land(c, k)
  PROVE  /\ call' \in [Callers -> CallType] /\ \A d \in Callers : CallInPlace(call[d])'
         /\ \A d \in Callers, x \in Keys : CallKept(d, x)
<1>1. \A d \in Callers : call'[d] = call[d] \/ (call'[d] = Idle /\ (d = c \/ call[d].at = "wait"))
  BY DEF Land
<1>2. \A d \in Callers : d = c \/ call[d].at = "wait" => call[d].op = "get"
  BY DEF TypesOK, CallInPlace
<1>3. call' \in [Callers -> CallType]
  BY IdleType DEF TypesOK, Land
<1>4. ASSUME NEW d \in Callers PROVE CallInPlace(call[d])'
  <2>1. CallInPlace(call[d])
    BY DEF TypesOK
  <2>. QED
    BY <1>1, <2>1, IdleType DEF CallInPlace
<1>5. "get" \notin Writes
  BY DEF Writes
<1>6. ASSUME NEW d \in Callers, NEW x \in Keys PROVE CallKept(d, x)
  <2>1. CASE call'[d] = call[d]
    BY <2>1 DEF CallKept
  <2>2. CASE call'[d] # call[d]
    <3>1. call'[d].op = "none" /\ call[d].op \notin Writes
      BY <1>1, <1>2, <1>5, <2>2, IdleType
    <3>. QED
      BY <3>1 DEF CallKept, UsesKey
  <2>. QED
    BY <2>1, <2>2
<1>. QED
  BY <1>3, <1>4, <1>6

\* A step of a write on a key it uses: nobody else uses the key.
LEMMA WriteStep ==
  ASSUME NEW k \in Keys, KeyInOrder(k), NEW c \in Callers, UsesKey(c, k), call[c].op \in Writes,
         \A d \in Callers : d # c => call'[d] = call[d], k \in mixed => k \in mixed',
         k \notin mixed' /\ UsesKey(c, k)' => OnKey(k, c)',
         k \notin mixed' /\ UsesKey(c, k)' => call'[c].op \in Writes,
         k \notin mixed' /\ ~UsesKey(c, k)' => AgreeOn(k)',
         k \notin mixed' /\ k \in deleted' => GoneFrom(k)'
  PROVE  KeyInOrder(k)'
<1>. SUFFICES ASSUME k \notin mixed'
              PROVE  /\ WriteAlone(k)'
                     /\ \A d \in Callers : UsesKey(d, k)' => OnKey(k, d)'
                     /\ ~Writing(k)' => AgreeOn(k)'
                     /\ k \in deleted' => GoneFrom(k)'
  BY DEF KeyInOrder
<1>1. \A d \in Callers : d # c => ~UsesKey(d, k) /\ ~UsesKey(d, k)'
  BY DEF KeyInOrder, WriteAlone, UsesKey
<1>. QED
  BY <1>1 DEF WriteAlone, Writing

\* Before such a step.
LEMMA WriteHasKey ==
  ASSUME CacheIInv, NEW c \in Callers, call[c].op \in Writes, NEW k \in Keys, UsesKey(c, k), k \notin mixed
  PROVE  /\ OnKey(k, c) /\ \A m \in Nodes \ {Home[c]} : ~InL1(m, k)
         /\ k \in deleted => l2[k].val = Nothing
BY DEF CacheIInv, KeyInOrder, OnKey, GoneFrom

\* The whole of a write's step: its own keys by WriteStep, the others by KeyKept.
LEMMA WriteIInv ==
  ASSUME CacheIInv, NEW c \in Callers, call[c].op \in Writes,
         NEW n, n \in CallType, CallInPlace(n), call' = [call EXCEPT ![c] = n],
         n.op = "none" \/ (n.op = call[c].op /\ n.keys = call[c].keys),
         l1' \in [Nodes -> [Keys -> EntryType]], l2' \in [Keys -> EntryType],
         \A x \in Keys : ~UsesKey(c, x) =>
           /\ \A m \in Nodes : Fades(m, x)
           /\ l2'[x] = l2[x] /\ (x \in deleted' <=> x \in deleted),
         mixed \subseteq mixed',
         \A k \in Keys : UsesKey(c, k) /\ k \notin mixed' =>
           /\ n.op # "none" => OnKey(k, c)'
           /\ n.op = "none" => AgreeOn(k)'
           /\ k \in deleted' => GoneFrom(k)'
  PROVE  CacheIInv'
<1>1. /\ call' \in [Callers -> CallType] /\ \A d \in Callers : CallInPlace(call[d])'
      /\ call'[c] = n /\ \A d \in Callers : d # c => call'[d] = call[d]
  BY CallsTyped DEF CacheIInv
<1>2. TypesOK'
  BY <1>1 DEF CacheIInv, TypesOK
<1>3. ASSUME NEW k \in Keys PROVE KeyInOrder(k)'
  <2>1. KeyInOrder(k)
    BY DEF CacheIInv
  <2>2. CASE UsesKey(c, k)
    <3>1. UsesKey(c, k)' <=> n.op # "none"
      BY <1>1, <2>2 DEF UsesKey
    <3>. QED
      BY <1>1, <2>1, <2>2, <3>1, WriteStep
  <2>3. CASE ~UsesKey(c, k)
    <3>1. ~UsesKey(c, k)'
      BY <1>1, <2>3 DEF UsesKey
    <3>2. ASSUME NEW d \in Callers PROVE CallKept(d, k)
      BY <1>1, <2>3, <3>1 DEF CallKept
    <3>. QED
      BY <2>1, <2>3, <3>2, KeyKept
  <2>. QED
    BY <2>2, <2>3
<1>. QED
  BY <1>2, <1>3 DEF CacheIInv

\* A call begins.
LEMMA BeginIInv ==
  ASSUME CacheIInv, NEW c \in Callers, NEW op \in AllOps, NEW keys \in SUBSET Keys,
         NEW val \in Stored \cup {Nothing}, NEW ttl \in Int,
         op \notin {"getMany", "setMany", "clear"} => \A x, y \in keys : x = y,
         Begin(c, op, keys, val, ttl)
  PROVE  CacheIInv'
<1>1. PICK n : n = [Idle EXCEPT !.op = op, !.keys = keys, !.todo = keys, !.val = val, !.ttl = ttl,
                                !.at = IF op = "publish" THEN "l2" ELSE "l1"]
  OBVIOUS
<1>2. /\ n \in CallType /\ n.op = op /\ n.keys = keys /\ n.todo = keys /\ n.val = val /\ n.missing = {}
      /\ n.at = IF op = "publish" THEN "l2" ELSE "l1"
  BY <1>1, IdleType DEF CallType, Places, Idle
<1>3. CallInPlace(n)
  BY <1>2 DEF CallInPlace, Writes, Sets, AllOps
<1>4. /\ call[c] = Idle /\ call' = [call EXCEPT ![c] = n] /\ mixed' = mixed \cup Races(c, op, keys)
      /\ deleted' = (IF op \in Sets THEN deleted \ keys ELSE deleted) /\ l1' = l1 /\ l2' = l2
  BY <1>1 DEF Begin
<1>5. /\ call' \in [Callers -> CallType] /\ \A d \in Callers : CallInPlace(call[d])'
      /\ call'[c] = n /\ \A d \in Callers : d # c => call'[d] = call[d]
  BY <1>2, <1>3, <1>4, CallsTyped DEF CacheIInv
<1>6. TypesOK'
  BY <1>4, <1>5 DEF CacheIInv, TypesOK
<1>7. \A x : ~UsesKey(c, x)
  BY <1>4, IdleType DEF UsesKey
<1>8. n.op # "none"
  BY <1>2 DEF AllOps
<1>9. \A m \in Nodes, x \in Keys : Fades(m, x)
  BY <1>4, L1SameEffect DEF CacheIInv
<1>10. ASSUME NEW k \in Keys PROVE KeyInOrder(k)'
  <2>1. KeyInOrder(k)
    BY DEF CacheIInv
  <2>2. CASE k \notin keys
    <3>1. ~UsesKey(c, k)'
      BY <1>2, <1>5, <2>2 DEF UsesKey
    <3>2. ASSUME NEW d \in Callers PROVE CallKept(d, k)
      BY <1>5, <1>7, <3>1 DEF CallKept
    <3>3. (k \in deleted' <=> k \in deleted) /\ l2'[k].val \in {l2[k].val, Nothing} /\ (k \in mixed => k \in mixed')
      BY <1>4, <2>2
    <3>. QED
      BY <1>9, <2>1, <3>2, <3>3, KeyKept
  <2>3. CASE k \in keys
    <3>. SUFFICES ASSUME k \notin mixed'
                  PROVE  /\ WriteAlone(k)'
                         /\ \A d \in Callers : UsesKey(d, k)' => OnKey(k, d)'
                         /\ ~Writing(k)' => AgreeOn(k)'
                         /\ k \in deleted' => GoneFrom(k)'
      BY DEF KeyInOrder
    <3>1. /\ WriteAlone(k) /\ \A d \in Callers : UsesKey(d, k) => OnKey(k, d)
          /\ ~Writing(k) => AgreeOn(k)
          /\ k \in deleted => GoneFrom(k)
      BY <1>4, <2>1 DEF KeyInOrder
    <3>2. /\ \A d \in Callers : UsesKey(d, k) => op \notin Writes /\ call[d].op \notin Writes
          /\ op \in Writes => \A m \in Nodes \ {Home[c]} : ~InL1(m, k)
      BY <1>4, <2>3 DEF Races
    <3>3. \A d \in Callers : d # c => (UsesKey(d, k)' <=> UsesKey(d, k))
      BY <1>5 DEF UsesKey
    <3>4. WriteAlone(k)'
      BY <1>2, <1>5, <3>2, <3>3 DEF WriteAlone
    <3>5. OnKey(k, c)'
      <4>1. op \in Writes => \A m \in Nodes \ {Home[c]} : ~InL1(m, k)'
        BY <1>4, <3>2 DEF InL1
      <4>2. op \in Sets => k \notin deleted' /\ k \in n.todo
        BY <1>2, <1>4, <2>3
      <4>. QED
        BY <1>2, <1>5, <4>1, <4>2 DEF OnKey
    <3>6. ASSUME NEW d \in Callers, d # c, UsesKey(d, k)' PROVE OnKey(k, d)'
      <4>1. OnKey(k, d) /\ call'[d] = call[d] /\ (k \in deleted' => k \in deleted)
        BY <1>4, <1>5, <3>1, <3>3, <3>6
      <4>. QED
        BY <1>4, <4>1 DEF OnKey, Hit, InL1
    <3>7. ASSUME ~Writing(k)' PROVE AgreeOn(k)'
      <4>1. ~Writing(k)
        BY <1>5, <1>7, <3>3, <3>7 DEF Writing
      <4>. QED
        BY <1>4, <3>1, <4>1 DEF AgreeOn, Hit, InL1
    <3>8. ASSUME k \in deleted' PROVE GoneFrom(k)'
      <4>1. GoneFrom(k)
        BY <1>4, <3>1, <3>8
      <4>2. ASSUME NEW d \in Callers, Publishes(d, k) PROVE Publishes(d, k)'
        BY <1>5, <1>7, <3>3, <4>2 DEF Publishes
      <4>. QED
        BY <1>4, <4>1, <4>2 DEF GoneFrom, InL1
    <3>. QED
      BY <3>4, <3>5, <3>6, <3>7, <3>8
  <2>. QED
    BY <2>2, <2>3
<1>. QED
  BY <1>6, <1>10 DEF CacheIInv

\* A call under way with a key still to do.
LEMMA ToDo ==
  ASSUME CacheIInv, NEW c \in Callers, NEW k \in call[c].todo
  PROVE  /\ call[c] \in CallType /\ CallInPlace(call[c]) /\ k \in Keys /\ Home[c] \in Nodes
         /\ call[c].op # "none" /\ UsesKey(c, k)
<1>1. call[c] \in CallType /\ CallInPlace(call[c]) /\ Home[c] \in Nodes
  BY CacheAssumption DEF CacheIInv, TypesOK
<1>2. k \in Keys /\ k \in call[c].keys
  BY <1>1 DEF CallType, CallInPlace
<1>3. call[c].op # "none"
  BY <1>1 DEF CallInPlace, Idle
<1>. QED
  BY <1>1, <1>2, <1>3 DEF UsesKey

\* Get, GetMany and Exists.
LEMMA ReaderIInv ==
  ASSUME CacheIInv, NEW c \in Callers, NEW k \in call[c].todo,
         LookUp(c, k) \/ JoinFlight(c, k) \/ ReadL2(c, k) \/ Fill(c, k) \/ LookUpMany(c, k) \/ FillMany(c, k)
  PROVE  CacheIInv'
<1>0. TypesOK /\ "get" \notin Writes /\ "exists" \notin Writes /\ "getMany" \notin Writes
  BY DEF CacheIInv, Writes
<1>1. PICK r, h : r = call[c] /\ h = Home[c]
  OBVIOUS
<1>2. r \in CallType /\ CallInPlace(r) /\ k \in Keys /\ h \in Nodes /\ r.op # "none" /\ UsesKey(c, k)
  BY <1>1, ToDo
<1>3. ASSUME LookUp(c, k) PROVE CacheIInv'
  <2>1. /\ r.op \in {"get", "exists"} /\ l1Get(h, k) /\ l2' = l2 /\ deleted' = deleted /\ mixed' = mixed
        /\ call' = [call EXCEPT ![c] = Idle] \/ (r.op = "get" /\ call' = [call EXCEPT ![c].at = "flight"])
    BY <1>1, <1>3 DEF LookUp, Return
  <2>2. /\ l1' \in [Nodes -> [Keys -> EntryType]]
        /\ \A m \in Nodes, x \in Keys : Fades(m, x)
    BY <1>0, <1>2, <2>1, L1GetEffect
  <2>3. CASE call' = [call EXCEPT ![c] = Idle]
    BY <1>0, <1>1, <2>1, <2>2, <2>3, IdleType, ReadStep
  <2>4. CASE r.op = "get" /\ call' = [call EXCEPT ![c].at = "flight"]
    <3>1. PICK n : n = [r EXCEPT !.at = "flight"]
      OBVIOUS
    <3>2. /\ n \in CallType /\ n.at = "flight" /\ n.op = r.op /\ n.keys = r.keys /\ n.todo = r.todo
          /\ n.missing = r.missing
      BY <1>2, <3>1 DEF CallType, Places
    <3>3. CallInPlace(n)
      BY <1>2, <2>4, <3>2 DEF CallInPlace, Sets
    <3>4. call' = [call EXCEPT ![c] = n] /\ call'[c] = n
      BY <1>1, <2>4, <3>1 DEF CacheIInv, TypesOK
    <3>5. \A x \in Keys : OnKey(x, c)'
      BY <2>4, <3>2, <3>4 DEF OnKey, Writes, Sets
    <3>. QED
      BY <1>0, <1>1, <2>1, <2>2, <2>4, <3>2, <3>3, <3>4, <3>5, ReadStep
  <2>. QED
    BY <2>1, <2>3, <2>4
<1>4. ASSUME JoinFlight(c, k) PROVE CacheIInv'
  <2>1. PICK at \in {"read", "wait"} :
          /\ call' = [call EXCEPT ![c].at = at] /\ l1' = l1 /\ l2' = l2 /\ deleted' = deleted /\ mixed' = mixed
          /\ r.at = "flight"
    BY <1>1, <1>4 DEF JoinFlight
  <2>2. r.op = "get"
    BY <1>2, <2>1 DEF CallInPlace
  <2>3. PICK n : n = [r EXCEPT !.at = at]
    OBVIOUS
  <2>4. /\ n \in CallType /\ n.at = at /\ n.op = r.op /\ n.keys = r.keys /\ n.todo = r.todo
        /\ n.missing = r.missing
    BY <1>2, <2>3 DEF CallType, Places
  <2>5. CallInPlace(n)
    BY <1>2, <2>2, <2>4 DEF CallInPlace, Sets
  <2>6. call' = [call EXCEPT ![c] = n] /\ call'[c] = n
    BY <1>1, <2>1, <2>3 DEF CacheIInv, TypesOK
  <2>7. \A x \in Keys : OnKey(x, c)'
    BY <2>2, <2>4, <2>6 DEF OnKey, Writes, Sets
  <2>. QED
    BY <1>0, <1>1, <2>1, <2>2, <2>4, <2>5, <2>6, <2>7, L1SameEffect, ReadStep
<1>5. ASSUME NEW x \in Keys, l2[x].val # Nothing, x \notin mixed PROVE x \notin deleted
  BY <1>5 DEF CacheIInv, KeyInOrder, GoneFrom
<1>6. ASSUME ReadL2(c, k) PROVE CacheIInv'
  <2>1. r.at = "read" /\ r.op = "get" /\ l1' = l1 /\ l2' = l2 /\ deleted' = deleted /\ mixed' = mixed
    BY <1>1, <1>2, <1>6 DEF ReadL2, CallInPlace
  <2>2. CASE l2[k].val # Nothing /\ call' = [call EXCEPT ![c].at = "fill", ![c].val = l2[k].val]
    <3>1. PICK n : n = [r EXCEPT !.at = "fill", !.val = l2[k].val]
      OBVIOUS
    <3>2. l2[k].val \in Stored \cup {Nothing}
      BY <1>2 DEF CacheIInv, TypesOK, EntryType
    <3>3. /\ n \in CallType /\ n.at = "fill" /\ n.op = r.op /\ n.keys = r.keys /\ n.todo = r.todo
          /\ n.missing = r.missing /\ n.val = l2[k].val
      BY <1>2, <3>1, <3>2 DEF CallType, Places
    <3>4. CallInPlace(n)
      BY <1>2, <2>1, <3>3 DEF CallInPlace, Sets
    <3>5. call' = [call EXCEPT ![c] = n] /\ call'[c] = n
      BY <1>1, <2>2, <3>1 DEF CacheIInv, TypesOK
    <3>6. ASSUME NEW x \in Keys, x \notin mixed, UsesKey(c, x) PROVE OnKey(x, c)'
      <4>1. x = k
        BY <1>1, <1>2, <2>1, <3>6 DEF CallInPlace, UsesKey
      <4>2. k \notin deleted'
        BY <1>5, <2>1, <2>2, <3>6, <4>1
      <4>. QED
        BY <2>1, <3>3, <3>5, <4>1, <4>2 DEF OnKey, Writes, Sets
    <3>. QED
      BY <1>0, <1>1, <2>1, <3>3, <3>4, <3>5, <3>6, L1SameEffect, ReadStep
  <2>3. CASE Land(c, k)
    <3>1. /\ call' \in [Callers -> CallType] /\ \A d \in Callers : CallInPlace(call[d])'
          /\ \A d \in Callers, x \in Keys : CallKept(d, x)
      BY <1>0, <1>1, <1>2, <2>1, <2>3, Landed
    <3>2. TypesOK'
      BY <1>0, <2>1, <3>1 DEF TypesOK
    <3>3. ASSUME NEW x \in Keys PROVE KeyInOrder(x)'
      BY <1>0, <2>1, <3>1, L1SameEffect, KeyKept DEF CacheIInv
    <3>. QED
      BY <3>2, <3>3 DEF CacheIInv
  <2>. QED
    BY <1>6, <2>2, <2>3 DEF ReadL2
<1>7. ASSUME Fill(c, k) PROVE CacheIInv'
  <2>1. /\ r.at = "fill" /\ r.op = "get" /\ l1Set(h, k, r.val, DefaultTTL) /\ Land(c, k)
        /\ l2' = l2 /\ deleted' = deleted /\ mixed' = mixed
    BY <1>1, <1>2, <1>7 DEF Fill, CallInPlace
  <2>2. r.val \in Stored \cup {Nothing} /\ DefaultTTL \in Int
    BY <1>2, CacheAssumption DEF CallType
  <2>3. /\ l1' \in [Nodes -> [Keys -> EntryType]] /\ l1'[h][k].val = r.val
        /\ \A m \in Nodes, x \in Keys : m # h \/ x # k => Fades(m, x)
    BY <1>0, <1>2, <2>1, <2>2, L1SetEffect
  <2>4. /\ call' \in [Callers -> CallType] /\ \A d \in Callers : CallInPlace(call[d])'
        /\ \A d \in Callers, x \in Keys : CallKept(d, x)
    BY <1>0, <1>1, <1>2, <2>1, Landed
  <2>5. TypesOK'
    BY <1>0, <2>1, <2>3, <2>4 DEF TypesOK
  <2>6. ASSUME NEW x \in Keys PROVE KeyInOrder(x)'
    <3>1. CASE x # k
      BY <2>1, <2>3, <2>4, <3>1, KeyKept DEF CacheIInv
    <3>2. CASE x = k /\ k \notin mixed
      <4>1. KeyInOrder(k) /\ OnKey(k, c)
        BY <1>2, <3>2 DEF CacheIInv, KeyInOrder
      <4>2. k \notin deleted /\ (l2[k].val # Nothing => r.val = l2[k].val)
        BY <1>1, <2>1, <4>1 DEF OnKey
      <4>. QED
        BY <1>0, <1>1, <1>2, <2>1, <2>3, <2>4, <3>2, <4>1, <4>2, KeyFilled
    <3>3. CASE x \in mixed
      BY <2>1, <3>3 DEF KeyInOrder
    <3>. QED
      BY <3>1, <3>2, <3>3
  <2>. QED
    BY <2>5, <2>6 DEF CacheIInv
<1>8. ASSUME LookUpMany(c, k) PROVE CacheIInv'
  <2>1. PICK missing : missing = IF Hit(h, k) THEN r.missing ELSE r.missing \cup {k}
    OBVIOUS
  <2>2. /\ r.op = "getMany" /\ r.at = "l1" /\ l1Get(h, k) /\ l2' = l2 /\ deleted' = deleted /\ mixed' = mixed
        /\ \/ call' = [call EXCEPT ![c] = Idle]
           \/ call' = [call EXCEPT ![c].todo = IF LastKey(c, k) THEN missing ELSE @ \ {k},
                                   ![c].missing = IF LastKey(c, k) THEN {} ELSE missing,
                                   ![c].at = IF LastKey(c, k) THEN "mget" ELSE "l1"]
    BY <1>1, <1>8, <2>1 DEF LookUpMany, Return
  <2>3. /\ l1' \in [Nodes -> [Keys -> EntryType]]
        /\ \A m \in Nodes, x \in Keys : Fades(m, x)
    BY <1>0, <1>2, <2>2, L1GetEffect
  <2>4. CASE call' = [call EXCEPT ![c] = Idle]
    BY <1>0, <1>1, <2>2, <2>3, <2>4, IdleType, ReadStep
  <2>5. CASE call' = [call EXCEPT ![c].todo = IF LastKey(c, k) THEN missing ELSE @ \ {k},
                                  ![c].missing = IF LastKey(c, k) THEN {} ELSE missing,
                                  ![c].at = IF LastKey(c, k) THEN "mget" ELSE "l1"]
    <3>1. PICK todo, miss, at : /\ todo = IF LastKey(c, k) THEN missing ELSE r.todo \ {k}
                                /\ miss = IF LastKey(c, k) THEN {} ELSE missing
                                /\ at = IF LastKey(c, k) THEN "mget" ELSE "l1"
      OBVIOUS
    <3>2. /\ r.keys \in SUBSET Keys /\ missing \subseteq r.keys
          /\ todo \subseteq r.keys /\ miss \subseteq r.keys /\ at \in {"mget", "l1"}
      BY <1>1, <1>2, <2>1, <3>1 DEF CallType, CallInPlace, UsesKey
    <3>3. PICK n : n = [r EXCEPT !.todo = todo, !.missing = miss, !.at = at]
      OBVIOUS
    <3>4. /\ n \in CallType /\ n.at = at /\ n.op = r.op /\ n.keys = r.keys /\ n.todo = todo
          /\ n.missing = miss
      BY <1>2, <3>2, <3>3 DEF CallType, Places
    <3>5. CallInPlace(n)
      BY <2>2, <3>2, <3>4 DEF CallInPlace, Sets
    <3>6. call' = [call EXCEPT ![c] = n] /\ call'[c] = n
      BY <1>1, <2>5, <3>1, <3>3 DEF CacheIInv, TypesOK, CallType
    <3>7. \A x \in Keys : OnKey(x, c)'
      BY <2>2, <3>2, <3>4, <3>6 DEF OnKey, Writes, Sets
    <3>. QED
      BY <1>0, <1>1, <2>2, <2>3, <3>4, <3>5, <3>6, <3>7, ReadStep
  <2>. QED
    BY <2>2, <2>4, <2>5
<1>9. ASSUME FillMany(c, k) PROVE CacheIInv'
  <2>1. /\ r.at = "fillMany" /\ r.op = "getMany" /\ l1Set(h, k, r.read[k], DefaultTTL)
        /\ l2' = l2 /\ deleted' = deleted /\ mixed' = mixed
        /\ call' = [call EXCEPT ![c] = Idle] \/ call' = [call EXCEPT ![c].todo = @ \ {k}]
    BY <1>1, <1>2, <1>9 DEF FillMany, CallInPlace, Return
  <2>2. r.read[k] \in Stored \cup {Nothing} /\ DefaultTTL \in Int
    BY <1>2, CacheAssumption DEF CallType
  <2>3. /\ l1' \in [Nodes -> [Keys -> EntryType]] /\ l1'[h][k].val = r.read[k]
        /\ \A m \in Nodes, x \in Keys : m # h \/ x # k => Fades(m, x)
    BY <1>0, <1>2, <2>1, <2>2, L1SetEffect
  <2>4. PICK n : /\ n \in CallType /\ CallInPlace(n) /\ call' = [call EXCEPT ![c] = n]
                 /\ n.op = "none" \/ (n.op = r.op /\ n.keys = r.keys /\ n.at = r.at /\ n.todo \subseteq r.todo
                                        /\ n.read = r.read)
    <3>1. CASE call' = [call EXCEPT ![c] = Idle]
      BY <3>1, IdleType
    <3>2. CASE call' = [call EXCEPT ![c].todo = @ \ {k}]
      <4>1. PICK m : m = [r EXCEPT !.todo = r.todo \ {k}]
        OBVIOUS
      <4>2. r.todo \ {k} \in SUBSET Keys
        BY <1>2 DEF CallType
      <4>3. /\ m \in CallType /\ m.at = r.at /\ m.op = r.op /\ m.keys = r.keys /\ m.todo = r.todo \ {k}
            /\ m.missing = r.missing /\ m.read = r.read
        BY <1>2, <4>1, <4>2 DEF CallType
      <4>4. CallInPlace(m)
        BY <1>2, <2>1, <4>3 DEF CallInPlace, Sets
      <4>5. call' = [call EXCEPT ![c] = m]
        BY <1>1, <1>2, <3>2, <4>1 DEF CacheIInv, TypesOK, CallType
      <4>. QED
        BY <4>3, <4>4, <4>5
    <3>. QED
      BY <2>1, <3>1, <3>2
  <2>5. /\ call' \in [Callers -> CallType] /\ \A d \in Callers : CallInPlace(call[d])'
        /\ call'[c] = n /\ \A d \in Callers : d # c => call'[d] = call[d]
    BY <1>0, <2>4, CallsTyped
  <2>6. TypesOK'
    BY <1>0, <2>1, <2>3, <2>5 DEF TypesOK
  <2>7. ASSUME NEW x \in Keys PROVE KeyInOrder(x)'
    <3>1. CASE x \in mixed
      BY <2>1, <3>1 DEF KeyInOrder
    <3>2. CASE x \notin mixed
      <4>1. KeyInOrder(x)
        BY DEF CacheIInv
      <4>2. UsesKey(c, x)' => UsesKey(c, x) /\ n.op = r.op /\ n.at = r.at /\ n.todo \subseteq r.todo /\ n.read = r.read
        BY <1>1, <1>2, <2>4, <2>5 DEF UsesKey
      <4>3. UsesKey(c, x)' => OnKey(x, c)'
        <5>. SUFFICES ASSUME UsesKey(c, x)' PROVE OnKey(x, c)'
          OBVIOUS
        <5>1. OnKey(x, c)
          BY <3>2, <4>1, <4>2 DEF KeyInOrder
        <5>2. n.at = "fillMany" /\ n.op = "getMany" /\ "getMany" \notin Sets
          BY <2>1, <4>2 DEF Sets
        <5>. QED
          BY <1>0, <1>1, <2>1, <2>5, <4>2, <5>1, <5>2 DEF OnKey
      <4>4. ASSUME NEW d \in Callers PROVE CallKept(d, x)
        BY <1>0, <1>1, <2>1, <2>4, <2>5, <4>2, <4>3 DEF CallKept, UsesKey
      <4>5. CASE x # k
        BY <2>1, <2>3, <4>1, <4>4, <4>5, KeyKept
      <4>6. CASE x = k
        <5>1. k \notin deleted /\ (l2[k].val # Nothing => r.read[k] = l2[k].val)
          BY <1>1, <1>2, <2>1, <3>2, <4>1, <4>6 DEF KeyInOrder, OnKey
        <5>. QED
          BY <1>0, <1>1, <1>2, <2>1, <2>3, <3>2, <4>1, <4>4, <4>6, <5>1, KeyFilled
      <4>. QED
        BY <4>5, <4>6
    <3>. QED
      BY <3>1, <3>2
  <2>. QED
    BY <2>6, <2>7 DEF CacheIInv
<1>. QED
  BY <1>3, <1>4, <1>6, <1>7, <1>8, <1>9

\* MGET.
LEMMA ReadManyIInv ==
  ASSUME CacheIInv, NEW c \in Callers, ReadMany(c)
  PROVE  CacheIInv'
<1>1. PICK r, found : r = call[c] /\ found = {k \in r.todo : l2[k].val # Nothing}
  OBVIOUS
<1>2. /\ r.at = "mget" /\ l1' = l1 /\ l2' = l2 /\ deleted' = deleted /\ mixed' = mixed
      /\ \/ call' = [call EXCEPT ![c] = Idle]
         \/ call' = [call EXCEPT ![c].at = "fillMany", ![c].todo = found,
                                 ![c].read = [k \in Keys |-> l2[k].val]]
  BY <1>1 DEF ReadMany, Return
<1>3. r \in CallType /\ CallInPlace(r) /\ r.op = "getMany" /\ TypesOK
  BY <1>1, <1>2 DEF CacheIInv, TypesOK, CallInPlace
<1>4. "getMany" \notin Writes /\ "getMany" \notin Sets
  BY DEF Writes, Sets
<1>5. CASE call' = [call EXCEPT ![c] = Idle]
  BY <1>1, <1>2, <1>3, <1>4, <1>5, IdleType, L1SameEffect, ReadStep
<1>6. CASE call' = [call EXCEPT ![c].at = "fillMany", ![c].todo = found, ![c].read = [k \in Keys |-> l2[k].val]]
  <2>1. PICK got : got = [k \in Keys |-> l2[k].val]
    OBVIOUS
  <2>2. got \in [Keys -> Stored \cup {Nothing}] /\ \A k \in Keys : got[k] = l2[k].val
    BY <1>3, <2>1 DEF TypesOK, EntryType
  <2>3. found \subseteq r.todo /\ found \in SUBSET Keys /\ \A k \in found : l2[k].val # Nothing
    BY <1>1, <1>3 DEF CallType
  <2>4. PICK n : n = [r EXCEPT !.at = "fillMany", !.todo = found, !.read = got]
    OBVIOUS
  <2>5. /\ n \in CallType /\ n.at = "fillMany" /\ n.op = r.op /\ n.keys = r.keys /\ n.todo = found
        /\ n.missing = r.missing /\ n.read = got
    BY <1>3, <2>2, <2>3, <2>4 DEF CallType, Places
  <2>6. CallInPlace(n)
    BY <1>3, <1>4, <2>3, <2>5 DEF CallInPlace
  <2>7. call' = [call EXCEPT ![c] = n] /\ call'[c] = n
    BY <1>1, <1>3, <1>6, <2>1, <2>4 DEF TypesOK
  <2>8. ASSUME NEW k \in Keys, k \notin mixed PROVE OnKey(k, c)'
    <3>1. k \in found => k \notin deleted
      BY <2>3, <2>8 DEF CacheIInv, KeyInOrder, GoneFrom
    <3>. QED
      BY <1>2, <1>3, <1>4, <2>2, <2>5, <2>7, <3>1 DEF OnKey
  <2>. QED
    BY <1>1, <1>2, <1>3, <1>4, <2>5, <2>6, <2>7, <2>8, L1SameEffect, ReadStep
<1>. QED
  BY <1>2, <1>5, <1>6

\* Set, SetNil and SetMany: L1.
LEMMA StoreL1IInv ==
  ASSUME CacheIInv, NEW c \in Callers, NEW k \in call[c].todo, StoreL1(c, k)
  PROVE  CacheIInv'
<1>1. PICK r, h : r = call[c] /\ h = Home[c]
  OBVIOUS
<1>2. /\ r \in CallType /\ CallInPlace(r) /\ k \in Keys /\ h \in Nodes /\ r.op # "none" /\ UsesKey(c, k)
      /\ TypesOK
  BY <1>1, ToDo DEF CacheIInv
<1>3. /\ r.op \in Sets /\ l1Set(h, k, r.val, r.ttl) /\ l2' = l2 /\ deleted' = deleted /\ mixed' = mixed
      /\ call' = [call EXCEPT ![c].todo = @ \ {k}, ![c].at = IF LastKey(c, k) THEN "l2" ELSE "l1"]
  BY <1>1 DEF StoreL1
<1>4. r.val \in Stored \cup {Nothing} /\ r.ttl \in Int /\ r.op \in Writes
  BY <1>2, <1>3 DEF CallType, Sets, Writes, AllOps
<1>5. /\ l1' \in [Nodes -> [Keys -> EntryType]] /\ l1'[h][k].val = r.val
      /\ \A m \in Nodes, x \in Keys : m # h \/ x # k => Fades(m, x)
  BY <1>2, <1>3, <1>4, L1SetEffect
<1>6. PICK at \in {"l1", "l2"} : at = IF LastKey(c, k) THEN "l2" ELSE "l1"
  OBVIOUS
<1>7. PICK n : n = [r EXCEPT !.todo = r.todo \ {k}, !.at = at]
  OBVIOUS
<1>8. r.todo \ {k} \in SUBSET Keys /\ (at = "l2" => r.todo \ {k} = {})
  BY <1>1, <1>2, <1>6 DEF CallType, LastKey
<1>9. /\ n \in CallType /\ n.at = at /\ n.op = r.op /\ n.keys = r.keys /\ n.todo = r.todo \ {k}
      /\ n.missing = r.missing /\ n.val = r.val
  BY <1>2, <1>7, <1>8 DEF CallType, Places
<1>10. CallInPlace(n)
  BY <1>2, <1>4, <1>8, <1>9 DEF CallInPlace
<1>11. call' = [call EXCEPT ![c] = n] /\ call'[c] = n
  BY <1>1, <1>2, <1>3, <1>6, <1>7 DEF TypesOK, CallType
<1>12. \A x \in Keys : ~UsesKey(c, x) =>
         /\ \A m \in Nodes : Fades(m, x)
         /\ l2'[x] = l2[x] /\ (x \in deleted' <=> x \in deleted)
  BY <1>2, <1>3, <1>5
<1>13. ASSUME NEW x \in Keys, UsesKey(c, x), x \notin mixed
       PROVE  OnKey(x, c)' /\ x \notin deleted'
  <2>1. OnKey(x, c) /\ \A m \in Nodes \ {h} : ~InL1(m, x)
    BY <1>1, <1>4, <1>13, WriteHasKey
  <2>2. \A m \in Nodes \ {h} : ~InL1(m, x)'
    BY <1>5, <2>1 DEF Fades
  <2>3. x \notin deleted' /\ (x \notin r.todo /\ Hit(h, x) => l1[h][x].val = r.val)
    BY <1>1, <1>3, <2>1 DEF OnKey
  <2>4. x \notin n.todo /\ Hit(h, x)' => l1'[h][x].val = r.val
    <3>1. CASE x = k
      BY <1>5, <3>1
    <3>2. CASE x # k
      BY <1>2, <1>5, <1>9, <2>3, <3>2 DEF Fades, Hit
    <3>. QED
      BY <3>1, <3>2
  <2>5. n.op \notin {"delete", "clear", "publish"} /\ n.at \notin {"fill", "fillMany"}
    BY <1>3, <1>9 DEF Sets
  <2>. QED
    BY <1>1, <1>9, <1>11, <2>2, <2>3, <2>4, <2>5 DEF OnKey
<1>. QED
  BY <1>1, <1>2, <1>3, <1>4, <1>5, <1>9, <1>10, <1>11, <1>12, <1>13, WriteIInv DEF TypesOK

\* Set, SetNil and SetMany: Redis.
LEMMA StoreL2IInv ==
  ASSUME CacheIInv, NEW c \in Callers, StoreL2(c)
  PROVE  CacheIInv'
<1>1. PICK r, h : r = call[c] /\ h = Home[c]
  OBVIOUS
<1>2. /\ r \in CallType /\ CallInPlace(r) /\ r.op \in Sets /\ r.at = "l2" /\ h \in Nodes /\ TypesOK
      /\ call' = [call EXCEPT ![c] = Idle] /\ l1' = l1 /\ deleted' = deleted
  BY <1>1, CacheAssumption DEF StoreL2, CacheIInv, TypesOK, Return
<1>3. r.val \in Stored \cup {Nothing} /\ r.ttl \in Int /\ r.op \in Writes /\ r.todo = {}
  BY <1>2 DEF CallType, Sets, Writes, AllOps, CallInPlace
<1>4. \A m \in Nodes, x \in Keys : Fades(m, x)
  BY <1>2, L1SameEffect
<1>5. CASE mixed' = mixed \cup r.keys /\ l2' = l2
  <2>1. \A x \in Keys : UsesKey(c, x) => x \in mixed'
    BY <1>1, <1>5 DEF UsesKey
  <2>. QED
    BY <1>1, <1>2, <1>3, <1>4, <1>5, <2>1, IdleType, WriteIInv DEF TypesOK
<1>6. CASE /\ mixed' = mixed
           /\ l2' = [k \in Keys |->
                IF k \in r.keys
                THEN [val |-> r.val, ttl |-> IF r.op = "setMany" THEN Forever ELSE r.ttl]
                ELSE l2[k]]
  <2>1. PICK e : e = [val |-> r.val, ttl |-> IF r.op = "setMany" THEN Forever ELSE r.ttl]
    OBVIOUS
  <2>2. e \in EntryType /\ e.val = r.val
    BY <1>3, <2>1 DEF EntryType, Forever
  <2>3. l2' = [k \in Keys |-> IF k \in r.keys THEN e ELSE l2[k]]
    BY <1>6, <2>1
  <2>4. l2' \in [Keys -> EntryType] /\ \A x \in Keys : l2'[x] = IF x \in r.keys THEN e ELSE l2[x]
    BY <1>2, <2>2, <2>3 DEF TypesOK
  <2>5. ASSUME NEW x \in Keys, UsesKey(c, x), x \notin mixed
        PROVE  AgreeOn(x)' /\ x \notin deleted'
    <3>1. OnKey(x, c) /\ (\A m \in Nodes \ {h} : ~InL1(m, x)) /\ x \in r.keys
      BY <1>1, <1>3, <2>5, WriteHasKey DEF UsesKey
    <3>2. x \notin deleted /\ (Hit(h, x) => l1[h][x].val = r.val)
      BY <1>1, <1>2, <1>3, <3>1 DEF OnKey
    <3>3. l2'[x].val = r.val
      BY <2>2, <2>4, <3>1
    <3>. QED
      BY <1>2, <3>1, <3>2, <3>3 DEF AgreeOn, Hit, InL1
  <2>6. \A x \in Keys : ~UsesKey(c, x) => l2'[x] = l2[x]
    <3>1. r.op # "none"
      BY <1>2 DEF Sets
    <3>. QED
      BY <1>1, <2>4, <3>1 DEF UsesKey
  <2>. QED
    BY <1>1, <1>2, <1>3, <1>4, <1>6, <2>4, <2>5, <2>6, IdleType, WriteIInv DEF TypesOK
<1>. QED
  BY <1>1, <1>5, <1>6 DEF StoreL2

\* Delete, Clear and PublishInvalidation: L1.
LEMMA RemoveL1IInv ==
  ASSUME CacheIInv, NEW c \in Callers, RemoveL1(c)
  PROVE  CacheIInv'
<1>1. PICK r, h : r = call[c] /\ h = Home[c]
  OBVIOUS
<1>2. /\ r \in CallType /\ CallInPlace(r) /\ r.op \in {"delete", "clear", "publish"} /\ r.at = "l1"
      /\ h \in Nodes /\ TypesOK /\ l1Remove(h, r.keys) /\ l2' = l2 /\ deleted' = deleted /\ mixed' = mixed
  BY <1>1, CacheAssumption DEF RemoveL1, CacheIInv, TypesOK
<1>3. r.op \in Writes
  BY <1>2 DEF Writes, AllOps
<1>4. /\ l1' \in [Nodes -> [Keys -> EntryType]]
      /\ \A m \in Nodes, x \in Keys : Fades(m, x)
      /\ \A x \in Keys : x \in r.keys => ~InL1(h, x)'
  BY <1>2, L1RemoveEffect
<1>5. ASSUME NEW x \in Keys, UsesKey(c, x), x \notin mixed
      PROVE  /\ \A m \in Nodes : ~InL1(m, x)'
             /\ x \in deleted' => l2'[x].val = Nothing
             /\ r.op = "publish" => l2'[x].val = Nothing
  <2>1. OnKey(x, c) /\ (\A m \in Nodes \ {h} : ~InL1(m, x)) /\ (x \in deleted => l2[x].val = Nothing)
    BY <1>1, <1>3, <1>5, WriteHasKey
  <2>2. x \in r.keys
    BY <1>1, <1>5 DEF UsesKey
  <2>. QED
    BY <1>1, <1>2, <1>4, <2>1, <2>2 DEF OnKey, Fades
<1>6. ASSUME NEW x \in Keys, UsesKey(c, x), x \notin mixed
      PROVE  AgreeOn(x)' /\ (x \in deleted' => GoneFrom(x)')
  BY <1>5, <1>6 DEF AgreeOn, GoneFrom, Hit
<1>7. CASE r.op = "publish"
  <2>1. call' = [call EXCEPT ![c] = Idle]
    BY <1>1, <1>7 DEF RemoveL1, Return
  <2>. QED
    BY <1>1, <1>2, <1>3, <1>4, <1>6, <2>1, IdleType, WriteIInv DEF TypesOK
<1>8. CASE r.op # "publish"
  <2>1. PICK n : n = [r EXCEPT !.at = "l2"]
    OBVIOUS
  <2>2. /\ n \in CallType /\ n.at = "l2" /\ n.op = r.op /\ n.keys = r.keys /\ n.todo = r.todo
        /\ n.missing = r.missing
    BY <1>2, <2>1 DEF CallType, Places
  <2>3. CallInPlace(n)
    BY <1>2, <1>3, <2>2 DEF CallInPlace, Sets
  <2>4. call' = [call EXCEPT ![c] = n] /\ call'[c] = n
    BY <1>1, <1>2, <1>8, <2>1 DEF RemoveL1, TypesOK
  <2>5. ASSUME NEW x \in Keys, UsesKey(c, x), x \notin mixed PROVE OnKey(x, c)'
    <3>1. \A m \in Nodes : ~InL1(m, x)'
      BY <1>5, <2>5
    <3>2. n.op \notin Sets /\ n.at \notin {"fill", "fillMany", "l1"} /\ Home[c] \in Nodes
      BY <1>1, <1>2, <2>2 DEF Sets
    <3>. QED
      BY <2>4, <3>1, <3>2 DEF OnKey
  <2>. QED
    BY <1>1, <1>2, <1>3, <1>4, <1>6, <2>2, <2>3, <2>4, <2>5, WriteIInv DEF TypesOK
<1>. QED
  BY <1>7, <1>8

\* Delete, Clear and PublishInvalidation: Redis.
LEMMA RemoveL2IInv ==
  ASSUME CacheIInv, NEW c \in Callers, NEW k \in call[c].todo, RemoveL2(c, k)
  PROVE  CacheIInv'
<1>1. PICK r, h : r = call[c] /\ h = Home[c]
  OBVIOUS
<1>2. /\ r \in CallType /\ CallInPlace(r) /\ k \in Keys /\ h \in Nodes /\ r.op # "none" /\ UsesKey(c, k)
      /\ TypesOK
  BY <1>1, ToDo DEF CacheIInv
<1>3. /\ r.op \in {"delete", "clear", "publish"} /\ r.at = "l2" /\ r.op \in Writes /\ r.op \notin Sets
      /\ l1' = l1
  BY <1>1 DEF RemoveL2, Writes, AllOps, Sets
<1>4. /\ l1' \in [Nodes -> [Keys -> EntryType]]
      /\ \A m \in Nodes, x \in Keys : Fades(m, x)
  BY <1>2, <1>3, L1SameEffect
<1>5. CASE mixed' = mixed \cup r.keys /\ l2' = l2 /\ deleted' = deleted /\ call' = [call EXCEPT ![c] = Idle]
  <2>1. \A x \in Keys : UsesKey(c, x) => x \in mixed'
    BY <1>1, <1>5 DEF UsesKey
  <2>. QED
    BY <1>1, <1>2, <1>3, <1>4, <1>5, <2>1, IdleType, WriteIInv DEF TypesOK
<1>6. CASE /\ mixed' = mixed /\ l2' = [l2 EXCEPT ![k] = NoEntry] /\ deleted' = deleted \cup {k}
           /\ \/ r.op = "publish" /\ call' = [call EXCEPT ![c].at = "l1"]
              \/ r.op # "publish" /\ call' = [call EXCEPT ![c] = Idle]
              \/ r.op # "publish" /\ call' = [call EXCEPT ![c].todo = @ \ {k}]
  <2>1. l2' \in [Keys -> EntryType] /\ l2'[k].val = Nothing /\ \A x \in Keys : x # k => l2'[x] = l2[x]
    BY <1>2, <1>6, NoEntryType DEF TypesOK
  <2>2. \A x \in Keys : ~UsesKey(c, x) => l2'[x] = l2[x] /\ (x \in deleted' <=> x \in deleted)
    BY <1>2, <1>6, <2>1
  <2>3. ASSUME NEW x \in Keys, UsesKey(c, x), x \notin mixed
        PROVE  /\ \A m \in Nodes \ {h} : ~InL1(m, x)'
               /\ r.op # "publish" => ~InL1(h, x)'
               /\ x \in deleted' => l2'[x].val = Nothing
    <3>1. OnKey(x, c) /\ (\A m \in Nodes \ {h} : ~InL1(m, x)) /\ (x \in deleted => l2[x].val = Nothing)
      BY <1>1, <1>3, <2>3, WriteHasKey
    <3>. QED
      BY <1>1, <1>3, <1>6, <2>1, <3>1 DEF OnKey, InL1
  <2>4. CASE r.op = "publish" /\ call' = [call EXCEPT ![c].at = "l1"]
    <3>1. PICK n : n = [r EXCEPT !.at = "l1"]
      OBVIOUS
    <3>2. /\ n \in CallType /\ n.at = "l1" /\ n.op = r.op /\ n.keys = r.keys /\ n.todo = r.todo
          /\ n.missing = r.missing
      BY <1>2, <3>1 DEF CallType, Places
    <3>3. CallInPlace(n)
      BY <1>2, <1>3, <3>2 DEF CallInPlace
    <3>4. call' = [call EXCEPT ![c] = n] /\ call'[c] = n
      BY <1>1, <1>2, <2>4, <3>1 DEF TypesOK
    <3>5. ASSUME NEW x \in Keys, UsesKey(c, x), x \notin mixed
          PROVE  OnKey(x, c)' /\ GoneFrom(x)'
      <4>1. x = k
        BY <1>1, <1>2, <2>4, <3>5 DEF CallInPlace, UsesKey
      <4>2. l2'[x].val = Nothing /\ \A m \in Nodes \ {h} : ~InL1(m, x)'
        BY <2>1, <2>3, <3>5, <4>1
      <4>3. n.op = "publish" /\ "publish" \notin Sets
        BY <2>4, <3>2 DEF Sets
      <4>4. OnKey(x, c)'
        BY <1>1, <3>2, <3>4, <4>2, <4>3 DEF OnKey
      <4>5. Publishes(c, x)'
        BY <1>1, <1>2, <3>2, <3>4, <3>5, <4>3 DEF Publishes, UsesKey
      <4>6. GoneFrom(x)'
        BY <1>1, <4>2, <4>5 DEF GoneFrom
      <4>. QED
        BY <4>4, <4>6
    <3>. QED
      BY <1>1, <1>2, <1>3, <1>4, <1>6, <2>1, <2>2, <3>2, <3>3, <3>4, <3>5, WriteIInv
  <2>5. ASSUME r.op # "publish", NEW x \in Keys, UsesKey(c, x), x \notin mixed
        PROVE  AgreeOn(x)' /\ (x \in deleted' => GoneFrom(x)') /\ \A m \in Nodes : ~InL1(m, x)'
    <3>1. \A m \in Nodes : ~InL1(m, x)'
      BY <1>2, <2>3, <2>5
    <3>. QED
      BY <2>3, <2>5, <3>1 DEF AgreeOn, GoneFrom, Hit
  <2>6. CASE r.op # "publish" /\ call' = [call EXCEPT ![c] = Idle]
    BY <1>1, <1>2, <1>3, <1>4, <1>6, <2>1, <2>2, <2>5, <2>6, IdleType, WriteIInv
  <2>7. CASE r.op # "publish" /\ call' = [call EXCEPT ![c].todo = @ \ {k}]
    <3>1. PICK n : n = [r EXCEPT !.todo = r.todo \ {k}]
      OBVIOUS
    <3>2. r.todo \ {k} \in SUBSET Keys
      BY <1>2 DEF CallType
    <3>3. /\ n \in CallType /\ n.at = r.at /\ n.op = r.op /\ n.keys = r.keys /\ n.todo = r.todo \ {k}
          /\ n.missing = r.missing
      BY <1>2, <3>1, <3>2 DEF CallType, Places
    <3>4. CallInPlace(n)
      BY <1>2, <1>3, <3>3 DEF CallInPlace
    <3>5. call' = [call EXCEPT ![c] = n] /\ call'[c] = n
      BY <1>1, <1>2, <2>7, <3>1 DEF TypesOK, CallType
    <3>6. ASSUME NEW x \in Keys, UsesKey(c, x), x \notin mixed PROVE OnKey(x, c)'
      <4>1. \A m \in Nodes : ~InL1(m, x)'
        BY <2>5, <2>7, <3>6
      <4>2. n.op \notin Sets /\ n.at \notin {"fill", "fillMany", "l1"} /\ Home[c] \in Nodes
        BY <1>1, <1>2, <1>3, <3>3
      <4>. QED
        BY <3>5, <4>1, <4>2 DEF OnKey
    <3>. QED
      BY <1>1, <1>2, <1>3, <1>4, <1>6, <2>1, <2>2, <2>5, <2>7, <3>3, <3>4, <3>5, <3>6, WriteIInv
  <2>. QED
    BY <1>6, <2>4, <2>6, <2>7
<1>. QED
  BY <1>1, <1>5, <1>6 DEF RemoveL2, Return

\* Time passes, an L1 is swept, an expiry event arrives: entries only fade.
LEMMA FadeIInv ==
  ASSUME CacheIInv, l1' \in [Nodes -> [Keys -> EntryType]], l2' \in [Keys -> EntryType],
         \A m \in Nodes, x \in Keys : Fades(m, x), \A x \in Keys : l2'[x].val \in {l2[x].val, Nothing},
         call' = call, deleted' = deleted, mixed' = mixed
  PROVE  CacheIInv'
<1>1. TypesOK'
  BY DEF CacheIInv, TypesOK, CallInPlace
<1>2. ASSUME NEW k \in Keys PROVE KeyInOrder(k)'
  <2>1. \A d \in Callers : CallKept(d, k)
    BY DEF CallKept
  <2>. QED
    BY <2>1, KeyKept DEF CacheIInv
<1>. QED
  BY <1>1, <1>2 DEF CacheIInv

LEMMA OlderEntry ==
  ASSUME NEW e \in EntryType
  PROVE  Older(e) \in EntryType /\ Older(e).val = e.val /\ (Older(e).ttl > 0 => e.ttl > 0)
<1>1. CASE e.ttl <= 0
  BY <1>1 DEF Older
<1>2. CASE ~(e.ttl <= 0)
  <2>1. e.ttl \in Int /\ e.ttl - 1 \in Int /\ e.ttl > 0
    BY <1>2 DEF EntryType
  <2>2. PICK g : g = [e EXCEPT !.ttl = e.ttl - 1]
    OBVIOUS
  <2>3. g \in EntryType /\ g.val = e.val
    BY <2>1, <2>2 DEF EntryType
  <2>4. Older(e) = g
    BY <1>2, <2>2 DEF Older, EntryType
  <2>. QED
    BY <2>1, <2>3, <2>4
<1>. QED
  BY <1>1, <1>2

LEMMA TickIInv ==
  ASSUME CacheIInv, Tick
  PROVE  CacheIInv'
<1>1. PICK dead : /\ l2' = [k \in Keys |-> IF k \in dead THEN NoEntry ELSE Older(l2[k])]
                  /\ l1' = [n \in Nodes |-> [k \in Keys |-> Older(l1[n][k])]]
                  /\ call' = call /\ deleted' = deleted /\ mixed' = mixed
  BY DEF Tick
<1>2. \A x \in Keys : l2[x] \in EntryType /\ \A m \in Nodes : l1[m][x] \in EntryType
  BY DEF CacheIInv, TypesOK
<1>3. /\ l2' \in [Keys -> EntryType] /\ l1' \in [Nodes -> [Keys -> EntryType]]
  BY <1>1, <1>2, OlderEntry, NoEntryType
<1>4. \A x \in Keys : l2'[x].val \in {l2[x].val, Nothing}
  BY <1>1, <1>2, OlderEntry, NoEntryType
<1>5. ASSUME NEW m \in Nodes, NEW x \in Keys PROVE Fades(m, x)
  <2>1. l1'[m][x] = Older(l1[m][x])
    BY <1>1
  <2>2. PICK e \in EntryType : e = l1[m][x]
    BY <1>2
  <2>3. l1'[m][x].val = l1[m][x].val /\ (l1'[m][x].ttl > 0 => l1[m][x].ttl > 0)
    BY <2>1, <2>2, OlderEntry
  <2>. QED
    BY <2>3 DEF Fades, Hit, InL1
<1>. QED
  BY <1>1, <1>3, <1>4, <1>5, FadeIInv

LEMMA CacheNextIInv == CacheIInv /\ [Next]_vars => CacheIInv'
<1>. SUFFICES ASSUME CacheIInv, [Next]_vars PROVE CacheIInv'
  OBVIOUS
<1>0. /\ Nothing \in Stored \cup {Nothing} /\ NilValue \in Stored /\ Values \subseteq Stored
      /\ TTLs \subseteq Int /\ NilTTL \in Int /\ Ops \subseteq AllOps
  BY CacheAssumption DEF Stored
<1>1. ASSUME NEW c \in Callers, NEW op \in {"get", "exists", "delete", "publish"}, NEW k \in Keys,
             Begin(c, op, {k}, Nothing, 0)
      PROVE  CacheIInv'
  <2>1. op \in AllOps /\ {k} \in SUBSET Keys /\ 0 \in Int /\ \A x, y \in {k} : x = y
    BY DEF AllOps
  <2>. QED
    BY <1>0, <1>1, <2>1, BeginIInv
<1>2. ASSUME NEW c \in Callers, NEW k \in Keys, NEW v \in Values, NEW t \in TTLs, Begin(c, "set", {k}, v, t)
      PROVE  CacheIInv'
  <2>1. "set" \in AllOps /\ {k} \in SUBSET Keys /\ t \in Int /\ v \in Stored /\ \A x, y \in {k} : x = y
    BY <1>0 DEF AllOps
  <2>. QED
    BY <1>2, <2>1, BeginIInv
<1>3. ASSUME NEW c \in Callers, NEW k \in Keys, Begin(c, "setNil", {k}, NilValue, NilTTL)
      PROVE  CacheIInv'
  <2>1. "setNil" \in AllOps /\ {k} \in SUBSET Keys /\ \A x, y \in {k} : x = y
    BY DEF AllOps
  <2>. QED
    BY <1>0, <1>3, <2>1, BeginIInv
<1>4. ASSUME NEW c \in Callers, NEW op \in {"getMany", "clear"}, Begin(c, op, Keys, Nothing, 0)
      PROVE  CacheIInv'
  <2>1. op \in AllOps /\ Keys \in SUBSET Keys /\ 0 \in Int
    BY DEF AllOps
  <2>. QED
    BY <1>0, <1>4, <2>1, BeginIInv
<1>5. ASSUME NEW c \in Callers, NEW v \in Values, NEW t \in TTLs, Begin(c, "setMany", Keys, v, t)
      PROVE  CacheIInv'
  <2>1. "setMany" \in AllOps /\ Keys \in SUBSET Keys /\ t \in Int /\ v \in Stored
    BY <1>0 DEF AllOps
  <2>. QED
    BY <1>5, <2>1, BeginIInv
<1>6. ASSUME NEW c \in Callers, Step(c) PROVE CacheIInv'
  <2>1. CASE \E k \in call[c].todo :
                LookUp(c, k) \/ JoinFlight(c, k) \/ ReadL2(c, k) \/ Fill(c, k) \/ LookUpMany(c, k) \/ FillMany(c, k)
    BY <2>1, ReaderIInv
  <2>2. CASE \E k \in call[c].todo : StoreL1(c, k)
    BY <2>2, StoreL1IInv
  <2>3. CASE \E k \in call[c].todo : RemoveL2(c, k)
    BY <2>3, RemoveL2IInv
  <2>4. CASE ReadMany(c) \/ StoreL2(c) \/ RemoveL1(c)
    BY <2>4, ReadManyIInv, StoreL2IInv, RemoveL1IInv
  <2>. QED
    BY <1>6, <2>1, <2>2, <2>3, <2>4 DEF Step
<1>7. ASSUME NEW n \in Nodes, NEW S, l1Remove(n, S), l2' = l2, call' = call, deleted' = deleted, mixed' = mixed
      PROVE  CacheIInv'
  <2>1. /\ l1' \in [Nodes -> [Keys -> EntryType]]
        /\ \A m \in Nodes, x \in Keys : Fades(m, x)
    BY <1>7, L1RemoveEffect DEF CacheIInv
  <2>2. l2' \in [Keys -> EntryType]
    BY <1>7 DEF CacheIInv, TypesOK
  <2>. QED
    BY <1>7, <2>1, <2>2, FadeIInv
<1>8. ASSUME NEW n \in Nodes, Sweep(n) PROVE CacheIInv'
  BY <1>7, <1>8 DEF Sweep
<1>9. ASSUME NEW n \in Nodes, NEW k \in Keys, Invalidate(n, k) PROVE CacheIInv'
  BY <1>7, <1>9 DEF Invalidate
<1>10. CASE UNCHANGED vars
  BY <1>10, L1SameEffect, FadeIInv DEF vars, CacheIInv, TypesOK
<1>. QED
  BY <1>1, <1>2, <1>3, <1>4, <1>5, <1>6, <1>8, <1>9, <1>10, TickIInv DEF Next

LEMMA CacheInitIInv == Init => CacheIInv
<1>. SUFFICES ASSUME Init PROVE CacheIInv
  OBVIOUS
<1>1. /\ \A n \in Nodes, k \in Keys : l1[n][k] = NoEntry
      /\ \A k \in Keys : l2[k] = NoEntry
      /\ \A c \in Callers : call[c] = Idle
      /\ deleted = {}
  BY DEF Init
<1>2. TypesOK
  BY <1>1, IdleType, NoEntryType DEF Init, TypesOK
<1>3. \A c \in Callers, k \in Keys : ~UsesKey(c, k)
  BY <1>1, IdleType DEF UsesKey
<1>4. \A k \in Keys : KeyInOrder(k)
  BY <1>1, <1>3, NoEntryType DEF KeyInOrder, WriteAlone, AgreeOn
<1>. QED
  BY <1>2, <1>4 DEF CacheIInv

\* The levels agree, for any nodes, keys, goroutines, capacities and TTLs.
THEOREM LevelsAgreeTheorem == Spec => []LevelsAgree
<1>1. CacheIInv => LevelsAgree
  BY DEF CacheIInv, KeyInOrder, LevelsAgree, Quiet, Writing, AgreeOn
<1>. QED
  BY <1>1, CacheInitIInv, CacheNextIInv, PTL DEF Spec

\* The history of deletions names keys only.
DeletedKeys == deleted \subseteq Keys

LEMMA DeletedKeysKept == CacheIInv /\ DeletedKeys /\ [Next]_vars => DeletedKeys'
<1>. SUFFICES ASSUME CacheIInv, DeletedKeys, [Next]_vars PROVE DeletedKeys'
  OBVIOUS
<1>1. ASSUME NEW c \in Callers, NEW k \in call[c].todo, RemoveL2(c, k) PROVE DeletedKeys'
  <2>1. k \in Keys
    BY DEF CacheIInv, TypesOK, CallType
  <2>. QED
    BY <1>1, <2>1 DEF RemoveL2, DeletedKeys
<1>2. ASSUME NEW c \in Callers, NEW op, NEW keys, NEW val, NEW ttl, Begin(c, op, keys, val, ttl)
      PROVE  DeletedKeys'
  BY <1>2 DEF Begin, DeletedKeys
<1>3. ASSUME NEW c \in Callers, Step(c) PROVE DeletedKeys'
  BY <1>1, <1>3 DEF Step, DeletedKeys, LookUp, JoinFlight, ReadL2, Fill, LookUpMany, FillMany, StoreL1,
                    ReadMany, StoreL2, RemoveL1
<1>4. ASSUME Tick \/ (\E n \in Nodes : Sweep(n) \/ \E k \in Keys : Invalidate(n, k)) \/ UNCHANGED vars
      PROVE  DeletedKeys'
  BY <1>4 DEF DeletedKeys, Tick, Sweep, Invalidate, vars
<1>. QED
  BY <1>2, <1>3, <1>4 DEF Next

\* A deletion lasts, for any nodes, keys, goroutines, capacities and TTLs.
THEOREM DeletedStaysDeletedTheorem == Spec => []DeletedStaysDeleted
<1>1. CacheIInv /\ DeletedKeys => DeletedStaysDeleted
  <2>. SUFFICES ASSUME CacheIInv, DeletedKeys, NEW k \in deleted \ mixed, Quiet(k)
                PROVE  l2[k].val = Nothing /\ \A n \in Nodes : ~Hit(n, k)
    BY DEF DeletedStaysDeleted
  <2>1. GoneFrom(k)
    BY DEF CacheIInv, KeyInOrder, DeletedKeys
  <2>2. \A c \in Callers : ~Publishes(c, k)
    BY DEF Quiet, Publishes
  <2>. QED
    BY <2>1, <2>2 DEF GoneFrom, Hit
<1>2. Init => DeletedKeys
  BY DEF Init, DeletedKeys
<1>. QED
  BY <1>1, <1>2, CacheInitIInv, CacheNextIInv, DeletedKeysKept, PTL DEF Spec

-----------------------------------------------------------------------------
(* The order of hits. *)

\* Any two keys of H were hit one after the other.
InOrderOn(R, H) ==
  /\ \A x \in H : <<x, x>> \notin R
  /\ \A x, y \in H : x = y \/ <<x, y>> \in R \/ <<y, x>> \in R
  /\ \A x, y, z \in H : <<x, y>> \in R /\ <<y, z>> \in R => <<x, z>> \in R

\* Forget and HitLast, pair by pair.
LEMMA PairsForgotten ==
  ASSUME NEW R, NEW S, NEW x, NEW y
  PROVE  <<x, y>> \in Forget(R, S) <=> <<x, y>> \in R /\ x \notin S /\ y \notin S
BY DEF Forget

LEMMA PairsHit ==
  ASSUME NEW R, NEW H, NEW k, NEW x, NEW y
  PROVE  <<x, y>> \in HitLast(R, H, k) <=>
           (<<x, y>> \in R /\ x # k /\ y # k) \/ (x \in H /\ x # k /\ y = k)
<1>1. <<x, y>> \in (H \ {k}) \X {k} <=> x \in H /\ x # k /\ y = k
  OBVIOUS
<1>. QED
  BY <1>1, PairsForgotten DEF HitLast

LEMMA OrderForgets ==
  ASSUME NEW R, NEW H, NEW S, InOrderOn(R, H)
  PROVE  InOrderOn(Forget(R, S), H \ S)
<1>1. \A x, y \in H \ S : <<x, y>> \in Forget(R, S) <=> <<x, y>> \in R
  BY PairsForgotten
<1>. QED
  BY <1>1 DEF InOrderOn

LEMMA OrderHit ==
  ASSUME NEW R, NEW H, NEW k, InOrderOn(R, H)
  PROVE  InOrderOn(HitLast(R, H, k), H \cup {k})
<1>1. PICK Q : Q = HitLast(R, H, k)
  OBVIOUS
<1>2. \A x, y : <<x, y>> \in Q <=> (<<x, y>> \in R /\ x # k /\ y # k) \/ (x \in H /\ x # k /\ y = k)
  BY <1>1, PairsHit
<1>3. \A x \in H \cup {k} : <<x, x>> \notin Q
  BY <1>2 DEF InOrderOn
<1>4. \A x, y \in H \cup {k} : x = y \/ <<x, y>> \in Q \/ <<y, x>> \in Q
  BY <1>2 DEF InOrderOn
<1>5. ASSUME NEW x \in H \cup {k}, NEW y \in H \cup {k}, NEW z \in H \cup {k}, <<x, y>> \in Q, <<y, z>> \in Q
      PROVE  <<x, z>> \in Q
  <2>1. y # k /\ x # k /\ <<x, y>> \in R /\ x \in H /\ y \in H
    BY <1>2, <1>5
  <2>2. CASE z = k
    BY <1>2, <2>1, <2>2
  <2>3. CASE z # k
    BY <1>2, <1>5, <2>1, <2>3 DEF InOrderOn
  <2>. QED
    BY <2>2, <2>3
<1>. QED
  BY <1>1, <1>3, <1>4, <1>5 DEF InOrderOn

LEMMA SmallestNumber ==
  ASSUME NEW S, S \subseteq Nat, S # {}
  PROVE  \E x \in S : \A y \in S : x <= y
<1>1. PICK x \in S : \A y \in S : ~ (<<y, x>> \in OpToRel(<, Nat))
  BY NatLessThanWellFounded, WFMin, Zenon
<1>2. \A y \in S : x \in Nat /\ y \in Nat /\ ~(y < x)
  BY <1>1, Zenon DEF OpToRel
<1>3. \A y \in S : x <= y
  BY <1>2
<1>. QED
  BY <1>3

\* Of finitely many keys one was hit before the others: the one with the fewest before it.
LEMMA OldestExists ==
  ASSUME NEW H, IsFiniteSet(H), H # {}, NEW R, InOrderOn(R, H)
  PROVE  \E k \in H : \A x \in H : <<x, k>> \notin R
<1>. DEFINE Before(k) == {x \in H : <<x, k>> \in R}
            Sizes == {Cardinality(Before(k)) : k \in H}
<1>1. ASSUME NEW k \in H PROVE IsFiniteSet(Before(k)) /\ Cardinality(Before(k)) \in Nat
  <2>1. IsFiniteSet(Before(k))
    BY FS_Subset
  <2>. QED
    BY <2>1, FS_CardinalityType
<1>2. Sizes \subseteq Nat /\ Sizes # {}
  BY <1>1
<1>3. PICK n \in Sizes : \A m \in Sizes : n <= m
  BY <1>2, SmallestNumber
<1>4. PICK k \in H : n = Cardinality(Before(k))
  BY <1>3
<1>5. ASSUME NEW x \in H, <<x, k>> \in R PROVE FALSE
  <2>1. Before(x) \subseteq Before(k) /\ x \in Before(k) /\ x \notin Before(x)
    BY <1>4, <1>5 DEF InOrderOn
  <2>2. Cardinality(Before(x)) <= Cardinality(Before(k)) /\ Cardinality(Before(x)) # Cardinality(Before(k))
    BY <1>1, <1>4, <2>1, FS_Subset
  <2>3. Cardinality(Before(k)) <= Cardinality(Before(x))
    BY <1>3, <1>4
  <2>. HIDE DEF Before
  <2>. QED
    BY <1>1, <1>4, <2>2, <2>3
<1>. QED
  BY <1>5

-----------------------------------------------------------------------------
(* The L1 maps. *)

\* The map of node n fits, and its entries are in the order of their hits.
MapInOrder(n) ==
  /\ IsFiniteSet(Held(n)) /\ Cardinality(Held(n)) <= L1MaxSize
  /\ InOrderOn(recency[n], Held(n))

\* What a call stores into L1 is a value.
StoresValue(r) ==
  /\ r.op \in Sets \/ r.at = "fill" => r.val # Nothing
  /\ r.at = "fillMany" => \A k \in r.todo : r.read[k] # Nothing

RecencyIInv ==
  /\ DOMAIN recency = Nodes
  /\ \A n \in Nodes : MapInOrder(n)
  /\ \A c \in Callers : StoresValue(call[c])

MapKept(n) == MapInOrder(n)' /\ RoomIsMade(n)

LEMMA FewerKept ==
  ASSUME NEW n \in Nodes, MapInOrder(n), Held(n)' \subseteq Held(n), InOrderOn(recency[n], Held(n))' 
  PROVE  MapKept(n)
<1>1. IsFiniteSet(Held(n)') /\ Cardinality(Held(n)') <= Cardinality(Held(n))
  BY FS_Subset DEF MapInOrder
<1>2. Cardinality(Held(n)) \in Nat /\ Cardinality(Held(n)') \in Nat /\ L1MaxSize \in Nat
  BY <1>1, FS_CardinalityType, CacheAssumption DEF MapInOrder
<1>3. Cardinality(Held(n)') <= L1MaxSize
  BY <1>1, <1>2 DEF MapInOrder
<1>. QED
  BY <1>1, <1>3 DEF MapKept, MapInOrder, RoomIsMade

\* The keys that a full map gives up: one, hit before all others.
LEMMA EvictedOne ==
  ASSUME NEW n \in Nodes, MapInOrder(n)
  PROVE  /\ Evicted(n) \subseteq Held(n)
         /\ \A x, y \in Evicted(n) : x = y
         /\ Cardinality(Held(n)) >= L1MaxSize => Evicted(n) # {}
         /\ \A k \in Evicted(n), x \in Held(n) : x # k => <<k, x>> \in recency[n]
<1>1. InOrderOn(recency[n], Held(n))
  BY DEF MapInOrder
<1>2. \A k \in Evicted(n) : k \in Held(n) /\ \A x \in Held(n) : <<x, k>> \notin recency[n]
  BY DEF Evicted
<1>3. ASSUME Cardinality(Held(n)) >= L1MaxSize PROVE Evicted(n) # {}
  <2>1. Held(n) # {}
    <3>1. Cardinality(Held(n)) \in Nat /\ L1MaxSize \in Nat \ {0}
      BY FS_CardinalityType, CacheAssumption DEF MapInOrder
    <3>2. Cardinality(Held(n)) # 0
      BY <1>3, <3>1
    <3>. QED
      BY <3>2, FS_EmptySet
  <2>2. PICK k \in Held(n) : \A x \in Held(n) : <<x, k>> \notin recency[n]
    BY <1>1, <2>1, OldestExists DEF MapInOrder
  <2>. QED
    BY <1>3, <2>2 DEF Evicted
<1>. QED
  BY <1>1, <1>2, <1>3 DEF InOrderOn

LEMMA L1SetMap ==
  ASSUME TypesOK, DOMAIN recency = Nodes, NEW n \in Nodes, NEW k \in Keys, NEW val, val # Nothing, NEW ttl,
         l1Set(n, k, val, ttl)
  PROVE  /\ Held(n)' = (Held(n) \ Evicted(n)) \cup {k}
         /\ recency'[n] = HitLast(Forget(recency[n], Evicted(n)), Held(n) \ Evicted(n), k)
         /\ \A m \in Nodes \ {n} : Held(m)' = Held(m) /\ recency'[m] = recency[m]
         /\ DOMAIN recency' = Nodes
<1>1. PICK out : out = Evicted(n)
  OBVIOUS
<1>2. PICK e : e = [val |-> val, ttl |-> ttl]
  OBVIOUS
<1>3. PICK f : f = [x \in Keys |-> IF x = k THEN e ELSE IF x \in out THEN NoEntry ELSE l1[n][x]]
  OBVIOUS
<1>4. l1' = [l1 EXCEPT ![n] = f]
  BY <1>1, <1>2, <1>3 DEF l1Set, TypesOK
<1>5. l1'[n] = f /\ \A m \in Nodes \ {n} : l1'[m] = l1[m]
  BY <1>4 DEF TypesOK
<1>6. \A x \in Keys : f[x].val # Nothing <=> x = k \/ (x \notin out /\ l1[n][x].val # Nothing)
  BY <1>2, <1>3, NoEntryType
<1>7. Held(n)' = (Held(n) \ out) \cup {k}
  BY <1>5, <1>6 DEF Held, InL1
<1>8. \A m \in Nodes \ {n} : Held(m)' = Held(m)
  BY <1>5 DEF Held, InL1
<1>9. recency' = [recency EXCEPT ![n] = HitLast(Forget(recency[n], out), Held(n) \ out, k)]
  BY <1>1 DEF l1Set
<1>. QED
  BY <1>1, <1>7, <1>8, <1>9

LEMMA L1RemoveMap ==
  ASSUME TypesOK, DOMAIN recency = Nodes, NEW n \in Nodes, NEW S, l1Remove(n, S)
  PROVE  /\ Held(n)' = Held(n) \ S /\ recency'[n] = Forget(recency[n], S)
         /\ \A m \in Nodes \ {n} : Held(m)' = Held(m) /\ recency'[m] = recency[m]
         /\ DOMAIN recency' = Nodes
<1>1. PICK f : f = [x \in Keys |-> IF x \in S THEN NoEntry ELSE l1[n][x]]
  OBVIOUS
<1>2. l1' = [l1 EXCEPT ![n] = f]
  BY <1>1 DEF l1Remove, TypesOK
<1>3. l1'[n] = f /\ \A m \in Nodes \ {n} : l1'[m] = l1[m]
  BY <1>2 DEF TypesOK
<1>4. \A x \in Keys : f[x].val # Nothing <=> x \notin S /\ l1[n][x].val # Nothing
  BY <1>1, NoEntryType
<1>5. Held(n)' = Held(n) \ S
  BY <1>3, <1>4 DEF Held, InL1
<1>6. \A m \in Nodes \ {n} : Held(m)' = Held(m)
  BY <1>3 DEF Held, InL1
<1>7. recency' = [recency EXCEPT ![n] = Forget(recency[n], S)]
  BY DEF l1Remove
<1>. QED
  BY <1>5, <1>6, <1>7

\* A map with its keys and its order as they were.
LEMMA SameMap ==
  ASSUME NEW n \in Nodes, MapInOrder(n), Held(n)' = Held(n), recency'[n] = recency[n]
  PROVE  MapKept(n)
<1>1. InOrderOn(recency[n], Held(n))'
  BY DEF MapInOrder
<1>. QED
  BY <1>1, FewerKept

LEMMA SetKeepsMaps ==
  ASSUME TypesOK, RecencyIInv, NEW n \in Nodes, NEW k \in Keys, NEW val, val # Nothing, NEW ttl,
         l1Set(n, k, val, ttl)
  PROVE  DOMAIN recency' = Nodes /\ \A m \in Nodes : MapKept(m)
<1>1. /\ Held(n)' = (Held(n) \ Evicted(n)) \cup {k}
      /\ recency'[n] = HitLast(Forget(recency[n], Evicted(n)), Held(n) \ Evicted(n), k)
      /\ \A m \in Nodes \ {n} : Held(m)' = Held(m) /\ recency'[m] = recency[m]
      /\ DOMAIN recency' = Nodes
  BY L1SetMap DEF RecencyIInv
<1>2. \A m \in Nodes : MapInOrder(m)
  BY DEF RecencyIInv
<1>3. PICK H, out : H = Held(n) /\ out = Evicted(n)
  OBVIOUS
<1>4. /\ out \subseteq H /\ \A x, y \in out : x = y
      /\ Cardinality(H) >= L1MaxSize => out # {}
      /\ \A x \in out, y \in H : y # x => <<x, y>> \in recency[n]
  BY <1>2, <1>3, EvictedOne
<1>5. InOrderOn(recency'[n], Held(n)')
  BY <1>1, <1>2, <1>3, OrderForgets, OrderHit DEF MapInOrder
<1>6. IsFiniteSet(H) /\ Cardinality(H) \in Nat /\ L1MaxSize \in Nat \ {0} /\ Cardinality(H) <= L1MaxSize
  BY <1>2, <1>3, FS_CardinalityType, CacheAssumption DEF MapInOrder
<1>7. IsFiniteSet(Held(n)') /\ Cardinality(Held(n)') <= L1MaxSize
  <2>1. /\ IsFiniteSet(H \ out)
        /\ Cardinality(H \ out) \in Nat /\ Cardinality(H \ out) <= L1MaxSize - 1
    <3>1. CASE out = {}
      <4>1. H \ out = H
        BY <3>1
      <4>. QED
        BY <1>4, <1>6, <3>1, <4>1
    <3>2. CASE out # {}
      <4>1. PICK x \in H : out = {x}
        BY <1>4, <3>2
      <4>2. IsFiniteSet(H \ {x}) /\ Cardinality(H \ {x}) = Cardinality(H) - 1
        BY <1>6, <4>1, FS_RemoveElement
      <4>3. Cardinality(H \ {x}) \in Nat
        BY <4>2, FS_CardinalityType
      <4>. QED
        BY <1>6, <4>1, <4>2, <4>3
    <3>. QED
      BY <3>1, <3>2
  <2>2. IsFiniteSet((H \ out) \cup {k}) /\ Cardinality((H \ out) \cup {k}) <= Cardinality(H \ out) + 1
    <3>1. PICK G : G = H \ out
      OBVIOUS
    <3>2. IsFiniteSet(G) /\ Cardinality(G) \in Nat
      BY <2>1, <3>1
    <3>3. IsFiniteSet(G \cup {k}) /\ Cardinality(G \cup {k}) <= Cardinality(G) + 1
      BY <3>2, FS_AddElement
    <3>. QED
      BY <3>1, <3>3
  <2>3. Cardinality((H \ out) \cup {k}) \in Nat
    BY <2>2, FS_CardinalityType
  <2>. QED
    BY <1>1, <1>3, <1>6, <2>1, <2>2, <2>3
<1>8. RoomIsMade(n)
  <2>. SUFFICES ASSUME ~(Held(n)' \subseteq Held(n))
                PROVE  /\ \A x, y \in Held(n) \ Held(n)' : x = y
                       /\ \A x \in Held(n) \ Held(n)' :
                            L1MaxSize > 1 => \E y \in Held(n) : <<x, y>> \in recency[n]
    BY <1>7 DEF RoomIsMade
  <2>1. Held(n) \ Held(n)' \subseteq out
    BY <1>1, <1>3
  <2>2. ASSUME NEW x \in out, L1MaxSize > 1 PROVE \E y \in H : <<x, y>> \in recency[n]
    <3>1. Cardinality(H) >= L1MaxSize
      BY <1>3, <2>2 DEF Evicted
    <3>2. H # {x}
      <4>1. Cardinality({x}) = 1
        BY FS_Singleton
      <4>. QED
        BY <1>6, <2>2, <3>1, <4>1
    <3>3. PICK y \in H : y # x
      BY <1>4, <2>2, <3>2
    <3>. QED
      BY <1>4, <2>2, <3>3
  <2>. QED
    BY <1>3, <1>4, <2>1, <2>2
<1>9. MapKept(n)
  BY <1>5, <1>7, <1>8 DEF MapKept, MapInOrder
<1>10. \A m \in Nodes : m # n => MapKept(m)
  BY <1>1, <1>2, SameMap
<1>. QED
  BY <1>1, <1>9, <1>10

LEMMA RemoveKeepsMaps ==
  ASSUME TypesOK, RecencyIInv, NEW n \in Nodes, NEW S, l1Remove(n, S)
  PROVE  DOMAIN recency' = Nodes /\ \A m \in Nodes : MapKept(m)
<1>1. /\ Held(n)' = Held(n) \ S /\ recency'[n] = Forget(recency[n], S)
      /\ \A m \in Nodes \ {n} : Held(m)' = Held(m) /\ recency'[m] = recency[m]
      /\ DOMAIN recency' = Nodes
  BY L1RemoveMap DEF RecencyIInv
<1>2. \A m \in Nodes : MapInOrder(m)
  BY DEF RecencyIInv
<1>3. InOrderOn(recency'[n], Held(n)') /\ Held(n)' \subseteq Held(n)
  BY <1>1, <1>2, OrderForgets DEF MapInOrder
<1>4. MapKept(n)
  BY <1>2, <1>3, FewerKept
<1>5. \A m \in Nodes : m # n => MapKept(m)
  BY <1>1, <1>2, SameMap
<1>. QED
  BY <1>1, <1>4, <1>5

LEMMA SameKeepsMaps ==
  ASSUME TypesOK, RecencyIInv, \A n \in Nodes : Held(n)' = Held(n), recency' = recency
  PROVE  DOMAIN recency' = Nodes /\ \A m \in Nodes : MapKept(m)
BY SameMap DEF RecencyIInv

LEMMA GetKeepsMaps ==
  ASSUME TypesOK, RecencyIInv, NEW n \in Nodes, NEW k \in Keys, l1Get(n, k)
  PROVE  DOMAIN recency' = Nodes /\ \A m \in Nodes : MapKept(m)
<1>1. CASE Hit(n, k)
  <2>1. l1' = l1 /\ recency' = [recency EXCEPT ![n] = HitLast(recency[n], Held(n), k)]
    BY <1>1 DEF l1Get
  <2>2. \A m \in Nodes : Held(m)' = Held(m) /\ MapInOrder(m)
    BY <2>1 DEF Held, InL1, RecencyIInv
  <2>3. /\ recency'[n] = HitLast(recency[n], Held(n), k) /\ DOMAIN recency' = Nodes
        /\ \A m \in Nodes \ {n} : recency'[m] = recency[m]
    BY <2>1 DEF RecencyIInv
  <2>4. Held(n) \cup {k} = Held(n)
    BY <1>1 DEF Hit, Held
  <2>5. InOrderOn(recency'[n], Held(n)')
    BY <2>2, <2>3, <2>4, OrderHit DEF MapInOrder
  <2>6. MapKept(n)
    BY <2>2, <2>5, FewerKept
  <2>7. \A m \in Nodes : m # n => MapKept(m)
    BY <2>2, <2>3, SameMap
  <2>. QED
    BY <2>3, <2>6, <2>7
<1>2. CASE ~Hit(n, k)
  BY <1>2, RemoveKeepsMaps DEF l1Get
<1>. QED
  BY <1>1, <1>2

-----------------------------------------------------------------------------
(* Every step is one of these on the maps, and what is stored is a value. *)

MapStep ==
  \/ \E n \in Nodes, k \in Keys : \E val, ttl : val # Nothing /\ l1Set(n, k, val, ttl)
  \/ \E n \in Nodes : \E S : l1Remove(n, S)
  \/ \E n \in Nodes, k \in Keys : l1Get(n, k)
  \/ recency' = recency /\ \A n \in Nodes : Held(n)' = Held(n)

Stores == \A c \in Callers : StoresValue(call'[c])

LEMMA L1Untouched == l1' = l1 /\ recency' = recency => MapStep
BY DEF MapStep, Held, InL1

\* A call that goes on without a new value to store.
LEMMA StoresKept ==
  ASSUME TypesOK, RecencyIInv, NEW c \in Callers, NEW n, StoresValue(n), call' = [call EXCEPT ![c] = n]
  PROVE  Stores
<1>1. \A d \in Callers : call'[d] = IF d = c THEN n ELSE call[d]
  BY DEF TypesOK
<1>. QED
  BY <1>1 DEF Stores, RecencyIInv

LEMMA IdleStores == StoresValue(Idle)
BY DEF StoresValue, Idle, Sets

LEMMA ReadersStore ==
  ASSUME TypesOK, RecencyIInv, NEW c \in Callers, NEW k \in call[c].todo,
         LookUp(c, k) \/ JoinFlight(c, k) \/ ReadL2(c, k) \/ Fill(c, k) \/ LookUpMany(c, k) \/ FillMany(c, k)
  PROVE  MapStep /\ Stores
<1>1. PICK r, h : r = call[c] /\ h = Home[c]
  OBVIOUS
<1>2. r \in CallType /\ CallInPlace(r) /\ k \in Keys /\ h \in Nodes /\ StoresValue(r) /\ k \in r.todo
  BY <1>1, CacheAssumption DEF TypesOK, CallType, RecencyIInv
<1>3. \A d \in Callers : StoresValue(call[d])
  BY DEF RecencyIInv
<1>4. "get" \notin Sets /\ "exists" \notin Sets /\ "getMany" \notin Sets
  BY DEF Sets
<1>5. ASSUME Land(c, k) PROVE Stores
  <2>1. \A d \in Callers : call'[d] \in {Idle, call[d]}
    BY <1>5 DEF Land
  <2>. QED
    BY <1>3, <2>1, IdleStores DEF Stores
<1>6. CASE LookUp(c, k)
  <2>1. MapStep
    BY <1>1, <1>2, <1>6 DEF LookUp, MapStep
  <2>2. PICK n : n = [r EXCEPT !.at = "flight"]
    OBVIOUS
  <2>3. StoresValue(n) \/ r.op # "get"
    BY <1>2, <1>4, <2>2 DEF StoresValue, CallType
  <2>4. call' = [call EXCEPT ![c] = Idle] \/ (call' = [call EXCEPT ![c] = n] /\ r.op = "get")
    BY <1>1, <1>2, <1>6, <2>2 DEF LookUp, Return, TypesOK
  <2>. QED
    BY <2>1, <2>3, <2>4, IdleStores, StoresKept
<1>7. CASE JoinFlight(c, k)
  <2>1. MapStep
    BY <1>7, L1Untouched DEF JoinFlight
  <2>2. PICK at \in {"read", "wait"} : call' = [call EXCEPT ![c].at = at] /\ r.at = "flight"
    BY <1>1, <1>7 DEF JoinFlight
  <2>3. PICK n : n = [r EXCEPT !.at = at]
    OBVIOUS
  <2>4. StoresValue(n)
    BY <1>2, <2>2, <2>3 DEF StoresValue, CallType
  <2>5. call' = [call EXCEPT ![c] = n]
    BY <1>1, <2>2, <2>3 DEF TypesOK
  <2>. QED
    BY <2>1, <2>4, <2>5, StoresKept
<1>8. CASE ReadL2(c, k)
  <2>1. MapStep
    BY <1>8, L1Untouched DEF ReadL2
  <2>2. CASE l2[k].val # Nothing /\ call' = [call EXCEPT ![c].at = "fill", ![c].val = l2[k].val]
    <3>1. PICK v : v = l2[k].val
      OBVIOUS
    <3>2. PICK n : n = [r EXCEPT !.at = "fill", !.val = v]
      OBVIOUS
    <3>3. StoresValue(n)
      BY <1>2, <2>2, <3>1, <3>2 DEF StoresValue, CallType
    <3>4. call' = [call EXCEPT ![c] = n]
      BY <1>1, <2>2, <3>1, <3>2 DEF TypesOK
    <3>. QED
      BY <2>1, <3>3, <3>4, StoresKept
  <2>. QED
    BY <1>5, <1>8, <2>1, <2>2 DEF ReadL2
<1>9. CASE Fill(c, k)
  <2>1. r.val # Nothing /\ l1Set(h, k, r.val, DefaultTTL)
    BY <1>1, <1>2, <1>9 DEF Fill, StoresValue
  <2>. QED
    BY <1>2, <1>5, <1>9, <2>1 DEF Fill, MapStep
<1>10. CASE LookUpMany(c, k)
  <2>1. MapStep
    BY <1>1, <1>2, <1>10 DEF LookUpMany, MapStep
  <2>2. PICK missing, last :
          /\ r.op = "getMany" /\ r.at = "l1"
          /\ \/ call' = [call EXCEPT ![c] = Idle]
             \/ call' = [call EXCEPT ![c].todo = IF last THEN missing ELSE r.todo \ {k},
                                     ![c].missing = IF last THEN {} ELSE missing,
                                     ![c].at = IF last THEN "mget" ELSE "l1"]
    BY <1>1, <1>10 DEF LookUpMany, Return
  <2>3. PICK n : n = [r EXCEPT !.todo = IF last THEN missing ELSE r.todo \ {k},
                               !.missing = IF last THEN {} ELSE missing,
                               !.at = IF last THEN "mget" ELSE "l1"]
    OBVIOUS
  <2>4. StoresValue(n)
    BY <1>2, <1>4, <2>2, <2>3 DEF StoresValue, CallType
  <2>5. call' = [call EXCEPT ![c] = Idle] \/ call' = [call EXCEPT ![c] = n]
    BY <1>1, <2>2, <2>3 DEF TypesOK
  <2>. QED
    BY <2>1, <2>4, <2>5, IdleStores, StoresKept
<1>11. CASE FillMany(c, k)
  <2>1. r.read[k] # Nothing /\ l1Set(h, k, r.read[k], DefaultTTL)
    BY <1>1, <1>2, <1>11 DEF FillMany, StoresValue
  <2>2. MapStep
    BY <1>2, <2>1 DEF MapStep
  <2>3. PICK n : n = [r EXCEPT !.todo = r.todo \ {k}]
    OBVIOUS
  <2>4. StoresValue(n)
    BY <1>2, <2>3 DEF StoresValue, CallType
  <2>5. call' = [call EXCEPT ![c] = Idle] \/ call' = [call EXCEPT ![c] = n]
    BY <1>1, <1>2, <1>11, <2>3 DEF FillMany, Return, TypesOK, CallType
  <2>. QED
    BY <2>2, <2>4, <2>5, IdleStores, StoresKept
<1>. QED
  BY <1>6, <1>7, <1>8, <1>9, <1>10, <1>11

LEMMA WritersStore ==
  ASSUME TypesOK, RecencyIInv, NEW c \in Callers,
         (\E k \in call[c].todo : StoreL1(c, k) \/ RemoveL2(c, k)) \/ ReadMany(c) \/ StoreL2(c) \/ RemoveL1(c)
  PROVE  MapStep /\ Stores
<1>1. PICK r, h : r = call[c] /\ h = Home[c]
  OBVIOUS
<1>2. r \in CallType /\ CallInPlace(r) /\ h \in Nodes /\ StoresValue(r) /\ r.todo \subseteq Keys
  BY <1>1, CacheAssumption DEF TypesOK, CallType, RecencyIInv
<1>3. ASSUME NEW k \in r.todo, StoreL1(c, k) PROVE MapStep /\ Stores
  <2>1. r.val # Nothing /\ l1Set(h, k, r.val, r.ttl)
    BY <1>1, <1>2, <1>3 DEF StoreL1, StoresValue
  <2>2. MapStep
    BY <1>2, <2>1 DEF MapStep
  <2>3. PICK at \in {"l2", "l1"} : call' = [call EXCEPT ![c].todo = @ \ {k}, ![c].at = at]
    BY <1>3 DEF StoreL1
  <2>4. PICK n : n = [r EXCEPT !.todo = r.todo \ {k}, !.at = at]
    OBVIOUS
  <2>5. StoresValue(n)
    BY <1>2, <2>3, <2>4 DEF StoresValue, CallType
  <2>6. call' = [call EXCEPT ![c] = n]
    BY <1>1, <1>2, <2>3, <2>4 DEF TypesOK, CallType
  <2>. QED
    BY <2>2, <2>5, <2>6, StoresKept
<1>4. ASSUME NEW k \in r.todo, RemoveL2(c, k) PROVE MapStep /\ Stores
  <2>1. MapStep
    BY <1>4, L1Untouched DEF RemoveL2
  <2>2. \/ call' = [call EXCEPT ![c] = Idle]
        \/ call' = [call EXCEPT ![c].at = "l1"]
        \/ call' = [call EXCEPT ![c].todo = @ \ {k}]
    BY <1>1, <1>4 DEF RemoveL2, Return
  <2>3. PICK n, m : n = [r EXCEPT !.at = "l1"] /\ m = [r EXCEPT !.todo = r.todo \ {k}]
    OBVIOUS
  <2>4. StoresValue(n) /\ StoresValue(m)
    BY <1>2, <2>3 DEF StoresValue, CallType
  <2>5. \/ call' = [call EXCEPT ![c] = Idle]
        \/ call' = [call EXCEPT ![c] = n]
        \/ call' = [call EXCEPT ![c] = m]
    BY <1>1, <1>2, <2>2, <2>3 DEF TypesOK, CallType
  <2>. QED
    BY <2>1, <2>4, <2>5, IdleStores, StoresKept
<1>5. CASE ReadMany(c)
  <2>1. MapStep
    BY <1>5, L1Untouched DEF ReadMany
  <2>2. PICK found, read :
          /\ found = {k \in r.todo : l2[k].val # Nothing} /\ read = [k \in Keys |-> l2[k].val] /\ r.at = "mget"
          /\ \/ call' = [call EXCEPT ![c] = Idle]
             \/ call' = [call EXCEPT ![c].at = "fillMany", ![c].todo = found, ![c].read = read]
    BY <1>1, <1>5 DEF ReadMany, Return
  <2>3. PICK n : n = [r EXCEPT !.at = "fillMany", !.todo = found, !.read = read]
    OBVIOUS
  <2>4. \A k \in found : read[k] # Nothing
    BY <1>2, <2>2
  <2>5. StoresValue(n)
    BY <1>2, <2>2, <2>3, <2>4 DEF StoresValue, CallType, CallInPlace, Sets
  <2>6. call' = [call EXCEPT ![c] = Idle] \/ call' = [call EXCEPT ![c] = n]
    BY <1>1, <2>2, <2>3 DEF TypesOK
  <2>. QED
    BY <2>1, <2>5, <2>6, IdleStores, StoresKept
<1>6. CASE StoreL2(c)
  BY <1>6, L1Untouched, IdleStores, StoresKept DEF StoreL2, Return
<1>7. CASE RemoveL1(c)
  <2>1. MapStep
    BY <1>1, <1>2, <1>7 DEF RemoveL1, MapStep
  <2>2. PICK n : n = [r EXCEPT !.at = "l2"]
    OBVIOUS
  <2>3. StoresValue(n)
    BY <1>2, <2>2 DEF StoresValue, CallType
  <2>4. call' = [call EXCEPT ![c] = Idle] \/ call' = [call EXCEPT ![c] = n]
    BY <1>1, <1>2, <1>7, <2>2 DEF RemoveL1, Return, TypesOK
  <2>. QED
    BY <2>1, <2>3, <2>4, IdleStores, StoresKept
<1>. QED
  BY <1>1, <1>3, <1>4, <1>5, <1>6, <1>7

LEMMA BeginStores ==
  ASSUME TypesOK, RecencyIInv, NEW c \in Callers, NEW op, NEW keys, NEW val, NEW ttl,
         op \in Sets => val # Nothing, Begin(c, op, keys, val, ttl)
  PROVE  MapStep /\ Stores
<1>1. MapStep
  BY L1Untouched DEF Begin
<1>2. PICK n : n = [Idle EXCEPT !.op = op, !.keys = keys, !.todo = keys, !.val = val, !.ttl = ttl,
                                !.at = IF op = "publish" THEN "l2" ELSE "l1"]
  OBVIOUS
<1>3. StoresValue(n)
  BY <1>2 DEF StoresValue, Idle
<1>4. call' = [call EXCEPT ![c] = n]
  BY <1>2 DEF Begin
<1>. QED
  BY <1>1, <1>3, <1>4, StoresKept

LEMMA TimeStores ==
  ASSUME TypesOK, RecencyIInv, Tick \/ (\E n \in Nodes : Sweep(n) \/ \E k \in Keys : Invalidate(n, k)) \/ UNCHANGED vars
  PROVE  MapStep /\ Stores
<1>1. Stores
  BY DEF Tick, Sweep, Invalidate, vars, Stores, RecencyIInv
<1>2. CASE Tick
  <2>1. ASSUME NEW n \in Nodes, NEW k \in Keys PROVE l1'[n][k].val = l1[n][k].val
    <3>1. l1'[n][k] = Older(l1[n][k])
      BY <1>2 DEF Tick
    <3>2. PICK e \in EntryType : e = l1[n][k]
      BY DEF TypesOK
    <3>. QED
      BY <3>1, <3>2, OlderEntry
  <2>2. \A n \in Nodes : Held(n)' = Held(n)
    BY <2>1 DEF Held, InL1
  <2>. QED
    BY <1>1, <1>2, <2>2 DEF Tick, MapStep
<1>3. CASE UNCHANGED vars
  BY <1>1, <1>3, L1Untouched DEF vars
<1>. QED
  BY <1>1, <1>2, <1>3 DEF Sweep, Invalidate, MapStep

LEMMA NextStores ==
  ASSUME TypesOK, RecencyIInv, [Next]_vars
  PROVE  MapStep /\ Stores
<1>0. /\ {"get", "exists", "delete", "publish", "getMany", "clear"} \cap Sets = {}
      /\ NilValue # Nothing /\ \A v \in Values : v # Nothing
  BY CacheAssumption DEF Sets
<1>1. ASSUME NEW c \in Callers,
             \/ \E op \in {"get", "exists", "delete", "publish"}, k \in Keys : Begin(c, op, {k}, Nothing, 0)
             \/ \E k \in Keys, v \in Values, t \in TTLs : Begin(c, "set", {k}, v, t)
             \/ \E k \in Keys : Begin(c, "setNil", {k}, NilValue, NilTTL)
             \/ \E op \in {"getMany", "clear"} : Begin(c, op, Keys, Nothing, 0)
             \/ \E v \in Values, t \in TTLs : Begin(c, "setMany", Keys, v, t)
      PROVE  MapStep /\ Stores
  <2>1. PICK op, keys, val, ttl : Begin(c, op, keys, val, ttl) /\ (op \in Sets => val # Nothing)
    BY <1>0, <1>1
  <2>. QED
    BY <2>1, BeginStores
<1>2. ASSUME NEW c \in Callers, Step(c) PROVE MapStep /\ Stores
  BY <1>2, ReadersStore, WritersStore DEF Step
<1>. QED
  BY <1>1, <1>2, TimeStores DEF Next

LEMMA MapStepKeeps ==
  ASSUME TypesOK, RecencyIInv, MapStep
  PROVE  DOMAIN recency' = Nodes /\ \A n \in Nodes : MapKept(n)
BY SetKeepsMaps, RemoveKeepsMaps, GetKeepsMaps, SameKeepsMaps DEF MapStep

LEMMA RecencyNext ==
  ASSUME TypesOK, RecencyIInv, [Next]_vars
  PROVE  RecencyIInv' /\ \A n \in Nodes : RoomIsMade(n)
<1>1. MapStep /\ Stores
  BY NextStores
<1>2. DOMAIN recency' = Nodes /\ \A n \in Nodes : MapKept(n)
  BY <1>1, MapStepKeeps
<1>3. \A c \in Callers : StoresValue(call[c])'
  BY <1>1 DEF Stores, StoresValue
<1>. QED
  BY <1>2, <1>3 DEF RecencyIInv, MapKept

LEMMA RecencyInit == Init => RecencyIInv
<1>. SUFFICES ASSUME Init PROVE RecencyIInv
  OBVIOUS
<1>1. \A n \in Nodes : Held(n) = {} /\ recency[n] = {}
  BY NoEntryType DEF Init, Held, InL1
<1>2. IsFiniteSet({}) /\ Cardinality({}) = 0
  BY FS_EmptySet
<1>3. 0 <= L1MaxSize
  BY CacheAssumption
<1>4. ASSUME NEW n \in Nodes PROVE MapInOrder(n)
  BY <1>1, <1>2, <1>3 DEF MapInOrder, InOrderOn
<1>5. \A c \in Callers : StoresValue(call[c])
  BY IdleStores DEF Init
<1>. QED
  BY <1>4, <1>5 DEF RecencyIInv, Init

\* An entry of L1 that makes room is the only one and not the one hit last, and
\* the map stays within L1MaxSize, for any nodes, keys, goroutines and capacities.
THEOREM RecentSurvivesTheorem == Spec => RecentSurvives
<1>1. CacheIInv /\ RecencyIInv /\ [Next]_vars => RecencyIInv'
  BY RecencyNext DEF CacheIInv
<1>2. ASSUME CacheIInv, RecencyIInv, [Next]_vars
      PROVE  [\A n \in Nodes : RoomIsMade(n)]_vars
  BY <1>2, RecencyNext DEF CacheIInv
<1>. QED
  BY <1>1, <1>2, RecencyInit, CacheInitIInv, CacheNextIInv, PTL DEF Spec, RecentSurvives
=============================================================================
