------------------------------ MODULE DistLock ------------------------------
(***************************************************************************)
(* The lock of internal/services/cache: TryLock is SET NX with a TTL and   *)
(* the value "1", Unlock is a plain DEL.  Redis does not know who holds a  *)
(* lock; a client knows only that its TryLock once succeeded.              *)
(***************************************************************************)
EXTENDS Integers, FiniteSets

CONSTANTS
  LockClients, Locks,
  Nobody

ASSUME LockAssumption == Nobody \notin LockClients

VARIABLES
  lockKeys,    \* per lock: client whose key is stored (the code never looks), has TTL
  inside,   \* inside[c]: locks whose TryLock succeeded for c, not yet unlocked
  lapsed,   \* lapsed[c]: those of them whose TTL has ended
  late      \* history: locks that a client unlocked after its TTL had ended

lockVars == <<lockKeys, inside, lapsed, late>>

Absent == [owner |-> Nobody, ttl |-> FALSE]

LockInit ==
  /\ lockKeys = [k \in Locks |-> Absent]
  /\ inside = [c \in LockClients |-> {}]
  /\ lapsed = [c \in LockClients |-> {}]
  /\ late = {}

\* Mutated TryLock: SET without NX.
TryLockPlainSet(c, k) ==
  /\ k \notin inside[c]
  /\ lockKeys' = [lockKeys EXCEPT ![k] = [owner |-> c, ttl |-> TRUE]]
  /\ inside' = [inside EXCEPT ![c] = @ \cup {k}]
  /\ UNCHANGED <<lapsed, late>>

\* SetNX with a TTL (30 s if none is given); FALSE if the key exists.
TryLock(c, k) ==
  /\ k \notin inside[c]
  /\ lockKeys[k] = Absent
  /\ lockKeys' = [lockKeys EXCEPT ![k] = [owner |-> c, ttl |-> TRUE]]
  /\ inside' = [inside EXCEPT ![c] = @ \cup {k}]
  /\ UNCHANGED <<lapsed, late>>

\* Del, by a client that is done; the key may belong to another one by now.
Unlock(c, k) ==
  /\ k \in inside[c]
  /\ lockKeys' = [lockKeys EXCEPT ![k] = Absent]
  /\ inside' = [inside EXCEPT ![c] = @ \ {k}]
  /\ lapsed' = [lapsed EXCEPT ![c] = @ \ {k}]
  /\ late' = IF k \in lapsed[c] THEN late \cup {k} ELSE late

\* The process of c dies: nobody unlocks for it.
Die(c) ==
  /\ inside[c] # {}
  /\ inside' = [inside EXCEPT ![c] = {}]
  /\ lapsed' = [lapsed EXCEPT ![c] = {}]
  /\ UNCHANGED <<lockKeys, late>>

\* The TTL of a key ends and Redis removes it.
ExpireLock(k) ==
  LET c == lockKeys[k].owner
  IN /\ lockKeys[k].ttl
     /\ lockKeys' = [lockKeys EXCEPT ![k] = Absent]
     /\ lapsed' = [lapsed EXCEPT ![c] = IF k \in inside[c] THEN @ \cup {k} ELSE @]
     /\ UNCHANGED <<inside, late>>

\* The time c asked for is over although another client's Unlock removed its key.
Lapse(c, k) ==
  /\ k \in inside[c] \ lapsed[c] /\ lockKeys[k].owner # c
  /\ lapsed' = [lapsed EXCEPT ![c] = @ \cup {k}]
  /\ UNCHANGED <<lockKeys, inside, late>>

LockNext ==
  \/ \E c \in LockClients, k \in Locks : TryLock(c, k) \/ Unlock(c, k) \/ Lapse(c, k)
  \/ \E c \in LockClients : Die(c)
  \/ \E k \in Locks : ExpireLock(k)

LockSpec == LockInit /\ [][LockNext]_lockVars

-----------------------------------------------------------------------------
Holders(k) == {c \in LockClients : k \in inside[c] \ lapsed[c]}

\* At most one client is inside a lock within its TTL, whoever dies or overruns,
\* as long as no client has unlocked the lock after its own TTL had ended.
MutualExclusion == \A k \in Locks \ late : Cardinality(Holders(k)) <= 1
=============================================================================
