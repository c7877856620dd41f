------------------------ MODULE CircuitBreakerProofs ------------------------
(***************************************************************************)
(* For any number of goroutines, thresholds and retries: the breaker never *)
(* misses a transition.  For any clients and locks: the lock of            *)
(* internal/services/cache excludes, up to the first late Unlock.  For any *)
(* limit and window: the rate limiters keep theirs.                        *)
(***************************************************************************)
EXTENDS CircuitBreaker, DistLock, RateLimit, FiniteSetTheorems, TLAPS

(* The breaker. *)

BreakerSteps ==
  {"idle", "expiry", "toHalfOpen", "zeroSuccess", "attempt", "success", "zeroFailure", "addSuccess",
   "close", "clearFailures", "clearSuccesses", "addFailure", "failure", "reopen", "stampReopen",
   "zeroReopen", "toOpen", "stamp"}

Requests == [at : BreakerSteps, i : Nat, count : 0 .. FailureThreshold]

\* The counters stay below the bounds they are compared with; a request is a
\* goroutine's place in do() with its attempt and what its Add returned.
BreakerTypeOK ==
  /\ state \in {"closed", "open", "halfOpen"}
  /\ failureCount \in 0 .. FailureThreshold
  /\ successCount \in 0 .. SuccessThreshold
  /\ expired \in BOOLEAN
  /\ req \in [Callers -> Requests]

\* Goroutines that have seen the threshold, or that are about to clear the count.
WillOpen(c) == At(c, "toOpen") \/ At(c, "clearFailures")
               \/ (At(c, "failure") /\ req[c].count >= FailureThreshold)
WillClose(c) == At(c, "close") \/ At(c, "zeroSuccess")

\* A count that has reached its threshold always has a goroutine that acts on it.
BreakerIInv ==
  /\ BreakerTypeOK
  /\ state = "closed" /\ failureCount >= FailureThreshold => \E c \in Callers : WillOpen(c)
  /\ state = "halfOpen" /\ successCount >= SuccessThreshold => \E c \in Callers : WillClose(c)

\* Init leaves both counters at zero, below thresholds that are positive.
LEMMA BreakerInitIInv == BreakerInit => BreakerIInv
BY BreakerAssumption
DEF BreakerInit, BreakerIInv, BreakerTypeOK, Idle, BreakerSteps, Requests

\* What AfterFailure leaves is a request again.
LEMMA AfterFailureType ==
  ASSUME BreakerTypeOK, NEW c \in Callers, AfterFailure(c)
  PROVE  req' \in [Callers -> Requests]
<1>. DEFINE r == [at |-> "attempt", i |-> req[c].i + 1, count |-> 0]
<1>1. req \in [Callers -> Requests] /\ req[c].i \in Nat
  BY DEF BreakerTypeOK, Requests
<1>2. r \in Requests /\ Idle \in Requests
  BY <1>1, BreakerAssumption DEF Requests, BreakerSteps, Idle
<1>3. req' = [req EXCEPT ![c] = r] \/ req' = [req EXCEPT ![c] = Idle]
  <2>1. CASE req[c].i < RetryMax
    BY <2>1, Zenon DEF AfterFailure
  <2>2. CASE ~(req[c].i < RetryMax)
    BY <2>2, Zenon DEF AfterFailure, Return
  <2>. QED BY <2>1, <2>2
<1>. HIDE DEF r
<1>. QED
  BY <1>1, <1>2, <1>3

\* Every step of every goroutine keeps the types.
LEMMA BreakerTypes == BreakerTypeOK /\ [BreakerNext]_breakerVars => BreakerTypeOK'
<1>. SUFFICES ASSUME BreakerTypeOK, [BreakerNext]_breakerVars PROVE BreakerTypeOK'
  OBVIOUS
<1>. USE BreakerAssumption DEF BreakerTypeOK, At, GoTo, Return, TakeMu, ReleaseMu, Idle, BreakerSteps, Requests, Least
<1>1. ASSUME NEW c \in Callers, NEW outcome \in {"error", "5xx", "ok"}, Attempt(c, outcome)
      PROVE  BreakerTypeOK'
  BY <1>1 DEF Attempt
<1>2. ASSUME NEW c \in Callers, AllowLoad(c) PROVE BreakerTypeOK'
  BY <1>2 DEF AllowLoad
<1>3. ASSUME NEW c \in Callers, AllowExpiry(c) PROVE BreakerTypeOK'
  BY <1>3 DEF AllowExpiry
<1>4. ASSUME NEW c \in Callers, AllowSwap(c) PROVE BreakerTypeOK'
  BY <1>4 DEF AllowSwap
<1>5. ASSUME NEW c \in Callers, AllowZero(c) PROVE BreakerTypeOK'
  BY <1>5 DEF AllowZero
<1>6. ASSUME NEW c \in Callers, GiveUp(c) PROVE BreakerTypeOK'
  BY <1>6 DEF GiveUp
<1>7. ASSUME NEW c \in Callers, SuccessLoad(c) PROVE BreakerTypeOK'
  <2>1. CASE state = "halfOpen"
    BY <2>1, <1>7 DEF SuccessLoad
  <2>2. CASE state = "closed"
    BY <2>2, <1>7 DEF SuccessLoad
  <2>3. CASE state = "open"
    BY <2>3, <1>7 DEF SuccessLoad
  <2>. QED BY <2>1, <2>2, <2>3
<1>8. ASSUME NEW c \in Callers, SuccessZero(c) PROVE BreakerTypeOK'
  BY <1>8 DEF SuccessZero
<1>9. ASSUME NEW c \in Callers, SuccessAdd(c) PROVE BreakerTypeOK'
  BY <1>9 DEF SuccessAdd
<1>10. ASSUME NEW c \in Callers, Close(c) PROVE BreakerTypeOK'
  BY <1>10 DEF Close
<1>11. ASSUME NEW c \in Callers, Reset(c) PROVE BreakerTypeOK'
  BY <1>11 DEF Reset
<1>12. ASSUME NEW c \in Callers, ClearFailures(c) PROVE BreakerTypeOK'
  BY <1>12 DEF ClearFailures
<1>13. ASSUME NEW c \in Callers, ClearSuccesses(c) PROVE BreakerTypeOK'
  BY <1>13 DEF ClearSuccesses
<1>14. ASSUME NEW c \in Callers, FailureAdd(c) PROVE BreakerTypeOK'
  <2>1. failureCount' \in 0 .. FailureThreshold
    BY <1>14 DEF FailureAdd
  <2>2. req' \in [Callers -> Requests]
    BY <1>14, <2>1, ZenonT(60) DEF FailureAdd
  <2>. QED BY <2>1, <2>2, <1>14 DEF FailureAdd
<1>15. ASSUME NEW c \in Callers, Reopen(c) PROVE BreakerTypeOK'
  BY <1>15 DEF Reopen
<1>16. ASSUME NEW c \in Callers, StampReopen(c) PROVE BreakerTypeOK'
  BY <1>16 DEF StampReopen
<1>17. ASSUME NEW c \in Callers, FailureLoad(c) PROVE BreakerTypeOK'
  <2>1. CASE AfterFailure(c)
    BY <2>1, <1>17, AfterFailureType DEF FailureLoad
  <2>2. CASE ~AfterFailure(c)
    BY <2>2, <1>17 DEF FailureLoad
  <2>. QED BY <2>1, <2>2
<1>18. ASSUME NEW c \in Callers, ZeroReopen(c) PROVE BreakerTypeOK'
  <2>1. CASE AfterFailure(c)
    BY <2>1, <1>18, AfterFailureType DEF ZeroReopen
  <2>2. CASE ~AfterFailure(c)
    BY <2>2, <1>18 DEF ZeroReopen
  <2>. QED BY <2>1, <2>2
<1>19. ASSUME NEW c \in Callers, Open(c) PROVE BreakerTypeOK'
  <2>1. CASE AfterFailure(c)
    BY <2>1, <1>19, AfterFailureType DEF Open
  <2>2. CASE ~AfterFailure(c)
    BY <2>2, <1>19 DEF Open
  <2>. QED BY <2>1, <2>2
<1>20. ASSUME NEW c \in Callers, Stamp(c) PROVE BreakerTypeOK'
  <2>1. CASE AfterFailure(c)
    BY <2>1, <1>20, AfterFailureType DEF Stamp
  <2>2. CASE ~AfterFailure(c)
    BY <2>2, <1>20 DEF Stamp
  <2>. QED BY <2>1, <2>2
<1>21. CASE Elapse
  BY <1>21 DEF Elapse
<1>22. CASE UNCHANGED breakerVars
  BY <1>22 DEF breakerVars
<1>. QED
  BY <1>1, <1>2, <1>3, <1>4, <1>5, <1>6, <1>7, <1>8, <1>9, <1>10, <1>11, <1>12, <1>13, <1>14, <1>15, <1>16, <1>17, <1>18, <1>19, <1>20, <1>21, <1>22 DEF BreakerNext, Step

\* A step keeps a goroutine that acts on a count at its threshold, or brings the
\* count down, or leaves the state the threshold belongs to.
LEMMA BreakerNextIInv == BreakerIInv /\ [BreakerNext]_breakerVars => BreakerIInv'
<1>. SUFFICES ASSUME BreakerIInv, [BreakerNext]_breakerVars PROVE BreakerIInv'
  OBVIOUS
<1>. DEFINE Opens == state = "closed" /\ failureCount >= FailureThreshold => \E c \in Callers : WillOpen(c)
            Closes == state = "halfOpen" /\ successCount >= SuccessThreshold => \E c \in Callers : WillClose(c)
<1>a. BreakerTypeOK /\ Opens /\ Closes
  BY DEF BreakerIInv
<1>b. BreakerTypeOK'
  BY <1>a, BreakerTypes
<1>c. SUFFICES Opens' /\ Closes'
  BY <1>b DEF BreakerIInv
<1>. USE BreakerAssumption DEF BreakerTypeOK, Requests, WillOpen, WillClose, At, GoTo, Return, Idle, TakeMu, ReleaseMu
<1>2. ASSUME NEW c \in Callers, AllowLoad(c) PROVE Opens' /\ Closes'
  BY <1>2, <1>a DEF AllowLoad
<1>3. ASSUME NEW c \in Callers, AllowExpiry(c) PROVE Opens' /\ Closes'
  BY <1>3, <1>a DEF AllowExpiry
<1>4. ASSUME NEW c \in Callers, AllowSwap(c) PROVE Opens' /\ Closes'
  BY <1>4, <1>a DEF AllowSwap
<1>5. ASSUME NEW c \in Callers, AllowZero(c) PROVE Opens' /\ Closes'
  BY <1>5, <1>a DEF AllowZero
<1>6. ASSUME NEW c \in Callers, GiveUp(c) PROVE Opens' /\ Closes'
  BY <1>6, <1>a DEF GiveUp
<1>7. ASSUME NEW c \in Callers, SuccessLoad(c) PROVE Opens' /\ Closes'
  BY <1>7, <1>a DEF SuccessLoad
<1>8. ASSUME NEW c \in Callers, SuccessZero(c) PROVE Opens' /\ Closes'
  BY <1>8, <1>a DEF SuccessZero
<1>9. ASSUME NEW c \in Callers, SuccessAdd(c) PROVE Opens' /\ Closes'
  BY <1>9, <1>a DEF SuccessAdd, Least
<1>10. ASSUME NEW c \in Callers, Close(c) PROVE Opens' /\ Closes'
  BY <1>10, <1>a DEF Close
<1>11. ASSUME NEW c \in Callers, Reset(c) PROVE Opens' /\ Closes'
  BY <1>11, <1>a DEF Reset
<1>12. ASSUME NEW c \in Callers, ClearFailures(c) PROVE Opens' /\ Closes'
  BY <1>12, <1>a DEF ClearFailures
<1>13. ASSUME NEW c \in Callers, ClearSuccesses(c) PROVE Opens' /\ Closes'
  BY <1>13, <1>a DEF ClearSuccesses
<1>14. ASSUME NEW c \in Callers, FailureAdd(c) PROVE Opens' /\ Closes'
  BY <1>14, <1>a DEF FailureAdd, Least
<1>15. ASSUME NEW c \in Callers, Reopen(c) PROVE Opens' /\ Closes'
  BY <1>15, <1>a DEF Reopen
<1>16. ASSUME NEW c \in Callers, StampReopen(c) PROVE Opens' /\ Closes'
  BY <1>16, <1>a DEF StampReopen
<1>17. ASSUME NEW c \in Callers, FailureLoad(c) PROVE Opens' /\ Closes'
  BY <1>17, <1>a DEF FailureLoad, AfterFailure
<1>18. ASSUME NEW c \in Callers, ZeroReopen(c) PROVE Opens' /\ Closes'
  BY <1>18, <1>a DEF ZeroReopen, AfterFailure
<1>19. ASSUME NEW c \in Callers, Open(c) PROVE Opens' /\ Closes'
  BY <1>19, <1>a DEF Open, AfterFailure
<1>20. ASSUME NEW c \in Callers, Stamp(c) PROVE Opens' /\ Closes'
  BY <1>20, <1>a DEF Stamp, AfterFailure
<1>21. ASSUME NEW c \in Callers, NEW outcome \in {"error", "5xx", "ok"}, Attempt(c, outcome)
       PROVE  Opens' /\ Closes'
  BY <1>21, <1>a DEF Attempt
<1>22. CASE Elapse
  BY <1>22, <1>a DEF Elapse
<1>23. CASE UNCHANGED breakerVars
  BY <1>23, <1>a DEF breakerVars
<1>. QED
  BY <1>2, <1>3, <1>4, <1>5, <1>6, <1>7, <1>8, <1>9, <1>10, <1>11, <1>12, <1>13, <1>14, <1>15, <1>16, <1>17, <1>18, <1>19, <1>20, <1>21, <1>22, <1>23 DEF BreakerNext, Step

\* Whatever the thresholds and however the goroutines interleave, a count at its
\* threshold has a goroutine that opens, closes or clears it.
THEOREM BreakerInvariant == BreakerSpec => []BreakerIInv
<1>1. BreakerInit => BreakerIInv
  BY BreakerInitIInv
<1>2. BreakerIInv /\ [BreakerNext]_breakerVars => BreakerIInv'
  BY BreakerNextIInv
<1>. QED
  BY <1>1, <1>2, PTL DEF BreakerSpec

\* No transition of the breaker is missed: when every report is through, the
\* counts are below their thresholds.
THEOREM NoTransitionMissedTheorem == BreakerSpec => []NoTransitionMissed
<1>1. BreakerIInv => NoTransitionMissed
  BY BreakerAssumption DEF BreakerIInv, BreakerTypeOK, NoTransitionMissed, Settled, WillOpen, WillClose, At
<1>. QED
  BY <1>1, BreakerInvariant, PTL

-----------------------------------------------------------------------------
(* The lock. *)

LockTypeOK ==
  /\ lockKeys \in [Locks -> [owner : LockClients \cup {Nobody}, ttl : BOOLEAN]]
  /\ \A k \in Locks : lockKeys[k].ttl => lockKeys[k].owner \in LockClients
  /\ inside \in [LockClients -> SUBSET Locks]
  /\ lapsed \in [LockClients -> SUBSET Locks]

\* A client within its TTL still owns the key, until somebody unlocks late.
LockIInv ==
  /\ LockTypeOK
  /\ \A c \in LockClients : lapsed[c] \subseteq inside[c]
  /\ \A k \in Locks \ late, c \in LockClients :
       k \in inside[c] \ lapsed[c] => lockKeys[k].owner = c

\* Nobody is inside a lock at the start.
LEMMA LockInitIInv == LockInit => LockIInv
BY DEF LockInit, LockIInv, LockTypeOK, Absent

\* SET NX, DEL, expiry, a client that overruns and one that dies all keep the
\* owner of an undisturbed lock.
LEMMA LockNextIInv == LockIInv /\ [LockNext]_lockVars => LockIInv'
<1>. SUFFICES ASSUME LockIInv, [LockNext]_lockVars PROVE LockIInv'
  OBVIOUS
<1>. USE LockAssumption DEF LockIInv, LockTypeOK, Absent
<1>1. ASSUME NEW c \in LockClients, NEW k \in Locks, TryLock(c, k) PROVE LockIInv'
  BY <1>1 DEF TryLock
<1>2. ASSUME NEW c \in LockClients, NEW k \in Locks, Unlock(c, k) PROVE LockIInv'
  BY <1>2 DEF Unlock
<1>3. ASSUME NEW c \in LockClients, NEW k \in Locks, Lapse(c, k) PROVE LockIInv'
  BY <1>3 DEF Lapse
<1>4. ASSUME NEW c \in LockClients, Die(c) PROVE LockIInv'
  BY <1>4 DEF Die
<1>5. ASSUME NEW k \in Locks, ExpireLock(k) PROVE LockIInv'
  BY <1>5 DEF ExpireLock
<1>6. CASE UNCHANGED lockVars
  BY <1>6 DEF lockVars
<1>. QED
  BY <1>1, <1>2, <1>3, <1>4, <1>5, <1>6 DEF LockNext

\* At most one client is inside a lock within its TTL, for any clients and locks,
\* as long as nobody has unlocked it after his own TTL.
THEOREM MutualExclusionTheorem == LockSpec => []MutualExclusion
<1>1. LockInit => LockIInv
  BY LockInitIInv
<1>2. LockIInv /\ [LockNext]_lockVars => LockIInv'
  BY LockNextIInv
<1>3. ASSUME LockIInv, NEW k \in Locks \ late
      PROVE  Cardinality(Holders(k)) <= 1
  <2>. DEFINE o == lockKeys[k].owner
  <2>1. Holders(k) \subseteq {o}
    BY <1>3 DEF LockIInv, Holders
  <2>2. IsFiniteSet({o}) /\ Cardinality({o}) = 1
    BY FS_Singleton
  <2>. HIDE DEF o
  <2>3. Cardinality(Holders(k)) <= Cardinality({o})
    BY <2>1, <2>2, FS_Subset
  <2>. QED
    BY <2>2, <2>3
<1>4. LockIInv => MutualExclusion
  BY <1>3 DEF MutualExclusion
<1>. QED
  BY <1>1, <1>2, <1>4, PTL DEF LockSpec

-----------------------------------------------------------------------------
(* The rate limiters. *)

RateTypes ==
  /\ now \in Nat /\ redisCount \in 0 .. maxRequests + 1 /\ expires \in Nat
  /\ let \in Seq(Nat) /\ shared \in Seq(Nat)
  /\ \A i \in 1 .. Len(let) : let[i] <= now
  /\ \A i \in 1 .. Len(shared) : shared[i] <= now

\* The limiter in memory has not forgotten a request that is still in the window.
Remembered ==
  /\ requests \subseteq 1 .. Len(let)
  /\ \A i \in 1 .. Len(let) : now - let[i] < window => i \in requests

\* Positions up to b were let through under earlier keys, those up to c under the
\* key before this one, which began at time a and is gone, the rest under this
\* key, which began at start.
Keys(b, c, a, start) ==
  /\ b <= c /\ c <= Len(shared) /\ c - b <= maxRequests
  /\ Len(shared) - c = IF redisCount < maxRequests THEN redisCount ELSE maxRequests
  /\ a + window <= now
  /\ \A i \in 1 .. b : shared[i] < a
  /\ redisCount = 0 => expires = 0 /\ \A i \in 1 .. Len(shared) : shared[i] < now
  /\ redisCount > 0 => /\ \A i \in 1 .. c : shared[i] < start
                       /\ start <= now
                       /\ expires # 0 => expires >= start + window

RateIInv ==
  /\ RateTypes /\ Remembered
  /\ \E b, c \in Nat, a, start \in Int : Keys(b, c, a, start)
  /\ \A t \in Int : /\ Cardinality(Within(let, t)) <= maxRequests
                    /\ Cardinality(Within(shared, t)) <= 2 * maxRequests

\* The positions of a sequence are finitely many.
LEMMA WithinFinite ==
  ASSUME NEW s \in Seq(Nat), NEW t
  PROVE  IsFiniteSet(Within(s, t)) /\ Cardinality(Within(s, t)) \in Nat
<1>1. Within(s, t) \subseteq 1 .. Len(s) /\ Len(s) \in Nat
  BY DEF Within
<1>2. IsFiniteSet(1 .. Len(s))
  BY <1>1, FS_Interval
<1>. QED
  BY <1>1, <1>2, FS_Subset, FS_CardinalityType

\* A request that is let through counts only for the windows it is in.
LEMMA WithinAppend ==
  ASSUME NEW s \in Seq(Nat), NEW x \in Nat, NEW t \in Int
  PROVE  /\ Within(Append(s, x), t) =
              Within(s, t) \cup (IF x \in t .. (t + window - 1) THEN {Len(s) + 1} ELSE {})
BY RateAssumption DEF Within

LEMMA InitRate == RateInit => RateIInv
<1>. SUFFICES ASSUME RateInit PROVE RateIInv
  OBVIOUS
<1>1. RateTypes /\ Remembered
  BY RateAssumption DEF RateInit, RateTypes, Remembered
<1>2. Keys(0, 0, 1 - window, 0) /\ 1 - window \in Int
  BY RateAssumption DEF RateInit, Keys
<1>3. ASSUME NEW t \in Int PROVE Within(let, t) = {} /\ Within(shared, t) = {}
  BY DEF RateInit, Within
<1>4. \A t \in Int : /\ Cardinality(Within(let, t)) <= maxRequests
                     /\ Cardinality(Within(shared, t)) <= 2 * maxRequests
  BY <1>3, FS_EmptySet, RateAssumption
<1>5. \E b, c \in Nat, a, start \in Int : Keys(b, c, a, start)
  BY <1>2
<1>. QED
  BY <1>1, <1>4, <1>5 DEF RateIInv

\* A step of the limiter in memory.
LEMMA CleanupRate == ASSUME RateIInv, Cleanup PROVE RateIInv'
<1>1. /\ requests' = Valid /\ now' = now /\ let' = let /\ shared' = shared
      /\ redisCount' = redisCount /\ expires' = expires
  BY DEF Cleanup
<1>2. RateTypes' /\ \A b, c, a, start : Keys(b, c, a, start)' = Keys(b, c, a, start)
  BY <1>1 DEF RateIInv, RateTypes, Keys
<1>3. Remembered'
  BY <1>1 DEF RateIInv, Remembered, Valid
<1>. QED
  BY <1>1, <1>2, <1>3 DEF RateIInv, Within

LEMMA AllowRate == ASSUME RateIInv, Allow PROVE RateIInv'
<1>. DEFINE n == Len(let) + 1
            admit == Cardinality(Valid) < maxRequests
<1>1. /\ requests' = IF admit THEN Valid \cup {n} ELSE Valid
      /\ let' = IF admit THEN Append(let, now) ELSE let
      /\ now' = now /\ shared' = shared /\ redisCount' = redisCount /\ expires' = expires
  BY DEF Allow
<1>2. /\ now \in Nat /\ let \in Seq(Nat) /\ Len(let) \in Nat
      /\ requests \subseteq 1 .. Len(let)
  BY DEF RateIInv, RateTypes, Remembered
<1>3. IsFiniteSet(Valid) /\ Valid \subseteq 1 .. Len(let) /\ Cardinality(Valid) \in Nat
  <2>1. Valid \subseteq 1 .. Len(let)
    BY <1>2 DEF Valid
  <2>2. IsFiniteSet(1 .. Len(let))
    BY <1>2, FS_Interval
  <2>. QED
    BY <2>1, <2>2, FS_Subset, FS_CardinalityType
<1>4. \A b, c, a, start : Keys(b, c, a, start)' = Keys(b, c, a, start)
  BY <1>1 DEF Keys
<1>5. \A t \in Int : Cardinality(Within(shared', t)) <= 2 * maxRequests
  BY <1>1 DEF RateIInv
<1>. HIDE DEF admit
<1>6. CASE ~admit
  <2>1. RateTypes' /\ Remembered'
    BY <1>1, <1>6 DEF RateIInv, RateTypes, Remembered, Valid
  <2>. QED
    BY <1>1, <1>4, <1>5, <1>6, <2>1 DEF RateIInv, Within
<1>7. CASE admit
  <2>1. /\ let' \in Seq(Nat) /\ Len(let') = n /\ let'[n] = now
        /\ \A i \in 1 .. Len(let) : let'[i] = let[i]
    BY <1>1, <1>2, <1>7
  <2>2. RateTypes'
    <3>1. \A i \in 1 .. Len(let) : let[i] <= now
      BY DEF RateIInv, RateTypes
    <3>2. \A i \in 1 .. n : let'[i] <= now
      BY <1>2, <2>1, <3>1
    <3>. QED
      BY <1>1, <2>1, <3>2 DEF RateIInv, RateTypes
  <2>3. Remembered'
    BY <1>1, <1>2, <1>3, <1>7, <2>1 DEF RateIInv, Remembered, Valid
  <2>4. ASSUME NEW t \in Int PROVE Cardinality(Within(let', t)) <= maxRequests
    <3>1. CASE now \notin t .. (t + window - 1)
      <4>1. Within(let', t) = Within(let, t)
        BY <1>1, <1>2, <1>7, <3>1, WithinAppend
      <4>. QED
        BY <4>1 DEF RateIInv
    <3>2. CASE now \in t .. (t + window - 1)
      <4>1. Within(let, t) \subseteq Valid
        <5>. SUFFICES ASSUME NEW i \in Within(let, t) PROVE i \in Valid
          OBVIOUS
        <5>1. i \in 1 .. Len(let) /\ let[i] \in Nat /\ let[i] >= t
          BY <1>2, RateAssumption DEF Within
        <5>2. now - let[i] < window
          BY <1>2, <3>2, <5>1, RateAssumption
        <5>. QED
          BY <5>1, <5>2 DEF RateIInv, Remembered, Valid
      <4>2. Within(let', t) \subseteq Valid \cup {n}
        BY <1>1, <1>2, <1>7, <3>2, <4>1, WithinAppend
      <4>3. IsFiniteSet(Valid \cup {n}) /\ Cardinality(Valid \cup {n}) = Cardinality(Valid) + 1
        <5>1. n \notin Valid
          BY <1>2, <1>3
        <5>. QED
          BY <1>3, <5>1, FS_AddElement
      <4>4. Cardinality(Within(let', t)) <= Cardinality(Valid \cup {n})
        BY <4>2, <4>3, FS_Subset
      <4>5. Cardinality(Within(let', t)) \in Nat
        BY <2>1, WithinFinite
      <4>6. Cardinality(Valid) + 1 <= maxRequests
        BY <1>3, <1>7, RateAssumption DEF admit
      <4>. QED
        BY <1>3, <4>3, <4>4, <4>5, <4>6, RateAssumption
    <3>. QED
      BY <3>1, <3>2
  <2>5. (\A t \in Int : /\ Cardinality(Within(let, t)) <= maxRequests
                        /\ Cardinality(Within(shared, t)) <= 2 * maxRequests)'
    BY <1>5, <2>4 DEF Within
  <2>. QED
    BY <1>4, <2>2, <2>3, <2>5 DEF RateIInv
<1>. QED
  BY <1>6, <1>7

\* A step that lets nobody through.
LEMMA QuietRate ==
  ASSUME RateIInv, let' = let, shared' = shared, requests' = requests, now' \in Nat, now <= now',
         redisCount' \in 0 .. maxRequests + 1, expires' \in Nat,
         \E b, c \in Nat, a, start \in Int : Keys(b, c, a, start)'
  PROVE  RateIInv'
<1>1. now \in Nat /\ let \in Seq(Nat) /\ shared \in Seq(Nat)
  BY DEF RateIInv, RateTypes
<1>2. \A i \in 1 .. Len(let) : let[i] \in Nat
  BY <1>1
<1>3. \A i \in 1 .. Len(shared) : shared[i] \in Nat
  BY <1>1
<1>4. RateTypes'
  <2>1. ASSUME NEW i \in 1 .. Len(let) PROVE let[i] <= now'
    <3>1. let[i] \in Nat /\ let[i] <= now
      BY <1>2 DEF RateIInv, RateTypes
    <3>. QED
      BY <1>1, <3>1
  <2>2. ASSUME NEW i \in 1 .. Len(shared) PROVE shared[i] <= now'
    <3>1. shared[i] \in Nat /\ shared[i] <= now
      BY <1>3 DEF RateIInv, RateTypes
    <3>. QED
      BY <1>1, <3>1
  <2>. QED
    BY <1>1, <2>1, <2>2 DEF RateTypes
<1>5. Remembered'
  <2>1. ASSUME NEW i \in 1 .. Len(let), now' - let[i] < window PROVE i \in requests
    <3>1. now - let[i] < window
      <4>1. let[i] \in Nat /\ window \in Nat /\ now \in Nat /\ now' \in Nat /\ now <= now'
        BY <1>1, <1>2, RateAssumption
      <4>. QED
        BY <2>1, <4>1
    <3>. QED
      BY <3>1 DEF RateIInv, Remembered
  <2>. QED
    BY <2>1 DEF RateIInv, Remembered
<1>6. \A t : Within(let', t) = Within(let, t) /\ Within(shared', t) = Within(shared, t)
  BY DEF Within
<1>7. (\A t \in Int : /\ Cardinality(Within(let, t)) <= maxRequests
                      /\ Cardinality(Within(shared, t)) <= 2 * maxRequests)'
  BY <1>6 DEF RateIInv
<1>. QED
  BY <1>4, <1>5, <1>7 DEF RateIInv

LEMMA IncrRate == ASSUME RateIInv, NEW s \in Servers, Incr(s) PROVE RateIInv'
<1>1. /\ redisCount <= maxRequests /\ redisCount' = redisCount + 1
      /\ shared' = IF redisCount < maxRequests THEN Append(shared, now) ELSE shared
      /\ now' = now /\ requests' = requests /\ expires' = expires /\ let' = let
  BY DEF Incr
<1>2. /\ now \in Nat /\ redisCount \in 0 .. maxRequests + 1 /\ expires \in Nat
      /\ shared \in Seq(Nat) /\ Len(shared) \in Nat /\ maxRequests \in Nat \ {0} /\ window \in Nat \ {0}
      /\ \A i \in 1 .. Len(shared) : shared[i] \in Nat /\ shared[i] <= now
  BY RateAssumption DEF RateIInv, RateTypes
<1>3. PICK b \in Nat, c \in Nat, a \in Int, start \in Int : Keys(b, c, a, start)
  BY DEF RateIInv
<1>4. CASE redisCount >= maxRequests
  <2>1. Keys(b, c, a, start)'
    BY <1>1, <1>2, <1>3, <1>4 DEF Keys
  <2>2. (\E i, k \in Nat, x, y \in Int : Keys(i, k, x, y))'
    BY <2>1
  <2>3. redisCount' \in 0 .. maxRequests + 1 /\ now <= now' /\ shared' = shared
    BY <1>1, <1>2, <1>4
  <2>. QED
    BY <1>1, <1>2, <2>2, <2>3, QuietRate
<1>5. CASE redisCount < maxRequests
  <2>. DEFINE n == Len(shared) + 1
  <2>1. /\ shared' \in Seq(Nat) /\ Len(shared') = n /\ shared'[n] = now
        /\ \A i \in 1 .. Len(shared) : shared'[i] = shared[i]
    BY <1>1, <1>2, <1>5
  <2>2. RateTypes'
    <3>1. ASSUME NEW i \in 1 .. n PROVE shared'[i] <= now
      <4>1. i \in 1 .. Len(shared) \/ i = n
        BY <1>2
      <4>2. i \in 1 .. Len(shared) => shared'[i] = shared[i] /\ shared[i] <= now
        BY <1>2, <2>1
      <4>3. now <= now
        BY <1>2
      <4>. QED
        BY <2>1, <4>1, <4>2, <4>3
    <3>2. redisCount' \in 0 .. maxRequests + 1
      BY <1>1, <1>2
    <3>. QED
      BY <1>1, <2>1, <3>1, <3>2 DEF RateIInv, RateTypes
  <2>3. Remembered'
    BY <1>1 DEF RateIInv, Remembered
  <2>4. /\ 1 .. b \subseteq 1 .. Len(shared) /\ 1 .. c \subseteq 1 .. Len(shared)
        /\ a + window <= now /\ \A i \in 1 .. b : shared[i] < a
    BY <1>2, <1>3 DEF Keys
  <2>5. PICK first \in Int : first = IF redisCount = 0 THEN now ELSE start
    BY <1>2
  <2>6. Keys(b, c, a, first)'
    <3>1. /\ b <= c /\ c <= Len(shared) /\ c - b <= maxRequests /\ a + window <= now
          /\ Len(shared) - c = redisCount
      BY <1>2, <1>3, <1>5 DEF Keys
    <3>2. /\ b <= c /\ c <= Len(shared') /\ c - b <= maxRequests
          /\ Len(shared') - c = IF redisCount' < maxRequests THEN redisCount' ELSE maxRequests
          /\ a + window <= now' /\ redisCount' > 0
      BY <1>1, <1>2, <1>5, <2>1, <3>1
    <3>3. \A i \in 1 .. b : shared'[i] < a
      BY <2>1, <2>4
    <3>4. CASE redisCount = 0
      <4>1. expires' = 0 /\ \A i \in 1 .. c : shared'[i] < now
        BY <1>1, <1>2, <1>3, <2>1, <3>4 DEF Keys
      <4>. QED
        BY <1>1, <1>2, <2>5, <3>2, <3>3, <3>4, <4>1 DEF Keys
    <3>5. CASE redisCount > 0
      <4>1. /\ \A i \in 1 .. c : shared'[i] < start
            /\ start <= now' /\ (expires' # 0 => expires' >= start + window)
        BY <1>1, <1>2, <1>3, <2>1, <3>5 DEF Keys
      <4>. QED
        BY <1>2, <2>5, <3>2, <3>3, <3>5, <4>1 DEF Keys
    <3>. QED
      BY <1>2, <3>4, <3>5
  <2>7. ASSUME NEW t \in Int PROVE Cardinality(Within(shared', t)) <= 2 * maxRequests
    <3>1. CASE now \notin t .. (t + window - 1)
      <4>1. shared' = Append(shared, now)
        BY <1>1, <1>5
      <4>2. Within(Append(shared, now), t) = Within(shared, t) \cup {}
        BY <1>2, <3>1, WithinAppend
      <4>. QED
        BY <4>1, <4>2 DEF RateIInv
    <3>2. CASE now \in t .. (t + window - 1)
      <4>1. Within(shared', t) \subseteq (b + 1) .. n
        <5>. SUFFICES ASSUME NEW i \in Within(shared', t) PROVE i > b /\ i \in 1 .. n
          BY <1>2
        <5>1. i \in 1 .. n /\ shared'[i] >= t /\ shared'[i] \in Nat
          BY <1>2, <2>1 DEF Within
        <5>2. CASE i \in 1 .. b
          <6>1. shared'[i] < a /\ a + window <= now
            BY <2>1, <2>4, <5>2
          <6>. QED
            BY <1>2, <3>2, <5>1, <6>1
        <5>. QED
          BY <5>1, <5>2
      <4>2. /\ IsFiniteSet((b + 1) .. n) /\ Cardinality((b + 1) .. n) = n - b
        <5>1. b + 1 \in Int /\ n \in Int /\ b + 1 <= n /\ n - (b + 1) + 1 = n - b
          BY <1>2, <1>3 DEF Keys
        <5>2. Cardinality((b + 1) .. n) = n - (b + 1) + 1 /\ IsFiniteSet((b + 1) .. n)
          BY <5>1, FS_Interval
        <5>. QED
          BY <5>1, <5>2
      <4>3. Cardinality(Within(shared', t)) <= Cardinality((b + 1) .. n)
        BY <4>1, <4>2, FS_Subset
      <4>4. Cardinality(Within(shared', t)) \in Nat
        BY <2>1, WithinFinite
      <4>5. n - b <= 2 * maxRequests
        BY <1>2, <1>3, <1>5 DEF Keys
      <4>. QED
        BY <1>2, <4>2, <4>3, <4>4, <4>5
    <3>. QED
      BY <3>1, <3>2
  <2>8. (\A t \in Int : /\ Cardinality(Within(let, t)) <= maxRequests
                        /\ Cardinality(Within(shared, t)) <= 2 * maxRequests)'
    BY <1>1, <2>7 DEF RateIInv, Within
  <2>9. (\E i, k \in Nat, x, y \in Int : Keys(i, k, x, y))'
    BY <2>6
  <2>. QED
    BY <2>2, <2>3, <2>8, <2>9 DEF RateIInv
<1>. QED
  BY <1>2, <1>4, <1>5

LEMMA ExpireRate == ASSUME RateIInv, NEW s \in Servers, Expire(s) PROVE RateIInv'
<1>1. /\ expires' = IF redisCount > 0 THEN now + window ELSE 0
      /\ now' = now /\ requests' = requests /\ redisCount' = redisCount /\ let' = let /\ shared' = shared
  BY DEF Expire
<1>2. /\ now \in Nat /\ redisCount \in 0 .. maxRequests + 1 /\ window \in Nat \ {0}
  BY RateAssumption DEF RateIInv, RateTypes
<1>3. PICK b \in Nat, c \in Nat, a \in Int, start \in Int : Keys(b, c, a, start)
  BY DEF RateIInv
<1>4. Keys(b, c, a, start)'
  BY <1>1, <1>2, <1>3 DEF Keys
<1>5. (\E i, k \in Nat, x, y \in Int : Keys(i, k, x, y))'
  BY <1>4
<1>6. expires' \in Nat /\ now <= now'
  BY <1>1, <1>2
<1>. QED
  BY <1>1, <1>2, <1>5, <1>6, QuietRate

LEMMA PassRate == ASSUME RateIInv, Pass PROVE RateIInv'
<1>. DEFINE gone == redisCount > 0 /\ expires # 0 /\ expires <= now'
<1>1. /\ now' = now + 1 /\ requests' = requests /\ let' = let /\ shared' = shared
      /\ redisCount' = IF gone THEN 0 ELSE redisCount
      /\ expires' = IF gone THEN 0 ELSE expires
  BY DEF Pass
<1>2. /\ now \in Nat /\ redisCount \in 0 .. maxRequests + 1 /\ expires \in Nat
      /\ Len(shared) \in Nat /\ maxRequests \in Nat \ {0} /\ window \in Nat \ {0}
      /\ \A i \in 1 .. Len(shared) : shared[i] \in Nat /\ shared[i] <= now
  BY RateAssumption DEF RateIInv, RateTypes
<1>3. PICK b \in Nat, c \in Nat, a \in Int, start \in Int : Keys(b, c, a, start)
  BY DEF RateIInv
<1>4. now' \in Nat /\ now <= now' /\ redisCount' \in 0 .. maxRequests + 1 /\ expires' \in Nat
  BY <1>1, <1>2
<1>5. CASE gone
  <2>1. PICK n \in Nat : n = Len(shared)
    BY <1>2
  <2>2. Keys(c, n, start, start)'
    BY <1>1, <1>2, <1>3, <1>5, <2>1 DEF Keys
  <2>3. (\E i, k \in Nat, x, y \in Int : Keys(i, k, x, y))'
    BY <1>2, <2>2
  <2>. QED
    BY <1>1, <1>2, <1>4, <2>3, QuietRate
<1>6. CASE ~gone
  <2>1. Keys(b, c, a, start)'
    BY <1>1, <1>2, <1>3, <1>6 DEF Keys
  <2>2. (\E i, k \in Nat, x, y \in Int : Keys(i, k, x, y))'
    BY <1>2, <2>1
  <2>. QED
    BY <1>1, <1>2, <1>4, <2>2, QuietRate
<1>. QED
  BY <1>5, <1>6

LEMMA NextRate == RateIInv /\ [RateNext]_rateVars => RateIInv'
<1>. SUFFICES ASSUME RateIInv, [RateNext]_rateVars PROVE RateIInv'
  OBVIOUS
<1>1. ASSUME now' = now, requests' = requests, redisCount' = redisCount, expires' = expires,
             let' = let, shared' = shared
      PROVE RateIInv'
  BY <1>1 DEF RateIInv, RateTypes, Remembered, Keys, Within
<1>2. ASSUME NEW s \in Servers, IncrFails(s) \/ ExpireLost(s) PROVE RateIInv'
  BY <1>1, <1>2 DEF IncrFails, ExpireLost
<1>3. CASE UNCHANGED rateVars
  BY <1>1, <1>3 DEF rateVars
<1>. QED
  BY <1>2, <1>3, CleanupRate, AllowRate, PassRate, IncrRate, ExpireRate DEF RateNext

\* However requests, the cleanup and the servers interleave, for every limit and
\* window: RateLimit.Allow lets at most maxRequests through in any window,
\* RedisRateLimit.Allow at most twice that, with EXPIREs late or lost.
THEOREM WindowTheorem == RateSpec => []WindowIsLimited
<1>1. RateIInv => WindowIsLimited
  BY DEF RateIInv, WindowIsLimited
<1>. QED
  BY <1>1, InitRate, NextRate, PTL DEF RateSpec
=============================================================================
