----------------------------- MODULE RateLimit ------------------------------
(***************************************************************************)
(* The two limiters of the rate limiting middleware, for one address: the  *)
(* times of the requests let through in memory, a sliding window; and a    *)
(* counter in Redis that several servers share, INCR and then EXPIRE by    *)
(* whoever counted 1, a window that begins with the first request.         *)
(***************************************************************************)
EXTENDS Integers, Sequences, FiniteSets

CONSTANTS
  Servers,        \* processes that share the counter in Redis
  maxRequests, window,
  MaxTime, MaxRedisErrors

ASSUME RateAssumption == maxRequests \in Nat \ {0} /\ window \in Nat \ {0}

VARIABLES
  now,
  requests,       \* RateLimit.requests[ip]: the positions in let of the times it has
  redisCount, expires, \* the Redis key: counter, 0 when there is no key; time it goes, 0 for never
  rcall,          \* rcall[s]: "off", or "expire" between INCR and EXPIRE
  redisErrors,
  let, shared     \* history: times let through by the one limiter and by the other

rateVars == <<now, requests, redisCount, expires, rcall, redisErrors, let, shared>>

RateInit ==
  /\ now = 1 /\ requests = {} /\ redisCount = 0 /\ expires = 0
  /\ rcall = [s \in Servers |-> "off"] /\ redisErrors = 0 /\ let = <<>> /\ shared = <<>>

\* Mutated Valid: a request is forgotten a tick early.
ValidTooShort == {i \in requests : now - let[i] < window - 1}

\* The requests that are still in the window.
Valid == {i \in requests : now - let[i] < window}

\* cleanup, every window.
Cleanup ==
  /\ requests' = Valid /\ requests' # requests
  /\ UNCHANGED <<now, redisCount, expires, rcall, redisErrors, let, shared>>

\* RateLimit.Allow
Allow ==
  /\ LET admit == Cardinality(Valid) < maxRequests IN
     /\ requests' = IF admit THEN Valid \cup {Len(let) + 1} ELSE Valid
     /\ let' = IF admit THEN Append(let, now) ELSE let
  /\ UNCHANGED <<now, redisCount, expires, rcall, redisErrors, shared>>

\* RedisRateLimit.Allow: INCR; the one who counts 1 goes on to EXPIRE.  Counts past
\* the limit are all the same.
Incr(s) ==
  /\ rcall[s] = "off" /\ redisCount <= maxRequests
  /\ redisCount' = redisCount + 1
  /\ shared' = IF redisCount < maxRequests THEN Append(shared, now) ELSE shared
  /\ rcall' = IF redisCount = 0 THEN [rcall EXCEPT ![s] = "expire"] ELSE rcall
  /\ UNCHANGED <<now, requests, expires, redisErrors, let>>

\* INCR fails: the request is let through and not counted.
IncrFails(s) ==
  /\ rcall[s] = "off" /\ redisErrors < MaxRedisErrors /\ redisErrors' = redisErrors + 1
  /\ UNCHANGED <<now, requests, redisCount, expires, rcall, let, shared>>

\* EXPIRE on a key that is gone does nothing.
Expire(s) ==
  /\ rcall[s] = "expire"
  /\ rcall' = [rcall EXCEPT ![s] = "off"]
  /\ expires' = IF redisCount > 0 THEN now + window ELSE 0
  /\ UNCHANGED <<now, requests, redisCount, redisErrors, let, shared>>

\* EXPIRE fails, or the server dies before it: the key stays without an end.
ExpireLost(s) ==
  /\ rcall[s] = "expire" /\ redisErrors < MaxRedisErrors /\ redisErrors' = redisErrors + 1
  /\ rcall' = [rcall EXCEPT ![s] = "off"]
  /\ UNCHANGED <<now, requests, redisCount, expires, let, shared>>

\* Time passes; Redis drops the key when its time has come.
Pass ==
  /\ now < MaxTime /\ now' = now + 1
  /\ LET gone == redisCount > 0 /\ expires # 0 /\ expires <= now' IN
     /\ redisCount' = IF gone THEN 0 ELSE redisCount
     /\ expires' = IF gone THEN 0 ELSE expires
  /\ UNCHANGED <<requests, rcall, redisErrors, let, shared>>

RateNext ==
  \/ Cleanup \/ Allow \/ Pass
  \/ \E s \in Servers : Incr(s) \/ IncrFails(s) \/ Expire(s) \/ ExpireLost(s)

RateSpec == RateInit /\ [][RateNext]_rateVars

-----------------------------------------------------------------------------
\* The times of one window that begins at t.
Within(times, t) == {i \in DOMAIN times : times[i] \in t..(t + window - 1)}

\* However requests, cleanup and the servers interleave: the limiter in memory
\* lets at most maxRequests through in any window, the one in Redis, whose window
\* begins anew with each key, at most twice that, lost EXPIREs included.
WindowIsLimited ==
  \A t \in 1..MaxTime :
    /\ Cardinality(Within(let, t)) <= maxRequests
    /\ Cardinality(Within(shared, t)) <= 2 * maxRequests
=============================================================================
