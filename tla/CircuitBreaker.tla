--------------------------- MODULE CircuitBreaker ---------------------------
(***************************************************************************)
(* pkg/net: the circuit breaker and the HTTP client that consults it.      *)
(* Every load, store, add and compare-and-swap of the breaker's atomics is *)
(* a step of its own, so calls interleave as they do in the code; mu only  *)
(* serialises the transitions out of the half-open state and into it.      *)
(* halfOpenDone is left out: nothing waits on that channel.                *)
(***************************************************************************)
EXTENDS Integers, FiniteSets

CONSTANTS
  Callers,          \* goroutines that use the client
  FailureThreshold,
  SuccessThreshold,
  RetryMax,
  NoOne             \* holder of a free mu

ASSUME BreakerAssumption ==
  /\ NoOne \notin Callers
  /\ {FailureThreshold, SuccessThreshold} \subseteq Nat \ {0}
  /\ RetryMax \in Nat

VARIABLES
  state,         \* "closed", "open", "halfOpen"
  failureCount,  \* counted up to FailureThreshold: all the code compares it with
  successCount,  \* counted up to SuccessThreshold
  expired,       \* more than timeout has passed since lastFailure
  mu,
  req            \* at: next step of do(); i: attempt; count: result of failureCount.Add

breakerVars == <<state, failureCount, successCount, expired, mu, req>>

Idle == [at |-> "idle", i |-> 0, count |-> 0]

BreakerInit ==
  /\ state = "closed"
  /\ failureCount = 0 /\ successCount = 0
  /\ expired = TRUE          \* lastFailure is zero, the year 1970
  /\ mu = NoOne
  /\ req = [c \in Callers |-> Idle]

Least(m, n) == IF m <= n THEN m ELSE n
At(c, step) == req[c].at = step
GoTo(c, step) == req' = [req EXCEPT ![c].at = step]
Return(c) == req' = [req EXCEPT ![c] = Idle]
TakeMu(c) == mu = NoOne /\ mu' = c

ReleaseMu(c) == mu' = NoOne

-----------------------------------------------------------------------------
(* Allow. *)

\* state.Load
AllowLoad(c) ==
  /\ At(c, "idle")
  /\ GoTo(c, IF state = "open" THEN "expiry" ELSE "attempt")
  /\ UNCHANGED <<state, failureCount, successCount, expired, mu>>

\* Mutated AllowExpiry: the comparison with the timeout is the wrong way round.
AllowExpiryInverted(c) ==
  /\ At(c, "expiry")
  /\ IF expired THEN Return(c) ELSE GoTo(c, "toHalfOpen")
  /\ UNCHANGED <<state, failureCount, successCount, expired, mu>>

\* lastFailure.Load; ErrCircuitOpen if the timeout is not over.
AllowExpiry(c) ==
  /\ At(c, "expiry")
  /\ IF expired THEN GoTo(c, "toHalfOpen") ELSE Return(c)
  /\ UNCHANGED <<state, failureCount, successCount, expired, mu>>

\* CompareAndSwap(open, halfOpen); the request passes whether or not it succeeds.
AllowSwap(c) ==
  /\ At(c, "toHalfOpen")
  /\ mu = NoOne
  /\ \/ /\ state = "open"
        /\ state' = "halfOpen"
        /\ mu' = c
        /\ GoTo(c, "zeroSuccess")
     \/ /\ state # "open"
        /\ GoTo(c, "attempt")
        /\ UNCHANGED <<state, mu>>
  /\ UNCHANGED <<failureCount, successCount, expired>>

AllowZero(c) ==
  /\ At(c, "zeroSuccess")
  /\ successCount' = 0
  /\ ReleaseMu(c)
  /\ GoTo(c, "attempt")
  /\ UNCHANGED <<state, failureCount, expired>>

-----------------------------------------------------------------------------
(* One attempt of HTTPClient.do. *)

\* An error, a 5xx or a good answer.  A 5xx is a failure, except for the last
\* attempt, which returns it to the caller and counts it as a success.
Attempt(c, outcome) ==
  /\ At(c, "attempt")
  /\ GoTo(c, IF outcome = "error" \/ (outcome = "5xx" /\ req[c].i < RetryMax)
             THEN "addFailure" ELSE "success")
  /\ UNCHANGED <<state, failureCount, successCount, expired, mu>>

\* The next attempt, without asking Allow again, or the end of the loop.
AfterFailure(c) ==
  IF req[c].i < RetryMax
  THEN req' = [req EXCEPT ![c] = [at |-> "attempt", i |-> req[c].i + 1, count |-> 0]]
  ELSE Return(c)

\* The request's context ends while it waits for the next attempt.
GiveUp(c) ==
  /\ At(c, "attempt") /\ req[c].i > 0
  /\ Return(c)
  /\ UNCHANGED <<state, failureCount, successCount, expired, mu>>

-----------------------------------------------------------------------------
(* Success. *)

SuccessLoad(c) ==
  /\ At(c, "success")
  /\ CASE state = "halfOpen" -> GoTo(c, "addSuccess")
       [] state = "closed" -> GoTo(c, "zeroFailure")
       [] state = "open" -> Return(c)
  /\ UNCHANGED <<state, failureCount, successCount, expired, mu>>

SuccessZero(c) ==
  /\ At(c, "zeroFailure")
  /\ failureCount' = 0
  /\ Return(c)
  /\ UNCHANGED <<state, successCount, expired, mu>>

SuccessAdd(c) ==
  /\ At(c, "addSuccess")
  /\ successCount' = Least(successCount + 1, SuccessThreshold)
  /\ IF successCount + 1 >= SuccessThreshold THEN GoTo(c, "close") ELSE Return(c)
  /\ UNCHANGED <<state, failureCount, expired, mu>>

\* state.Store(closed): the state is not read again.
Close(c) ==
  /\ At(c, "close")
  /\ TakeMu(c)
  /\ state' = "closed"
  /\ GoTo(c, "clearFailures")
  /\ UNCHANGED <<failureCount, successCount, expired>>

\* failureCount.Store(0), then successCount.Store(0), as in Reset.
ClearFailures(c) ==
  /\ At(c, "clearFailures")
  /\ failureCount' = 0
  /\ GoTo(c, "clearSuccesses")
  /\ UNCHANGED <<state, successCount, expired, mu>>

ClearSuccesses(c) ==
  /\ At(c, "clearSuccesses")
  /\ successCount' = 0
  /\ ReleaseMu(c)
  /\ Return(c)
  /\ UNCHANGED <<state, failureCount, expired>>

-----------------------------------------------------------------------------
(* Failure. *)

FailureAdd(c) ==
  /\ At(c, "addFailure")
  /\ failureCount' = Least(failureCount + 1, FailureThreshold)
  /\ req' = [req EXCEPT ![c].at = "failure", ![c].count = failureCount']
  /\ UNCHANGED <<state, successCount, expired, mu>>

\* Mutated FailureLoad: the threshold has to be exceeded.
FailureLoadAbove(c) ==
  /\ At(c, "failure")
  /\ \/ state = "halfOpen" /\ GoTo(c, "reopen")
     \/ state # "halfOpen" /\ req[c].count > FailureThreshold /\ GoTo(c, "toOpen")
     \/ state # "halfOpen" /\ req[c].count <= FailureThreshold /\ AfterFailure(c)
  /\ UNCHANGED <<state, failureCount, successCount, expired, mu>>

FailureLoad(c) ==
  /\ At(c, "failure")
  /\ \/ state = "halfOpen" /\ GoTo(c, "reopen")
     \/ state # "halfOpen" /\ req[c].count >= FailureThreshold /\ GoTo(c, "toOpen")
     \/ state # "halfOpen" /\ req[c].count < FailureThreshold /\ AfterFailure(c)
  /\ UNCHANGED <<state, failureCount, successCount, expired, mu>>

Reopen(c) ==
  /\ At(c, "reopen")
  /\ TakeMu(c)
  /\ state' = "open"
  /\ GoTo(c, "stampReopen")
  /\ UNCHANGED <<failureCount, successCount, expired>>

StampReopen(c) ==
  /\ At(c, "stampReopen")
  /\ expired' = FALSE
  /\ GoTo(c, "zeroReopen")
  /\ UNCHANGED <<state, failureCount, successCount, mu>>

ZeroReopen(c) ==
  /\ At(c, "zeroReopen")
  /\ failureCount' = 0
  /\ ReleaseMu(c)
  /\ AfterFailure(c)
  /\ UNCHANGED <<state, successCount, expired>>

\* CompareAndSwap(closed, open), without mu ...
Open(c) ==
  /\ At(c, "toOpen")
  /\ \/ /\ state = "closed"
        /\ state' = "open"
        /\ GoTo(c, "stamp")
     \/ /\ state # "closed"
        /\ AfterFailure(c)
        /\ UNCHANGED <<state>>
  /\ UNCHANGED <<failureCount, successCount, expired, mu>>

\* ... and only then lastFailure.Store(now).
Stamp(c) ==
  /\ At(c, "stamp")
  /\ expired' = FALSE
  /\ AfterFailure(c)
  /\ UNCHANGED <<state, failureCount, successCount, mu>>

-----------------------------------------------------------------------------
\* Reset, called by whoever is free; it ends like Success's way into closed.
Reset(c) ==
  /\ At(c, "idle")
  /\ TakeMu(c)
  /\ state' = "closed"
  /\ GoTo(c, "clearFailures")
  /\ UNCHANGED <<failureCount, successCount, expired>>

\* More than timeout passes.
Elapse ==
  /\ expired' = TRUE
  /\ UNCHANGED <<state, failureCount, successCount, mu, req>>

Step(c) ==
  \/ AllowLoad(c) \/ AllowExpiry(c) \/ AllowSwap(c) \/ AllowZero(c)
  \/ \E outcome \in {"error", "5xx", "ok"} : Attempt(c, outcome)
  \/ SuccessLoad(c) \/ SuccessZero(c) \/ SuccessAdd(c) \/ Close(c)
  \/ ClearFailures(c) \/ ClearSuccesses(c)
  \/ FailureAdd(c) \/ FailureLoad(c) \/ Reopen(c) \/ StampReopen(c) \/ ZeroReopen(c)
  \/ Open(c) \/ Stamp(c)

BreakerNext == (\E c \in Callers : Step(c) \/ GiveUp(c) \/ Reset(c)) \/ Elapse

BreakerSpec == BreakerInit /\ [][BreakerNext]_breakerVars

-----------------------------------------------------------------------------
\* Nobody is between a report's first and last step.
Settled == \A c \in Callers : req[c].at \in {"idle", "expiry", "attempt", "success", "addFailure"}

\* However the reports of several requests interleave, no transition is missed:
\* once they are all through, a closed breaker has counted fewer failures than
\* its threshold and a half-open one fewer successes.
NoTransitionMissed ==
  Settled => /\ state = "closed" => failureCount < FailureThreshold
             /\ state = "halfOpen" => successCount < SuccessThreshold

\* An open breaker does not stay open: after the timeout a request gets through.
OpenRecovers == []<>(state # "open")
=============================================================================
