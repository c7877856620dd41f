-------------------------- MODULE MCCircuitBreaker --------------------------
(* The circuit breaker and the lock share no state: one behaviour exercises one. *)
EXTENDS CircuitBreaker, DistLock

VARIABLE part

vars == <<part, breakerVars, lockVars>>

Only(p) ==
  /\ part = p /\ UNCHANGED part
  /\ p # "http" => UNCHANGED breakerVars
  /\ p # "lock" => UNCHANGED lockVars

Init == part \in {"http", "lock"} /\ BreakerInit /\ LockInit

Next ==
  \/ Only("http") /\ BreakerNext
  \/ Only("lock") /\ LockNext

\* Goroutines run, callers keep sending requests, a mutex is not handed to the
\* same goroutines for ever (Go's starvation mode), and time passes.
Spec ==
  /\ Init /\ [][Next]_vars
  /\ \A c \in Callers : SF_vars(Step(c) /\ Only("http"))
  /\ WF_vars(Elapse /\ Only("http"))
=============================================================================
