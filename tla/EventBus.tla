------------------------------ MODULE EventBus ------------------------------
(***************************************************************************)
(* The in-memory event bus.  Publish keeps the read lock while it runs the *)
(* handlers; Subscribe and Unsubscribe take the write lock.  A Go RWMutex  *)
(* lets no new reader in while a writer waits, so a handler that comes     *)
(* back to the bus may wait for itself.                                    *)
(***************************************************************************)
EXTENDS Integers, Sequences, FiniteSets, SequencesExt

CONSTANTS
  Callers,      \* goroutines that use the bus
  Topics,       \* topics: sequences of letters
  Patterns,     \* what is subscribed to: the same, possibly ending in "*"
  Effects,      \* what a handler may do: "ok", "fail", "subscribe", "publish"
  MaxCalls

ASSUME EffectsAssumption == Effects \subseteq {"ok", "fail", "subscribe", "publish"}

VARIABLES
  subs,         \* subs[pattern]: the subscriptions of a pattern, oldest first
  subCounter,
  readers,      \* callers holding the read lock
  writers,      \* callers waiting for the write lock, in order of arrival
  call,         \* call[c]: what caller c is doing
  calls,
  dropped       \* history: ids whose Unsubscribe has returned

busVars == <<subs, subCounter, readers, writers, call, calls, dropped>>

AtRest == [op |-> "rest"]

BusInit ==
  /\ subs = [p \in Patterns |-> <<>>] /\ subCounter = 0
  /\ readers = {} /\ writers = <<>>
  /\ call = [c \in Callers |-> AtRest] /\ calls = 0
  /\ dropped = {}

\* Equal, or a pattern ending in "*" whose rest is a prefix of the topic.
matchTopic(pattern, topic) ==
  \/ pattern = topic
  \/ /\ pattern # <<>> /\ Last(pattern) = "*"
     /\ IsPrefix(Front(pattern), topic)

\* A reader is let in when nobody writes and nobody waits to.
MayRead == writers = <<>>

\* The head of the writers has the lock once the readers are gone.
MayWrite(c) == writers # <<>> /\ Head(writers) = c /\ readers = {}

Matching(topic) == {p \in Patterns : matchTopic(p, topic)}

\* The map of patterns is ranged over in any order, a pattern's list in its own.
HandlerLists(topic) ==
  {FlattenSeq([i \in DOMAIN o |-> subs[o[i]]]) : o \in SetToSeqs(Matching(topic))}

\* Publish, PublishAsync: a goroutine asks for the read lock.
Publish(c, topic) ==
  /\ call[c].op = "rest" /\ calls < MaxCalls
  /\ call' = [call EXCEPT ![c] = [op |-> "publish", topic |-> topic]]
  /\ calls' = calls + 1
  /\ UNCHANGED <<subs, subCounter, readers, writers, dropped>>

RLock(c) ==
  /\ call[c].op = "publish" /\ MayRead
  /\ \E hs \in HandlerLists(call[c].topic) :
       call' = [call EXCEPT ![c] =
                  [op |-> "run", topic |-> call[c].topic, todo |-> hs, due |-> ToSet(hs)]]
  /\ readers' = readers \cup {c}
  /\ UNCHANGED <<subs, subCounter, writers, calls, dropped>>

\* The next handler runs; its error ends the Publish and leaves the rest out.
RunHandler(c, effect) ==
  /\ call[c].op = "run" /\ call[c].todo # <<>>
  /\ LET after == [op |-> "run", topic |-> call[c].topic, todo |-> Tail(call[c].todo),
                    due |-> call[c].due]
     IN /\ call' = [call EXCEPT ![c] =
             CASE effect = "ok" -> after
               [] effect = "fail" -> [op |-> "failed"]
               [] effect = "subscribe" -> [op |-> "reenter", kind |-> "write", back |-> after]
               [] effect = "publish" -> [op |-> "reenter", kind |-> "read", back |-> after]]
        /\ writers' = IF effect = "subscribe" THEN Append(writers, c) ELSE writers
  /\ UNCHANGED <<subs, subCounter, readers, calls, dropped>>

\* A handler's own Publish, to a topic nobody listens to, gets through when no
\* writer waits; its own Subscribe never does, for its caller is a reader.
Reenter(c) ==
  /\ call[c].op = "reenter" /\ call[c].kind = "read" /\ MayRead
  /\ call' = [call EXCEPT ![c] = call[c].back]
  /\ UNCHANGED <<subs, subCounter, readers, writers, calls, dropped>>

\* Mutated RUnlock: the lock survives a handler's error.
RUnlockForgotten(c) ==
  /\ call[c].op = "failed" \/ (call[c].op = "run" /\ call[c].todo = <<>>)
  /\ call' = [call EXCEPT ![c] = AtRest]
  /\ readers' = IF call[c].op = "failed" THEN readers ELSE readers \ {c}
  /\ UNCHANGED <<subs, subCounter, writers, calls, dropped>>

\* The deferred RUnlock, when the handlers are through or one has failed.
RUnlock(c) ==
  /\ call[c].op = "failed" \/ (call[c].op = "run" /\ call[c].todo = <<>>)
  /\ call' = [call EXCEPT ![c] = AtRest]
  /\ readers' = readers \ {c}
  /\ UNCHANGED <<subs, subCounter, writers, calls, dropped>>

Subscribe(c, pattern) ==
  /\ call[c].op = "rest" /\ calls < MaxCalls
  /\ call' = [call EXCEPT ![c] = [op |-> "subscribe", pattern |-> pattern]]
  /\ writers' = Append(writers, c) /\ calls' = calls + 1
  /\ UNCHANGED <<subs, subCounter, readers, dropped>>

DoSubscribe(c) ==
  /\ call[c].op = "subscribe" /\ MayWrite(c)
  /\ subCounter' = subCounter + 1
  /\ subs' = [subs EXCEPT ![call[c].pattern] = Append(@, subCounter')]
  /\ call' = [call EXCEPT ![c] = AtRest]
  /\ writers' = Tail(writers)
  /\ UNCHANGED <<readers, calls, dropped>>

Unsubscribe(c, id) ==
  /\ call[c].op = "rest" /\ calls < MaxCalls /\ id <= subCounter
  /\ call' = [call EXCEPT ![c] = [op |-> "unsubscribe", id |-> id]]
  /\ writers' = Append(writers, c) /\ calls' = calls + 1
  /\ UNCHANGED <<subs, subCounter, readers, dropped>>

\* An id that is not found is an error and changes nothing.
DoUnsubscribe(c) ==
  /\ call[c].op = "unsubscribe" /\ MayWrite(c)
  /\ subs' = [p \in Patterns |-> SelectSeq(subs[p], LAMBDA s : s # call[c].id)]
  /\ dropped' = dropped \cup {call[c].id}
  /\ call' = [call EXCEPT ![c] = AtRest]
  /\ writers' = Tail(writers)
  /\ UNCHANGED <<subCounter, readers, calls>>

BusNext == \E c \in Callers :
  \/ \E t \in Topics : Publish(c, t)
  \/ RLock(c)
  \/ \E e \in Effects : RunHandler(c, e)
  \/ Reenter(c)
  \/ RUnlock(c)
  \/ \E p \in Patterns : Subscribe(c, p)
  \/ DoSubscribe(c)
  \/ \E id \in 1..MaxCalls : Unsubscribe(c, id)
  \/ DoUnsubscribe(c)

BusSpec == BusInit /\ [][BusNext]_busVars

\* Somebody can always go on, unless a handler came back to the bus it runs
\* under: only a re-entrant handler stops the bus.
OnlyReentryStops ==
  \/ \E c \in Callers : call[c].op = "reenter"
  \/ \A c \in Callers : call[c].op = "rest"
  \/ \E c \in Callers : \/ call[c].op \in {"run", "failed"}
                        \/ call[c].op = "publish" /\ MayRead
                        \/ MayWrite(c)
=============================================================================
