----------------------------- MODULE DeadLetters -----------------------------
(***************************************************************************)
(* The dead letter queue, in memory or in a Redis stream.  Replay works on *)
(* a batch outside any lock: the in-memory queue takes the entries away    *)
(* first, the Redis one copies them and deletes the stream at the end.     *)
(***************************************************************************)
EXTENDS Integers, Sequences, FiniteSets, SequencesExt

CONSTANTS
  DeadEvents,   \* events that are given up on, each once
  Replayers,    \* goroutines calling Replay
  DlqMax,       \* maxSize
  MaxReplays

ASSUME DlqAssumption == DlqMax \in Nat \ {0}

VARIABLES
  dlqKind,      \* "memory" or "redis"
  entries,      \* the queue, oldest first
  replay,       \* replay[r]: the batch r has still to go through
  replays,
  pushed,       \* history: events Push accepted
  done,         \* history: done[e]: how often a replay's handler took e
  evicted,      \* history: events dropped because the queue was full
  exposed       \* history: events put into the stream while a replay ran

dlqVars == <<dlqKind, entries, replay, replays, pushed, done, evicted, exposed>>

Resting == [on |-> FALSE, todo |-> <<>>]

DlqInit ==
  /\ dlqKind \in {"memory", "redis"}
  /\ entries = <<>> /\ replays = 0
  /\ replay = [r \in Replayers |-> Resting]
  /\ pushed = {} /\ evicted = {} /\ exposed = {}
  /\ done = [e \in DeadEvents |-> 0]

\* The in-memory queue drops its oldest entry when it is full.
PushMemory(x) ==
  {Append(IF Len(entries) >= DlqMax THEN Tail(entries) ELSE entries, x)}

\* XADD with an approximate MAXLEN: some oldest entries beyond it may go.  An
\* error leaves the stream as it was.
PushRedis(x) ==
  LET all == Append(entries, x)
  IN {SubSeq(all, k, Len(all)) : k \in 1..(IF Len(all) > DlqMax THEN Len(all) - DlqMax + 1 ELSE 1)}

Pushes(x) == IF dlqKind = "memory" THEN PushMemory(x) ELSE PushRedis(x)

EventsOf(s) == {s[i].event : i \in DOMAIN s}

\* What a successful Push adds to the histories.
Stored(x, q) ==
  /\ entries' = q
  /\ evicted' = evicted \cup (EventsOf(Append(entries, x)) \ EventsOf(q))
  /\ exposed' = IF \E r \in Replayers : replay[r].on THEN exposed \cup {x.event} ELSE exposed

Push(e) ==
  /\ e \notin pushed
  /\ LET x == [event |-> e, retries |-> 0]
     IN \E q \in Pushes(x) : Stored(x, q)
  /\ pushed' = pushed \cup {e}
  /\ UNCHANGED <<dlqKind, replay, replays, done>>

\* Everything that decodes, oldest first; Push writes nothing else.
ListDead == entries

\* Replay takes the entries over (memory) or lists them (Redis).
ReplayBegin(r) ==
  /\ ~replay[r].on /\ replays < MaxReplays
  /\ replay' = [replay EXCEPT ![r] = [on |-> TRUE, todo |-> ListDead]]
  /\ entries' = IF dlqKind = "memory" THEN <<>> ELSE entries
  /\ replays' = replays + 1
  /\ UNCHANGED <<dlqKind, pushed, done, evicted, exposed>>

ReplayOK(r) ==
  /\ replay[r].on /\ replay[r].todo # <<>>
  /\ done' = [done EXCEPT ![Head(replay[r].todo).event] = @ + 1]
  /\ replay' = [replay EXCEPT ![r] = [on |-> TRUE, todo |-> Tail(replay[r].todo)]]
  /\ UNCHANGED <<dlqKind, entries, replays, pushed, evicted, exposed>>

\* Mutated ReplayFails: what fails is reported and forgotten.
ReplayFailsForgets(r) ==
  /\ replay[r].on /\ replay[r].todo # <<>>
  /\ replay' = [replay EXCEPT ![r] = [on |-> TRUE, todo |-> Tail(replay[r].todo)]]
  /\ UNCHANGED <<dlqKind, entries, replays, pushed, done, evicted, exposed>>

\* A refused event goes back with one retry more.  A Push that Redis refuses is
\* not reported, and the entry is still in the stream until Replay deletes it.
ReplayFails(r) ==
  /\ replay[r].on /\ replay[r].todo # <<>>
  /\ LET x == Head(replay[r].todo)
         y == [x EXCEPT !.retries = @ + 1]
     IN \/ \E q \in Pushes(y) : Stored(y, q)
        \/ /\ dlqKind = "redis" /\ exposed' = exposed \cup {x.event}
           /\ UNCHANGED <<entries, evicted>>
  /\ replay' = [replay EXCEPT ![r] = [on |-> TRUE, todo |-> Tail(replay[r].todo)]]
  /\ UNCHANGED <<dlqKind, replays, pushed, done>>

\* The Redis queue deletes the whole stream, which may fail unnoticed.
ReplayEnd(r) ==
  /\ replay[r].on /\ replay[r].todo = <<>>
  /\ replay' = [replay EXCEPT ![r] = Resting]
  /\ entries' \in IF dlqKind = "redis" THEN {<<>>, entries} ELSE {entries}
  /\ UNCHANGED <<dlqKind, replays, pushed, done, evicted, exposed>>

DlqNext ==
  \/ \E e \in DeadEvents : Push(e)
  \/ \E r \in Replayers :
       ReplayBegin(r) \/ ReplayOK(r) \/ ReplayFails(r) \/ ReplayEnd(r)

DlqSpec == DlqInit /\ [][DlqNext]_dlqVars

-----------------------------------------------------------------------------
Held(e) == UNION {{<<r, i>> : i \in {j \in DOMAIN replay[r].todo :
                                       replay[r].todo[j].event = e}} : r \in Replayers}

Queued(e) == {i \in DOMAIN entries : entries[i].event = e}

\* A dead letter stays queued or in a replay's hands until a handler took it or
\* a full queue dropped it; only the Redis queue also loses what was pushed, or
\* put back, while a replay ran, to the deletion at that replay's end.  The queue
\* in memory has one copy at a time, even when replays overlap, and hands it to
\* one successful replay only.
DeadLettersKept ==
  /\ \A e \in pushed \ evicted :
       \/ Queued(e) # {} \/ Held(e) # {} \/ done[e] > 0
       \/ dlqKind = "redis" /\ e \in exposed
  /\ dlqKind = "memory" => \A e \in DeadEvents :
       Cardinality(Queued(e)) + Cardinality(Held(e)) + done[e] <= 1
=============================================================================
