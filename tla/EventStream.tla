----------------------------- MODULE EventStream -----------------------------
(***************************************************************************)
(* RedisStreamBus: events appended to a Redis stream and read by the       *)
(* consumers of one group.  Consume reads new entries only and gives up    *)
(* after a run of failed reads; ConsumeFromID begins with one batch of its *)
(* own unacknowledged entries.  An entry whose handler fails stays pending.*)
(* One topic: with more than one, the read names too few ids and is        *)
(* refused by Redis every time.                                            *)
(***************************************************************************)
EXTENDS Integers, FiniteSets

CONSTANTS
  Consumers,      \* consumer names of the group, one goroutine each
  MaxEntries,     \* entries ever published
  StreamMax,      \* the stream's approximate MAXLEN
  Batch,          \* COUNT of a read
  MaxReadRetries, \* maxRetries
  MaxFaults, MaxStarts

ASSUME StreamAssumption == Batch \in Nat \ {0} /\ MaxEntries \in Nat

VARIABLES
  stream,         \* ids of the entries in the stream
  lastId,         \* the id of the newest entry
  unreadable,     \* ids whose data does not decode
  group,          \* the last id delivered to the group; -1: no such group
  pending,        \* pending[c]: ids delivered to c and not acknowledged
  cons,           \* cons[c]: the state of c's loop
  faults, starts,
  acked,          \* history: ids acknowledged
  handled         \* history: ids some handler has taken

streamVars == <<stream, lastId, unreadable, group, pending, cons, faults, starts,
                acked, handled>>

Off == [pc |-> "off"]

StreamInit ==
  /\ stream = {} /\ lastId = 0 /\ unreadable = {} /\ group = -1
  /\ pending = [c \in Consumers |-> {}]
  /\ cons = [c \in Consumers |-> Off]
  /\ faults = 0 /\ starts = 0 /\ acked = {} /\ handled = {}

\* Publish: XADD; entries beyond MAXLEN may be trimmed, the oldest first.
\* Another writer of the stream may leave out the data field.
PublishEntry(decodes) ==
  /\ lastId < MaxEntries
  /\ lastId' = lastId + 1
  /\ \E k \in 0..lastId :
       LET kept == {i \in stream : i > k} \cup {lastId + 1}
       IN stream' = kept /\ (kept = stream \cup {lastId + 1} \/ Cardinality(kept) >= StreamMax)
  /\ unreadable' = IF decodes THEN unreadable ELSE unreadable \cup {lastId + 1}
  /\ UNCHANGED <<group, pending, cons, faults, starts, acked, handled>>

\* The group begins at id 0: what was published before is delivered too.  A
\* group that exists is left alone.
EnsureGroup ==
  /\ group = -1 /\ group' = 0
  /\ UNCHANGED <<stream, lastId, unreadable, pending, cons, faults, starts, acked,
                 handled>>

\* Consume, or ConsumeFromID with start id 0.
StartConsume(c, history) ==
  /\ cons[c].pc = "off" /\ starts < MaxStarts
  /\ cons' = [cons EXCEPT ![c] = [pc |-> "read", fromId |-> history, own |-> history,
                                  retries |-> 0, batch |-> {}]]
  /\ starts' = starts + 1
  /\ UNCHANGED <<stream, lastId, unreadable, group, pending, faults, acked, handled>>

\* The oldest entries, at most Batch; a batch is gone through in the order of ids.
FirstOf(ids) == {i \in ids : Cardinality({j \in ids : j <= i}) <= Batch}

IsOldest(i, ids) == i \in ids /\ \A j \in ids : i <= j

IsNewest(i, ids) == i \in ids /\ \A j \in ids : j <= i

\* What XREADGROUP returns for ">".
NewBatch == FirstOf({i \in stream : i > group})

\* A read that finds nothing waits two seconds and is repeated.
ReadNew(c) ==
  /\ cons[c].pc = "read" /\ ~cons[c].own /\ group # -1
  /\ \E last \in NewBatch : IsNewest(last, NewBatch) /\ group' = last
  /\ cons' = [cons EXCEPT ![c] = [@ EXCEPT !.pc = "handle", !.retries = 0, !.batch = NewBatch]]
  /\ pending' = [pending EXCEPT ![c] = @ \cup NewBatch]
  /\ UNCHANGED <<stream, lastId, unreadable, faults, starts, acked, handled>>

\* The first read of ConsumeFromID: one batch of c's own pending entries, then ">".
\* An entry that was trimmed comes without data and is skipped.
ReadOwn(c) ==
  /\ cons[c].pc = "read" /\ cons[c].own /\ group # -1
  /\ cons' = [cons EXCEPT ![c] = [@ EXCEPT !.pc = "handle", !.own = FALSE,
                                           !.batch = FirstOf(pending[c]) \cap stream]]
  /\ UNCHANGED <<stream, lastId, unreadable, group, pending, faults, starts, acked,
                 handled>>

\* Redis is away, or there is no group.  Consume tries maxRetries times more;
\* ConsumeFromID returns.
ReadFails(c) ==
  /\ cons[c].pc = "read" /\ faults < MaxFaults
  /\ cons' = [cons EXCEPT ![c] =
       IF cons[c].fromId THEN Off
       ELSE IF cons[c].retries + 1 > MaxReadRetries THEN [pc |-> "gaveUp"]
       ELSE [cons[c] EXCEPT !.retries = @ + 1]]
  /\ faults' = faults + 1
  /\ UNCHANGED <<stream, lastId, unreadable, group, pending, starts, acked, handled>>

\* decodeEvent: there is a data field and it parses.
Decodes(i) == i \notin unreadable

\* Mutated Handle: an entry is acknowledged before the handler's answer is known.
HandleAcksFirst(c, ok) ==
  /\ cons[c].pc = "handle"
  /\ \E e \in cons[c].batch :
       /\ IsOldest(e, cons[c].batch)
       /\ handled' = IF ok THEN handled \cup {e} ELSE handled
  /\ cons' = [cons EXCEPT ![c] = [@ EXCEPT !.pc = "ack"]]
  /\ UNCHANGED <<stream, lastId, unreadable, group, pending, faults, starts, acked>>

\* Mutated Handle: an entry is not left before it is taken.
HandleInsists(c, ok) ==
  /\ cons[c].pc = "handle"
  /\ \E e \in cons[c].batch :
       LET taken == ok /\ Decodes(e)
       IN /\ IsOldest(e, cons[c].batch)
          /\ handled' = IF taken THEN handled \cup {e} ELSE handled
          /\ cons' = [cons EXCEPT ![c] = [@ EXCEPT !.pc = IF taken THEN "ack" ELSE "handle"]]
  /\ UNCHANGED <<stream, lastId, unreadable, group, pending, faults, starts, acked>>

\* The handler takes an entry that decodes, or the entry is left pending.
Handle(c, ok) ==
  /\ cons[c].pc = "handle"
  /\ \E e \in cons[c].batch :
       /\ IsOldest(e, cons[c].batch)
       /\ IF ok /\ Decodes(e)
          THEN /\ handled' = handled \cup {e}
               /\ cons' = [cons EXCEPT ![c] = [@ EXCEPT !.pc = "ack"]]
          ELSE /\ handled' = handled
               /\ cons' = [cons EXCEPT ![c] = [@ EXCEPT !.batch = cons[c].batch \ {e}]]
  /\ UNCHANGED <<stream, lastId, unreadable, group, pending, faults, starts, acked>>

\* XACK; its error is not looked at.
Ack(c, arrives) ==
  /\ cons[c].pc = "ack"
  /\ \E e \in cons[c].batch :
       /\ IsOldest(e, cons[c].batch)
       /\ acked' = IF arrives THEN acked \cup {e} ELSE acked
       /\ pending' = IF arrives THEN [pending EXCEPT ![c] = @ \ {e}] ELSE pending
       /\ cons' = [cons EXCEPT ![c] = [@ EXCEPT !.pc = "handle", !.batch = cons[c].batch \ {e}]]
  /\ UNCHANGED <<stream, lastId, unreadable, group, faults, starts, handled>>

NextRound(c) ==
  /\ cons[c].pc = "handle" /\ cons[c].batch = {}
  /\ cons' = [cons EXCEPT ![c] = [@ EXCEPT !.pc = "read"]]
  /\ UNCHANGED <<stream, lastId, unreadable, group, pending, faults, starts, acked,
                 handled>>

\* The context is cancelled between reads, or the process dies anywhere.
StopConsume(c) ==
  /\ cons[c].pc \notin {"off", "gaveUp"} /\ starts < MaxStarts
  /\ cons' = [cons EXCEPT ![c] = Off]
  /\ UNCHANGED <<stream, lastId, unreadable, group, pending, faults, starts, acked,
                 handled>>

StreamStep(c) ==
  \/ ReadNew(c) \/ ReadOwn(c) \/ NextRound(c)
  \/ \E ok \in BOOLEAN : Handle(c, ok) \/ Ack(c, ok)

StreamNext ==
  \/ \E decodes \in BOOLEAN : PublishEntry(decodes)
  \/ EnsureGroup
  \/ \E c \in Consumers : \/ \E history \in BOOLEAN : StartConsume(c, history)
                          \/ ReadFails(c) \/ StopConsume(c) \/ StreamStep(c)

StreamSpec == StreamInit /\ [][StreamNext]_streamVars

-----------------------------------------------------------------------------
\* Every id delivered to the group is acknowledged or pending with one consumer,
\* whatever dies in between; what is acknowledged was taken by a handler, and no
\* consumer is about to handle it again.
DeliveredIsAccounted ==
  /\ acked \subseteq handled
  /\ \A i \in acked : \A c \in Consumers : i \notin pending[c]
  /\ \A c, d \in Consumers : c # d => pending[c] \cap pending[d] = {}
  /\ \A i \in stream : i <= group => i \in acked \cup UNION {pending[c] : c \in Consumers}
  /\ \A c \in Consumers : cons[c].pc \in {"handle", "ack"} =>
       cons[c].batch \cap acked = {} /\ cons[c].batch \subseteq pending[c]

\* While a consumer goes on reading and Redis answers, every entry is delivered.
StreamDrains ==
  []<>(\/ group = -1 \/ \A i \in stream : i <= group
       \/ \A c \in Consumers : cons[c].pc \in {"off", "gaveUp"})
=============================================================================
