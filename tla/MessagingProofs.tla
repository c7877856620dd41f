-------------------------- MODULE MessagingProofs ---------------------------
(***************************************************************************)
(* The WebSocket hub, the event bus, its dead letters, the Redis stream    *)
(* and the notification service, for any clients, rooms, topics, callers,  *)
(* consumers and senders.                                                  *)
(***************************************************************************)
EXTENDS WSHub, EventBus, EventStream, DeadLetters, Notification,
        FiniteSetTheorems, TLAPS

(* The hub. *)

Pump == {"off", "run", "exit", "done"}

HubTypeOK ==
  /\ clients \subseteq AllClients
  /\ rooms \in [Rooms -> SUBSET AllClients]
  /\ joined \in [AllClients -> SUBSET Rooms]
  /\ conn \in [AllClients -> {"none", "open", "broken", "closed"}]
  /\ rpump \in [AllClients -> Pump]

\* A connection that was not made yet has left no trace, so that a client enters
\* the table with the rooms it really is in.
HubIInv ==
  /\ HubTypeOK
  /\ \A c \in AllClients : conn[c] = "none" => rpump[c] = "off" /\ joined[c] = {} /\ c \notin clients
  /\ GoneIsForgotten

\* The tables are empty at the start.
LEMMA HubInitIInv == HubInit => HubIInv
BY DEF HubInit, HubIInv, HubTypeOK, GoneIsForgotten, AllClients, Pump

\* Only Upgrade, SSEConnect, SSELeave, the joins, LeaveRoom and the end of a pump
\* touch the tables; each keeps them in step with Client.Rooms.
LEMMA HubNextIInv == HubIInv /\ [HubNext]_hubVars => HubIInv'
<1>. SUFFICES ASSUME HubIInv, [HubNext]_hubVars PROVE HubIInv'
  OBVIOUS
<1>. DEFINE tables == <<clients, rooms, joined, conn, rpump>>
<1>a. WSClients \subseteq AllClients /\ SSEClients \subseteq AllClients
  BY DEF AllClients
<1>b. ASSUME UNCHANGED tables PROVE HubIInv'
  BY <1>b DEF HubIInv, HubTypeOK, GoneIsForgotten
<1>c. ASSUME NEW new, WriteRooms(new) PROVE rooms' = new
  BY <1>c DEF WriteRooms
<1>. USE <1>a DEF HubIInv, HubTypeOK, GoneIsForgotten, Pump
<1>1. ASSUME NEW c \in AllClients, Upgrade(c) PROVE HubIInv'
  BY <1>1 DEF Upgrade
<1>2. ASSUME NEW c \in AllClients, SSEConnect(c) PROVE HubIInv'
  BY <1>2 DEF SSEConnect
<1>3. ASSUME NEW c \in AllClients, SSELeave(c) PROVE HubIInv'
  BY <1>3 DEF SSELeave
<1>4. ASSUME NEW c \in AllClients, NEW r \in Rooms, JoinRoom(c, r) PROVE HubIInv'
  <2>1. rooms' = [rooms EXCEPT ![r] = @ \cup {c}]
    BY <1>4, <1>c DEF JoinRoom
  <2>. QED
    BY <1>4, <2>1 DEF JoinRoom, Reads
<1>5. ASSUME NEW c \in AllClients, NEW r \in Rooms, JoinRoomLate(c, r) PROVE HubIInv'
  <2>1. rooms' = [rooms EXCEPT ![r] = @ \cup {c}]
    BY <1>5, <1>c DEF JoinRoomLate
  <2>. QED
    BY <1>5, <2>1 DEF JoinRoomLate
<1>6. ASSUME NEW c \in AllClients, NEW r \in Rooms, LeaveRoom(c, r) PROVE HubIInv'
  <2>1. rooms' = [rooms EXCEPT ![r] = @ \ {c}]
    BY <1>6, <1>c DEF LeaveRoom
  <2>. QED
    BY <1>6, <2>1 DEF LeaveRoom, Reads
<1>7. ASSUME NEW c \in AllClients, Break(c) PROVE HubIInv'
  BY <1>7 DEF Break
<1>8. ASSUME NEW c \in AllClients, ConnReadFails(c) PROVE HubIInv'
  BY <1>8 DEF ConnReadFails
<1>9. ASSUME NEW c \in AllClients, ReadPumpEnds(c) PROVE HubIInv'
  <2>1. rooms' = [r \in Rooms |-> rooms[r] \ (IF r \in joined[c] THEN {c} ELSE {})]
    BY <1>9, <1>c DEF ReadPumpEnds, Unregister
  <2>. QED
    BY <1>9, <2>1 DEF ReadPumpEnds, Unregister
<1>10. ASSUME NEW c \in AllClients, WritePumpEnds(c) PROVE HubIInv'
  <2>1. rooms' = [r \in Rooms |-> rooms[r] \ (IF r \in joined[c] THEN {c} ELSE {})]
    BY <1>10, <1>c DEF WritePumpEnds, Unregister
  <2>. QED
    BY <1>10, <2>1 DEF WritePumpEnds, Unregister
<1>11. ASSUME NEW c \in AllClients, WriteMessage(c) \/ PingFails(c) \/ SSEWrite(c) PROVE HubIInv'
  BY <1>11, <1>b DEF WriteMessage, PingFails, SSEWrite
<1>12. CASE HandleMessageType \/ BroadcastAll \/ \E u \in Users : SendToUser(u)
  BY <1>12, <1>b DEF HandleMessageType, BroadcastAll, SendToUser
<1>13. ASSUME NEW s \in Senders,
              \/ \E r \in Rooms : BroadcastToRoom(s, r)
              \/ \E c \in AllClients : SendToClient(s, c) \/ SendOne(s, c)
              \/ CastEnds(s)
       PROVE  HubIInv'
  BY <1>13, <1>b DEF BroadcastToRoom, SendToClient, SendOne, CastEnds
<1>14. CASE UNCHANGED hubVars
  BY <1>14, <1>b DEF hubVars
<1>. QED
  BY <1>1, <1>2, <1>3, <1>4, <1>5, <1>6, <1>7, <1>8, <1>9, <1>10, <1>11, <1>12, <1>13, <1>14
  DEF HubNext, HubPump

\* For any connections and rooms: a client whose read pump is through is in
\* neither table, and a registered one is in its rooms and in no other.
THEOREM GoneIsForgottenTheorem == HubSpec => []GoneIsForgotten
<1>1. HubInit => HubIInv
  BY HubInitIInv
<1>2. HubIInv /\ [HubNext]_hubVars => HubIInv'
  BY HubNextIInv
<1>3. HubIInv => GoneIsForgotten
  BY DEF HubIInv
<1>. QED
  BY <1>1, <1>2, <1>3, PTL DEF HubSpec

-----------------------------------------------------------------------------
(* The event bus. *)

\* Who holds the read lock is running handlers; who asked for the write lock is
\* in the queue of writers.
BusIInv ==
  /\ writers \in Seq(Callers)
  /\ DOMAIN call = Callers
  /\ \A c \in Callers :
       /\ call[c].op \in {"rest", "publish", "run", "failed", "reenter", "subscribe", "unsubscribe"}
       /\ call[c].op \in {"subscribe", "unsubscribe"} => \E i \in DOMAIN writers : writers[i] = c
       /\ call[c].op = "reenter" => call[c].back.op = "run"
  /\ \A c \in readers : c \in Callers /\ call[c].op \in {"run", "failed", "reenter"}

\* Everybody rests at the start.
LEMMA BusInitIInv == BusInit => BusIInv
BY DEF BusInit, BusIInv, AtRest

\* A queue that grows keeps whom it has and gets whom it is given; one whose head
\* goes keeps everybody else.
LEMMA QueueMembers ==
  ASSUME NEW S, NEW q \in Seq(S), NEW c \in S
  PROVE  /\ Append(q, c) \in Seq(S)
         /\ \E i \in DOMAIN Append(q, c) : Append(q, c)[i] = c
         /\ \A i \in DOMAIN q : i \in DOMAIN Append(q, c) /\ Append(q, c)[i] = q[i]
         /\ q # <<>> => /\ Tail(q) \in Seq(S)
                        /\ Head(q) \in S
                        /\ \A i \in DOMAIN q : q[i] # Head(q) =>
                             i - 1 \in DOMAIN Tail(q) /\ Tail(q)[i - 1] = q[i]
<1>1. /\ Append(q, c) \in Seq(S)
      /\ \A i \in DOMAIN q : i \in DOMAIN Append(q, c) /\ Append(q, c)[i] = q[i]
      /\ Len(q) + 1 \in DOMAIN Append(q, c) /\ Append(q, c)[Len(q) + 1] = c
  OBVIOUS
<1>2. ASSUME q # <<>>
      PROVE  /\ Tail(q) \in Seq(S)
             /\ Head(q) \in S
             /\ \A i \in DOMAIN q : q[i] # Head(q) =>
                  i - 1 \in DOMAIN Tail(q) /\ Tail(q)[i - 1] = q[i]
  BY <1>2
<1>. QED
  BY <1>1, <1>2

\* Every step of a caller keeps the locks and what the callers do in step.
LEMMA BusNextIInv == BusIInv /\ [BusNext]_busVars => BusIInv'
<1>. SUFFICES ASSUME BusIInv, [BusNext]_busVars PROVE BusIInv'
  OBVIOUS
<1>. USE DEF BusIInv, AtRest
<1>w. ASSUME NEW c \in Callers, MayWrite(c), writers' = Tail(writers), readers' = readers,
             call' = [call EXCEPT ![c] = AtRest]
      PROVE  BusIInv'
  <2>1. writers # <<>> /\ Head(writers) = c /\ readers = {}
    BY <1>w DEF MayWrite
  <2>2. /\ Tail(writers) \in Seq(Callers)
        /\ \A i \in DOMAIN writers : writers[i] # c =>
             i - 1 \in DOMAIN Tail(writers) /\ Tail(writers)[i - 1] = writers[i]
    BY <2>1, QueueMembers
  <2>3. ASSUME NEW d \in Callers, call'[d].op \in {"subscribe", "unsubscribe"}
        PROVE  \E i \in DOMAIN writers' : writers'[i] = d
    <3>1. d # c /\ call'[d] = call[d]
      BY <1>w, <2>3
    <3>2. PICK i \in DOMAIN writers : writers[i] = d
      BY <2>3, <3>1
    <3>. QED
      BY <1>w, <2>2, <3>1, <3>2, ZenonT(60)
  <2>. QED
    BY <1>w, <2>1, <2>2, <2>3
<1>1. ASSUME NEW c \in Callers, NEW t \in Topics, Publish(c, t) PROVE BusIInv'
  BY <1>1 DEF Publish
<1>2. ASSUME NEW c \in Callers, RLock(c) PROVE BusIInv'
  BY <1>2 DEF RLock
<1>3. ASSUME NEW c \in Callers, NEW e \in Effects, RunHandler(c, e) PROVE BusIInv'
  <2>1. CASE e \in {"ok", "fail", "publish"}
    BY <1>3, <2>1 DEF RunHandler
  <2>2. CASE e = "subscribe"
    BY <1>3, <2>2, QueueMembers DEF RunHandler
  <2>. QED
    BY <2>1, <2>2, EffectsAssumption
<1>4. ASSUME NEW c \in Callers, Reenter(c) PROVE BusIInv'
  BY <1>4 DEF Reenter
<1>5. ASSUME NEW c \in Callers, RUnlock(c) PROVE BusIInv'
  BY <1>5 DEF RUnlock
<1>6. ASSUME NEW c \in Callers, NEW p \in Patterns, Subscribe(c, p) PROVE BusIInv'
  BY <1>6, QueueMembers DEF Subscribe
<1>7. ASSUME NEW c \in Callers, DoSubscribe(c) PROVE BusIInv'
  BY <1>7, <1>w DEF DoSubscribe
<1>8. ASSUME NEW c \in Callers, NEW id \in 1..MaxCalls, Unsubscribe(c, id) PROVE BusIInv'
  BY <1>8, QueueMembers DEF Unsubscribe
<1>9. ASSUME NEW c \in Callers, DoUnsubscribe(c) PROVE BusIInv'
  BY <1>9, <1>w DEF DoUnsubscribe
<1>10. CASE UNCHANGED busVars
  BY <1>10 DEF busVars
<1>. QED
  BY <1>1, <1>2, <1>3, <1>4, <1>5, <1>6, <1>7, <1>8, <1>9, <1>10 DEF BusNext

\* For any callers, topics and handlers: unless a handler came back to the bus it
\* runs under, somebody in Publish, Subscribe or Unsubscribe can go on.
THEOREM OnlyReentryStopsTheorem == BusSpec => []OnlyReentryStops
<1>1. BusIInv => OnlyReentryStops
  <2>. SUFFICES ASSUME BusIInv, \A c \in Callers : call[c].op \notin {"reenter", "run", "failed"},
                       NEW b \in Callers, call[b].op # "rest"
                PROVE  \E c \in Callers : \/ call[c].op = "publish" /\ MayRead
                                          \/ MayWrite(c)
    BY DEF OnlyReentryStops
  <2>1. readers = {}
    BY DEF BusIInv
  <2>2. CASE writers = <<>>
    BY <2>2 DEF BusIInv, MayRead
  <2>3. CASE writers # <<>>
    <3>1. Head(writers) \in Callers
      BY <2>3, QueueMembers DEF BusIInv
    <3>. QED
      BY <2>1, <2>3, <3>1 DEF MayWrite
  <2>. QED
    BY <2>2, <2>3
<1>. QED
  BY <1>1, BusInitIInv, BusNextIInv, PTL DEF BusSpec

-----------------------------------------------------------------------------
(* The Redis stream. *)

\* The record of a consumer's loop; Off and a loop that gave up have no batch.
Loop == [pc : {"read", "handle", "ack"}, fromId : BOOLEAN, own : BOOLEAN, retries : Nat,
         batch : SUBSET Nat]

LoopStates == Loop \cup {[pc |-> "off"], [pc |-> "gaveUp"]}

StreamTypeOK ==
  /\ lastId \in Nat /\ stream \subseteq 1..lastId
  /\ group \in {-1} \cup Nat /\ group <= lastId
  /\ pending \in [Consumers -> SUBSET Nat]
  /\ acked \subseteq Nat
  /\ cons \in [Consumers -> LoopStates]

\* What is acknowledged or pending was delivered before: a new batch is new to
\* all.
DeliveredBefore ==
  /\ \A i \in acked : i <= group
  /\ \A c \in Consumers : \A i \in pending[c] : i <= group

\* The entry a consumer is about to acknowledge was taken by its handler.
TakenBeforeAck ==
  \A c \in Consumers : cons[c].pc = "ack" =>
    \A e \in cons[c].batch : (\A j \in cons[c].batch : e <= j) => e \in handled

StreamIInv == StreamTypeOK /\ DeliveredIsAccounted /\ DeliveredBefore /\ TakenBeforeAck

\* Nothing is delivered at the start.
LEMMA StreamInitIInv == StreamInit => StreamIInv
BY DEF StreamInit, StreamIInv, LoopStates, StreamTypeOK, DeliveredIsAccounted, DeliveredBefore, TakenBeforeAck, Off

\* A batch is an initial part of what it is taken from: an entry older than one of
\* the batch is in the batch.
LEMMA FirstOfIsInitial ==
  ASSUME NEW n \in Nat, NEW ids \in SUBSET (1..n), NEW i \in FirstOf(ids),
         NEW j \in ids, j <= i
  PROVE  j \in FirstOf(ids)
<1>. DEFINE upTo(k) == {m \in ids : m <= k}
<1>1. IsFiniteSet(1..n)
  BY FS_Interval
<1>2. IsFiniteSet(upTo(i)) /\ upTo(j) \subseteq upTo(i)
  <2>1. i \in ids
    BY DEF FirstOf
  <2>2. upTo(i) \subseteq 1..n
    OBVIOUS
  <2>3. upTo(j) \subseteq upTo(i)
    <3>1. \A m \in ids : m \in Int
      OBVIOUS
    <3>2. ASSUME NEW m \in ids, m <= j PROVE m <= i
      BY <2>1, <3>1, <3>2
    <3>. QED
      BY <3>2
  <2>. HIDE DEF upTo
  <2>. QED
    BY <1>1, <2>2, <2>3, FS_Subset
<1>3. /\ Cardinality(upTo(j)) <= Cardinality(upTo(i))
      /\ Cardinality(upTo(j)) \in Nat /\ Cardinality(upTo(i)) \in Nat
  <2>. HIDE DEF upTo
  <2>. QED
    BY <1>2, FS_Subset, FS_CardinalityType
<1>4. Cardinality(upTo(i)) <= Batch
  BY DEF FirstOf
<1>5. Cardinality(upTo(j)) <= Batch
  <2>. HIDE DEF upTo
  <2>. QED
    BY <1>3, <1>4, StreamAssumption
<1>. QED
  BY <1>5 DEF FirstOf

\* A step moves an id from the stream to one consumer's pending set, and from there
\* to the acknowledged ones.
LEMMA StreamNextIInv == StreamIInv /\ [StreamNext]_streamVars => StreamIInv'
<1>. SUFFICES ASSUME StreamIInv, [StreamNext]_streamVars PROVE StreamIInv'
  OBVIOUS
<1>a. ASSUME NEW c \in Consumers, cons[c].pc \in {"read", "handle", "ack"} PROVE cons[c] \in Loop
  BY <1>a DEF StreamIInv, StreamTypeOK, LoopStates
<1>l. Loop \subseteq LoopStates
  BY DEF LoopStates
<1>b. ASSUME NEW c \in Consumers, NEW r \in LoopStates, cons' = [cons EXCEPT ![c] = r]
      PROVE  /\ cons' \in [Consumers -> LoopStates]
             /\ cons'[c] = r /\ \A d \in Consumers : d # c => cons'[d] = cons[d]
  BY <1>b DEF StreamIInv, StreamTypeOK
<1>1. ASSUME NEW decodes \in BOOLEAN, PublishEntry(decodes) PROVE StreamIInv'
  <2>1. stream' \subseteq stream \cup {lastId + 1} /\ lastId' = lastId + 1
    BY <1>1 DEF PublishEntry
  <2>2. group' = group /\ pending' = pending /\ acked' = acked /\ cons' = cons
    BY <1>1 DEF PublishEntry
  <2>3. lastId' \in Nat /\ stream' \subseteq 1..lastId' /\ group' <= lastId'
    BY <2>1, <2>2 DEF StreamIInv, StreamTypeOK
  <2>t. StreamTypeOK'
    BY <2>2, <2>3 DEF StreamIInv, StreamTypeOK
  <2>a. DeliveredIsAccounted'
    BY <1>1 DEF PublishEntry, StreamIInv, StreamTypeOK, DeliveredIsAccounted, DeliveredBefore
  <2>d. DeliveredBefore'
    BY <1>1 DEF PublishEntry, StreamIInv, StreamTypeOK, DeliveredBefore
  <2>k. TakenBeforeAck'
    BY <1>1 DEF PublishEntry, StreamIInv, StreamTypeOK, TakenBeforeAck
  <2>. QED
    BY <2>t, <2>a, <2>d, <2>k DEF StreamIInv
<1>2. CASE EnsureGroup
  <2>t. StreamTypeOK'
    BY <1>2 DEF EnsureGroup, StreamIInv, StreamTypeOK
  <2>a. DeliveredIsAccounted'
    BY <1>2 DEF EnsureGroup, StreamIInv, StreamTypeOK, DeliveredIsAccounted, DeliveredBefore
  <2>d. DeliveredBefore'
    BY <1>2 DEF EnsureGroup, StreamIInv, StreamTypeOK, DeliveredBefore
  <2>k. TakenBeforeAck'
    BY <1>2 DEF EnsureGroup, StreamIInv, StreamTypeOK, TakenBeforeAck
  <2>. QED
    BY <2>t, <2>a, <2>d, <2>k DEF StreamIInv
<1>c. ASSUME NEW c \in Consumers, NEW r \in LoopStates,
             cons' = [cons EXCEPT ![c] = r],
             r.pc = "handle" => r.batch \subseteq pending[c] /\ r.batch \cap acked = {},
             r.pc # "ack",
             stream' = stream, lastId' = lastId, group' = group, pending' = pending,
             acked' = acked, handled' = handled
      PROVE  StreamIInv'
  <2>t. StreamTypeOK'
    BY <1>b, <1>c DEF StreamIInv, StreamTypeOK
  <2>a. DeliveredIsAccounted'
    BY <1>b, <1>c DEF StreamIInv, StreamTypeOK, DeliveredIsAccounted, DeliveredBefore
  <2>d. DeliveredBefore'
    BY <1>b, <1>c DEF StreamIInv, StreamTypeOK, DeliveredBefore
  <2>k. TakenBeforeAck'
    BY <1>b, <1>c DEF StreamIInv, StreamTypeOK, TakenBeforeAck
  <2>. QED
    BY <2>t, <2>a, <2>d, <2>k DEF StreamIInv
<1>3. ASSUME NEW c \in Consumers, NEW history \in BOOLEAN, StartConsume(c, history) PROVE StreamIInv'
  <2>. DEFINE r == [pc |-> "read", fromId |-> history, own |-> history, retries |-> 0, batch |-> {}]
  <2>1. r \in Loop /\ r.pc = "read"
    BY DEF Loop
  <2>2. cons' = [cons EXCEPT ![c] = r] /\ UNCHANGED <<stream, lastId, group, pending, acked, handled>>
    BY <1>3 DEF StartConsume
  <2>. HIDE DEF r
  <2>. QED
    BY <1>c, <1>l, <2>1, <2>2
<1>4. ASSUME NEW c \in Consumers, ReadFails(c) PROVE StreamIInv'
  <2>. DEFINE r == IF cons[c].fromId THEN [pc |-> "off"]
                   ELSE IF cons[c].retries + 1 > MaxReadRetries THEN [pc |-> "gaveUp"]
                   ELSE [cons[c] EXCEPT !.retries = cons[c].retries + 1]
  <2>1. cons[c] \in Loop /\ cons[c].pc = "read"
    BY <1>4, <1>a DEF ReadFails
  <2>2. /\ [cons[c] EXCEPT !.retries = cons[c].retries + 1] \in Loop
        /\ [cons[c] EXCEPT !.retries = cons[c].retries + 1].pc = "read"
    BY <2>1 DEF Loop
  <2>3. cons' = [cons EXCEPT ![c] = r] /\ UNCHANGED <<stream, lastId, group, pending, acked, handled>>
    BY <1>4 DEF ReadFails, Off
  <2>4. r \in LoopStates /\ r.pc \in {"read", "off", "gaveUp"}
    BY <2>2 DEF LoopStates
  <2>. HIDE DEF r
  <2>. QED
    BY <1>c, <2>3, <2>4
<1>5. ASSUME NEW c \in Consumers, StopConsume(c) PROVE StreamIInv'
  <2>. DEFINE r == [pc |-> "off"]
  <2>1. r \in LoopStates /\ r.pc = "off"
    BY DEF LoopStates
  <2>2. cons' = [cons EXCEPT ![c] = r] /\ UNCHANGED <<stream, lastId, group, pending, acked, handled>>
    BY <1>5 DEF StopConsume, Off
  <2>. HIDE DEF r
  <2>. QED
    BY <1>c, <2>1, <2>2
<1>6. ASSUME NEW c \in Consumers, ReadNew(c) PROVE StreamIInv'
  <2>. DEFINE r == [cons[c] EXCEPT !.pc = "handle", !.retries = 0, !.batch = NewBatch]
  <2>1. NewBatch \subseteq {i \in stream : i > group}
    BY DEF NewBatch, FirstOf
  <2>2. r \in Loop /\ r.pc = "handle" /\ r.batch = NewBatch
    <3>1. cons[c] \in Loop /\ NewBatch \in SUBSET Nat
      BY <1>6, <1>a, <2>1 DEF ReadNew, StreamIInv, StreamTypeOK
    <3>2. r \in Loop
      BY <3>1 DEF Loop
    <3>. QED
      BY <3>1, <3>2 DEF Loop
  <2>3. cons' = [cons EXCEPT ![c] = r]
    BY <1>6 DEF ReadNew
  <2>4. PICK last \in NewBatch : IsNewest(last, NewBatch) /\ group' = last
    BY <1>6 DEF ReadNew
  <2>5. ASSUME NEW i \in stream, group < i, i <= group' PROVE i \in NewBatch
    <3>. DEFINE fresh == {k \in stream : k > group}
    <3>1. lastId \in Nat /\ fresh \in SUBSET (1..lastId) /\ i \in fresh /\ NewBatch = FirstOf(fresh)
      BY <2>5 DEF StreamIInv, StreamTypeOK, NewBatch
    <3>2. group' \in FirstOf(fresh) /\ i <= group'
      BY <2>4, <2>5, <3>1
    <3>. QED
      BY <3>1, <3>2, FirstOfIsInitial
  <2>6. UNCHANGED <<stream, lastId, acked, handled>> /\ pending' = [pending EXCEPT ![c] = @ \cup NewBatch]
    BY <1>6 DEF ReadNew
  <2>. HIDE DEF r
  <2>7. \A i \in NewBatch : i > group /\ i <= group' /\ i \in stream
    BY <2>1, <2>4 DEF IsNewest
  <2>8. group < group' /\ group' \in stream
    BY <2>7, <2>4
  <2>9. /\ cons' \in [Consumers -> LoopStates] /\ cons'[c].batch = NewBatch
        /\ \A d \in Consumers : d # c => cons'[d] = cons[d]
        /\ cons'[c].pc = "handle"
    BY <1>b, <1>l, <2>2, <2>3
  <2>10. /\ pending'[c] = pending[c] \cup NewBatch
         /\ \A d \in Consumers : d # c => pending'[d] = pending[d]
         /\ pending' \in [Consumers -> SUBSET Nat]
    <3>1. stream \subseteq Nat
      BY DEF StreamIInv, StreamTypeOK
    <3>2. pending \in [Consumers -> SUBSET Nat]
      BY DEF StreamIInv, StreamTypeOK
    <3>3. pending[c] \cup NewBatch \in SUBSET Nat
      BY <2>7, <3>1, <3>2
    <3>. QED
      BY <2>6, <3>2, <3>3
  <2>t. StreamTypeOK'
    BY <2>5, <2>6, <2>7, <2>8, <2>9, <2>10 DEF StreamIInv, StreamTypeOK
  <2>a. DeliveredIsAccounted'
    BY <2>5, <2>6, <2>7, <2>8, <2>9, <2>10 DEF StreamIInv, StreamTypeOK, DeliveredIsAccounted, DeliveredBefore
  <2>d. DeliveredBefore'
    BY <2>5, <2>6, <2>7, <2>8, <2>9, <2>10 DEF StreamIInv, StreamTypeOK, DeliveredBefore
  <2>k. TakenBeforeAck'
    BY <2>5, <2>6, <2>7, <2>8, <2>9, <2>10 DEF StreamIInv, StreamTypeOK, TakenBeforeAck
  <2>. QED
    BY <2>t, <2>a, <2>d, <2>k DEF StreamIInv
<1>7. ASSUME NEW c \in Consumers, ReadOwn(c) PROVE StreamIInv'
  <2>. DEFINE b == FirstOf(pending[c]) \cap stream
              r == [cons[c] EXCEPT !.pc = "handle", !.own = FALSE, !.batch = b]
  <2>1. b \subseteq pending[c]
    BY DEF FirstOf
  <2>2. cons' = [cons EXCEPT ![c] = r] /\ UNCHANGED <<stream, lastId, group, pending, acked, handled>>
    BY <1>7 DEF ReadOwn
  <2>3. cons[c] \in Loop
    BY <1>7, <1>a DEF ReadOwn
  <2>. HIDE DEF b
  <2>4. r \in Loop /\ r.pc = "handle" /\ r.batch = b
    <3>1. b \in SUBSET Nat
      BY <2>1 DEF StreamIInv, StreamTypeOK
    <3>2. r \in Loop
      BY <2>3, <3>1 DEF Loop
    <3>. QED
      BY <2>3, <3>2 DEF Loop
  <2>5. b \cap acked = {}
    BY <2>1 DEF StreamIInv, DeliveredIsAccounted
  <2>. HIDE DEF r
  <2>. QED
    BY <1>c, <1>l, <2>1, <2>2, <2>4, <2>5
<1>8. ASSUME NEW c \in Consumers, NextRound(c) PROVE StreamIInv'
  <2>. DEFINE r == [cons[c] EXCEPT !.pc = "read"]
  <2>1. cons[c] \in Loop
    BY <1>8, <1>a DEF NextRound
  <2>2. r \in Loop /\ r.pc = "read"
    BY <2>1 DEF Loop
  <2>3. cons' = [cons EXCEPT ![c] = r] /\ UNCHANGED <<stream, lastId, group, pending, acked, handled>>
    BY <1>8 DEF NextRound
  <2>. HIDE DEF r
  <2>. QED
    BY <1>c, <1>l, <2>2, <2>3
<1>9. ASSUME NEW c \in Consumers, NEW ok \in BOOLEAN, Handle(c, ok) PROVE StreamIInv'
  <2>1. PICK e \in cons[c].batch :
          /\ IsOldest(e, cons[c].batch)
          /\ IF ok /\ Decodes(e)
             THEN /\ handled' = handled \cup {e}
                  /\ cons' = [cons EXCEPT ![c] = [@ EXCEPT !.pc = "ack"]]
             ELSE /\ handled' = handled
                  /\ cons' = [cons EXCEPT ![c] = [@ EXCEPT !.batch = cons[c].batch \ {e}]]
    BY <1>9 DEF Handle
  <2>2. cons[c] \in Loop /\ cons[c].pc = "handle"
    BY <1>9, <1>a DEF Handle
  <2>3. UNCHANGED <<stream, lastId, group, pending, acked>>
    BY <1>9 DEF Handle
  <2>4. CASE ok /\ Decodes(e)
    <3>. DEFINE r == [cons[c] EXCEPT !.pc = "ack"]
    <3>1. r \in Loop /\ r.pc = "ack" /\ r.batch = cons[c].batch
      BY <2>2 DEF Loop
    <3>2. cons' = [cons EXCEPT ![c] = r] /\ handled' = handled \cup {e}
      BY <2>1, <2>4
    <3>3. \A x \in r.batch : (\A y \in r.batch : x <= y) => x = e
      BY <2>1, <2>2, <3>1 DEF IsOldest, Loop
    <3>. HIDE DEF r
    <3>t. StreamTypeOK'
      BY <1>b, <1>l, <2>2, <2>3, <3>1, <3>2, <3>3 DEF StreamIInv, StreamTypeOK
    <3>a. DeliveredIsAccounted'
      BY <1>b, <1>l, <2>2, <2>3, <3>1, <3>2, <3>3 DEF StreamIInv, StreamTypeOK, DeliveredIsAccounted, DeliveredBefore
    <3>d. DeliveredBefore'
      BY <1>b, <1>l, <2>2, <2>3, <3>1, <3>2, <3>3 DEF StreamIInv, StreamTypeOK, DeliveredBefore
    <3>k. TakenBeforeAck'
      BY <1>b, <1>l, <2>2, <2>3, <3>1, <3>2, <3>3 DEF StreamIInv, StreamTypeOK, TakenBeforeAck
    <3>. QED
      BY <3>t, <3>a, <3>d, <3>k DEF StreamIInv
  <2>5. CASE ~(ok /\ Decodes(e))
    <3>. DEFINE r == [cons[c] EXCEPT !.batch = cons[c].batch \ {e}]
    <3>1. r \in Loop /\ r.pc = "handle" /\ r.batch = cons[c].batch \ {e}
      BY <2>2 DEF Loop
    <3>2. cons' = [cons EXCEPT ![c] = r] /\ handled' = handled
      BY <2>1, <2>5
    <3>. HIDE DEF r
    <3>. QED
      BY <1>c, <1>l, <2>2, <2>3, <3>1, <3>2 DEF StreamIInv, DeliveredIsAccounted
  <2>. QED
    BY <2>4, <2>5
<1>10. ASSUME NEW c \in Consumers, NEW ok \in BOOLEAN, Ack(c, ok) PROVE StreamIInv'
  <2>1. PICK e \in cons[c].batch :
          /\ IsOldest(e, cons[c].batch)
          /\ acked' = IF ok THEN acked \cup {e} ELSE acked
          /\ pending' = IF ok THEN [pending EXCEPT ![c] = @ \ {e}] ELSE pending
          /\ cons' = [cons EXCEPT ![c] = [@ EXCEPT !.pc = "handle", !.batch = cons[c].batch \ {e}]]
    BY <1>10 DEF Ack
  <2>2. cons[c] \in Loop /\ cons[c].pc = "ack"
    BY <1>10, <1>a DEF Ack
  <2>3. UNCHANGED <<stream, lastId, group, handled>>
    BY <1>10 DEF Ack
  <2>. DEFINE r == [cons[c] EXCEPT !.pc = "handle", !.batch = cons[c].batch \ {e}]
  <2>4. r \in Loop
    BY <2>2 DEF Loop
  <2>5. r.pc = "handle" /\ r.batch = cons[c].batch \ {e}
    BY <2>2, <2>4 DEF Loop
  <2>6. cons' = [cons EXCEPT ![c] = r]
    BY <2>1
  <2>. HIDE DEF r
  <2>7. e \in handled /\ e \in pending[c] /\ e \notin acked
    BY <2>1, <2>2 DEF StreamIInv, DeliveredIsAccounted, TakenBeforeAck, IsOldest
  <2>8. CASE ok
    <3>1. acked' = acked \cup {e} /\ pending' = [pending EXCEPT ![c] = @ \ {e}]
      BY <2>1, <2>8
    <3>2. /\ pending'[c] = pending[c] \ {e}
          /\ \A d \in Consumers : d # c => pending'[d] = pending[d]
          /\ pending' \in [Consumers -> SUBSET Nat] /\ e \in Nat
      BY <2>7, <3>1 DEF StreamIInv, StreamTypeOK
    <3>3. /\ cons' \in [Consumers -> LoopStates] /\ cons'[c].batch = cons[c].batch \ {e}
          /\ \A d \in Consumers : d # c => cons'[d] = cons[d]
          /\ cons'[c].pc = "handle"
      BY <1>b, <1>l, <2>4, <2>5, <2>6
    <3>t. StreamTypeOK'
      BY <2>2, <2>3, <2>7, <3>1, <3>2, <3>3 DEF StreamIInv, StreamTypeOK
    <3>a. DeliveredIsAccounted'
      <4>1. acked' \subseteq handled' /\ \A i \in acked' : \A d \in Consumers : i \notin pending'[d]
        BY <2>3, <2>7, <3>1, <3>2 DEF StreamIInv, DeliveredIsAccounted
      <4>2. \A a, d \in Consumers : a # d => pending'[a] \cap pending'[d] = {}
        BY <3>2 DEF StreamIInv, DeliveredIsAccounted
      <4>3. ASSUME NEW i \in stream, i <= group
            PROVE  i \in acked' \cup UNION {pending'[d] : d \in Consumers}
        <5>1. i \in acked \/ \E d \in Consumers : i \in pending[d]
          BY <4>3 DEF StreamIInv, DeliveredIsAccounted
        <5>. QED
          BY <3>1, <3>2, <5>1
      <4>4. \A d \in Consumers : cons'[d].pc \in {"handle", "ack"} =>
              cons'[d].batch \cap acked' = {} /\ cons'[d].batch \subseteq pending'[d]
        BY <2>2, <2>7, <3>1, <3>2, <3>3 DEF StreamIInv, DeliveredIsAccounted
      <4>. QED
        BY <2>3, <4>1, <4>2, <4>3, <4>4 DEF DeliveredIsAccounted
    <3>d. DeliveredBefore'
      BY <2>2, <2>3, <2>7, <3>1, <3>2, <3>3 DEF StreamIInv, StreamTypeOK, DeliveredBefore
    <3>k. TakenBeforeAck'
      BY <2>2, <2>3, <2>7, <3>1, <3>2, <3>3 DEF StreamIInv, StreamTypeOK, TakenBeforeAck
    <3>. QED
      BY <3>t, <3>a, <3>d, <3>k DEF StreamIInv
  <2>9. CASE ~ok
    <3>1. acked' = acked /\ pending' = pending
      BY <2>1, <2>9
    <3>. QED
      BY <1>c, <1>l, <2>2, <2>3, <2>4, <2>5, <2>6, <3>1, ZenonT(60) DEF StreamIInv, DeliveredIsAccounted
  <2>. QED
    BY <2>8, <2>9
<1>11. CASE UNCHANGED streamVars
  BY <1>11 DEF streamVars, StreamIInv, StreamTypeOK, DeliveredIsAccounted, DeliveredBefore, TakenBeforeAck
<1>. QED
  BY <1>1, <1>2, <1>3, <1>4, <1>5, <1>6, <1>7, <1>8, <1>9, <1>10, <1>11 DEF StreamNext, StreamStep

\* For any consumers, batch size and length of the stream: what was delivered to
\* the group is acknowledged, after a handler took it, or pending with one
\* consumer, and nobody handles again what is acknowledged.
THEOREM DeliveredIsAccountedTheorem == StreamSpec => []DeliveredIsAccounted
<1>1. StreamIInv => DeliveredIsAccounted
  BY DEF StreamIInv
<1>. QED
  BY <1>1, StreamInitIInv, StreamNextIInv, PTL DEF StreamSpec

-----------------------------------------------------------------------------
(* The dead letters. *)

Entry == [event : DeadEvents, retries : Nat]

DlqTypeOK ==
  /\ dlqKind \in {"memory", "redis"}
  /\ entries \in Seq(Entry)
  /\ replay \in [Replayers -> [on : BOOLEAN, todo : Seq(Entry)]]
  /\ done \in [DeadEvents -> Nat]
  /\ pushed \subseteq DeadEvents

Distinct(s) == \A i, j \in DOMAIN s : s[i].event = s[j].event => i = j

\* Only what was pushed is anywhere, and a replay that is not on has no batch.
OnlyPushed ==
  /\ EventsOf(entries) \subseteq pushed
  /\ \A r \in Replayers : EventsOf(replay[r].todo) \subseteq pushed
  /\ \A r \in Replayers : ~replay[r].on => replay[r].todo = <<>>
  /\ \A e \in DeadEvents : done[e] > 0 => e \in pushed

\* Nothing that was pushed is lost.
Kept ==
  \A e \in pushed \ evicted :
    \/ e \in EventsOf(entries)
    \/ \E r \in Replayers : e \in EventsOf(replay[r].todo)
    \/ done[e] > 0
    \/ dlqKind = "redis" /\ e \in exposed

\* What is in the stream and was not put there during a replay is in the batch of
\* every replay, or was taken: the deletion at a replay's end loses nothing else.
Listed ==
  dlqKind = "redis" => \A r \in Replayers : replay[r].on =>
    \A e \in EventsOf(entries) \ exposed : e \in EventsOf(replay[r].todo) \/ done[e] > 0

\* In memory an event is in one place: the queue, one replay's batch, or done.
OnePlace ==
  dlqKind = "memory" =>
    /\ Distinct(entries)
    /\ \A r \in Replayers : /\ Distinct(replay[r].todo)
                            /\ EventsOf(replay[r].todo) \cap EventsOf(entries) = {}
    /\ \A q, r \in Replayers :
         q # r => EventsOf(replay[q].todo) \cap EventsOf(replay[r].todo) = {}
    /\ \A e \in DeadEvents : /\ done[e] <= 1
                             /\ done[e] = 1 => /\ e \notin EventsOf(entries)
                                               /\ \A r \in Replayers : e \notin EventsOf(replay[r].todo)

DlqIInv == DlqTypeOK /\ OnlyPushed /\ Kept /\ Listed /\ OnePlace

\* The queue is empty at the start.
LEMMA DlqInitIInv == DlqInit => DlqIInv
BY DEF DlqInit, DlqIInv, DlqTypeOK, OnlyPushed, Kept, Listed, OnePlace, Distinct, EventsOf, Resting

\* The empty queue has no event.
LEMMA NoEvents == EventsOf(<<>>) = {} /\ Distinct(<<>>)
BY DEF EventsOf, Distinct

\* Append adds the event of its entry.
LEMMA AppendEvents ==
  ASSUME NEW s \in Seq(Entry), NEW x \in Entry
  PROVE  /\ Append(s, x) \in Seq(Entry)
         /\ EventsOf(Append(s, x)) = EventsOf(s) \cup {x.event}
         /\ Distinct(s) /\ x.event \notin EventsOf(s) => Distinct(Append(s, x))
<1>1. /\ Append(s, x) \in Seq(Entry)
      /\ \A i \in DOMAIN s : i \in DOMAIN Append(s, x) /\ Append(s, x)[i] = s[i]
      /\ Len(s) + 1 \in DOMAIN Append(s, x) /\ Append(s, x)[Len(s) + 1] = x
      /\ \A i \in DOMAIN Append(s, x) : i \in DOMAIN s \/ i = Len(s) + 1
  OBVIOUS
<1>2. EventsOf(Append(s, x)) = EventsOf(s) \cup {x.event}
  BY <1>1 DEF EventsOf
<1>3. ASSUME Distinct(s), x.event \notin EventsOf(s) PROVE Distinct(Append(s, x))
  BY <1>3 DEF EventsOf, Distinct
<1>. QED
  BY <1>1, <1>2, <1>3

\* Tail takes the event of the head away, for good when the events are distinct.
LEMMA TailEvents ==
  ASSUME NEW s \in Seq(Entry), s # <<>>
  PROVE  /\ Head(s) \in Entry /\ Tail(s) \in Seq(Entry)
         /\ EventsOf(s) = EventsOf(Tail(s)) \cup {Head(s).event}
         /\ Distinct(s) => Distinct(Tail(s)) /\ Head(s).event \notin EventsOf(Tail(s))
<1>1. /\ Head(s) \in Entry /\ Tail(s) \in Seq(Entry)
      /\ 1 \in DOMAIN s /\ s[1] = Head(s)
      /\ \A i \in DOMAIN Tail(s) : i + 1 \in DOMAIN s /\ Tail(s)[i] = s[i + 1]
      /\ \A i \in DOMAIN s : i # 1 => i - 1 \in DOMAIN Tail(s) /\ Tail(s)[i - 1] = s[i]
      /\ \A i \in DOMAIN Tail(s) : i \in Nat \ {0}
  OBVIOUS
<1>2. EventsOf(s) = EventsOf(Tail(s)) \cup {Head(s).event}
  <2>1. ASSUME NEW i \in DOMAIN s PROVE s[i].event \in EventsOf(Tail(s)) \cup {Head(s).event}
    <3>1. CASE i = 1
      BY <1>1, <3>1
    <3>2. CASE i # 1
      <4>1. i - 1 \in DOMAIN Tail(s) /\ Tail(s)[i - 1] = s[i]
        BY <1>1, <3>2
      <4>. QED
        BY <4>1 DEF EventsOf
    <3>. QED
      BY <3>1, <3>2
  <2>2. EventsOf(Tail(s)) \subseteq EventsOf(s) /\ Head(s).event \in EventsOf(s)
    BY <1>1 DEF EventsOf
  <2>. QED
    BY <2>1, <2>2 DEF EventsOf
<1>3. ASSUME Distinct(s) PROVE Distinct(Tail(s)) /\ Head(s).event \notin EventsOf(Tail(s))
  BY <1>1, <1>3 DEF EventsOf, Distinct
<1>. QED
  BY <1>1, <1>2, <1>3

\* A push adds its event; what else it does is to drop old entries.
LEMMA PushEvents ==
  ASSUME DlqTypeOK, NEW x \in Entry, NEW q \in Pushes(x)
  PROVE  /\ q \in Seq(Entry)
         /\ EventsOf(q) \subseteq EventsOf(entries) \cup {x.event}
         /\ x.event \in EventsOf(q)
         /\ EventsOf(Append(entries, x)) = EventsOf(entries) \cup {x.event}
         /\ dlqKind = "memory" /\ Distinct(entries) /\ x.event \notin EventsOf(entries) => Distinct(q)
<1>. entries \in Seq(Entry)
  BY DEF DlqTypeOK
<1>0. EventsOf(Append(entries, x)) = EventsOf(entries) \cup {x.event}
  BY AppendEvents
<1>1. CASE dlqKind = "memory"
  <2>1. q = Append(IF Len(entries) >= DlqMax THEN Tail(entries) ELSE entries, x)
    BY <1>1 DEF Pushes, PushMemory
  <2>2. CASE Len(entries) >= DlqMax
    <3>1. entries # <<>>
      BY <2>2, DlqAssumption
    <3>2. /\ Tail(entries) \in Seq(Entry) /\ EventsOf(Tail(entries)) \subseteq EventsOf(entries)
          /\ Distinct(entries) => Distinct(Tail(entries))
      BY <3>1, TailEvents
    <3>3. q = Append(Tail(entries), x)
      BY <2>1, <2>2
    <3>. QED
      BY <1>0, <3>2, <3>3, AppendEvents
  <2>3. CASE ~(Len(entries) >= DlqMax)
    BY <1>0, <2>1, <2>3, AppendEvents
  <2>. QED
    BY <2>2, <2>3
<1>2. CASE dlqKind # "memory"
  <2>. DEFINE all == Append(entries, x)
  <2>1. PICK k \in 1..(IF Len(all) > DlqMax THEN Len(all) - DlqMax + 1 ELSE 1) : q = SubSeq(all, k, Len(all))
    BY <1>2 DEF Pushes, PushRedis
  <2>2. all \in Seq(Entry) /\ Len(all) = Len(entries) + 1 /\ all[Len(all)] = x
    OBVIOUS
  <2>. HIDE DEF all
  <2>3. k \in 1..Len(all)
    BY <2>1, <2>2, DlqAssumption
  <2>4. /\ q \in Seq(Entry) /\ Len(q) = Len(all) - k + 1
        /\ \A i \in DOMAIN q : q[i] = all[k + i - 1] /\ k + i - 1 \in DOMAIN all
    BY <2>1, <2>2, <2>3
  <2>5. Len(q) \in DOMAIN q /\ q[Len(q)] = x
    BY <2>2, <2>3, <2>4
  <2>6. EventsOf(q) \subseteq EventsOf(all) /\ x.event \in EventsOf(q)
    BY <2>4, <2>5 DEF EventsOf
  <2>. QED
    BY <1>0, <1>2, <2>4, <2>6 DEF all
<1>. QED
  BY <1>1, <1>2

\* A push moves an event into the queue and may drop the oldest ones; a replay
\* moves the queue into its batch and, event by event, out of it.
LEMMA DlqNextIInv == DlqIInv /\ [DlqNext]_dlqVars => DlqIInv'
<1>. SUFFICES ASSUME DlqIInv, [DlqNext]_dlqVars PROVE DlqIInv'
  OBVIOUS
<1>t. DlqTypeOK
  BY DEF DlqIInv
<1>1. ASSUME NEW e \in DeadEvents, Push(e) PROVE DlqIInv'
  <2>. DEFINE x == [event |-> e, retries |-> 0]
  <2>1. PICK q \in Pushes(x) : Stored(x, q)
    BY <1>1 DEF Push
  <2>2. x \in Entry /\ x.event = e
    BY DEF Entry
  <2>3. e \notin pushed /\ pushed' = pushed \cup {e} /\ UNCHANGED <<dlqKind, replay, replays, done>>
    BY <1>1 DEF Push
  <2>. HIDE DEF x
  <2>4. /\ q \in Seq(Entry) /\ EventsOf(q) \subseteq EventsOf(entries) \cup {e} /\ e \in EventsOf(q)
        /\ dlqKind = "memory" /\ Distinct(entries) /\ e \notin EventsOf(entries) => Distinct(q)
    BY <1>t, <2>2, PushEvents
  <2>5. /\ entries' = q
        /\ evicted' = evicted \cup ((EventsOf(entries) \cup {e}) \ EventsOf(q))
        /\ exposed \subseteq exposed'
        /\ (\E r \in Replayers : replay[r].on) => e \in exposed'
    BY <1>t, <2>1, <2>2, PushEvents DEF Stored
  <2>t. DlqTypeOK'
    BY <2>3, <2>4, <2>5 DEF DlqIInv, DlqTypeOK
  <2>p. OnlyPushed'
    BY <2>3, <2>4, <2>5 DEF DlqIInv, DlqTypeOK, OnlyPushed
  <2>k. Kept'
    BY <2>3, <2>4, <2>5 DEF DlqIInv, DlqTypeOK, OnlyPushed, Kept, Listed
  <2>l. Listed'
    BY <2>3, <2>4, <2>5 DEF DlqIInv, DlqTypeOK, Listed
  <2>o. OnePlace'
    <3>. SUFFICES ASSUME dlqKind = "memory" PROVE OnePlace'
      BY <2>3 DEF OnePlace
    <3>1. /\ e \notin EventsOf(entries) /\ \A r \in Replayers : e \notin EventsOf(replay[r].todo)
          /\ done[e] = 0
      BY <1>t, <2>3 DEF DlqIInv, DlqTypeOK, OnlyPushed
    <3>2. Distinct(entries')
      BY <2>4, <2>5, <3>1 DEF DlqIInv, OnePlace
    <3>3. \A r \in Replayers : EventsOf(replay[r].todo) \cap EventsOf(entries') = {}
      BY <2>4, <2>5, <3>1 DEF DlqIInv, OnePlace
    <3>4. \A f \in DeadEvents : done[f] = 1 => f \notin EventsOf(entries')
      BY <2>4, <2>5, <3>1 DEF DlqIInv, OnePlace
    <3>. QED
      BY <2>3, <3>2, <3>3, <3>4 DEF DlqIInv, OnePlace
  <2>. QED
    BY <2>t, <2>p, <2>k, <2>l, <2>o DEF DlqIInv
<1>2. ASSUME NEW r \in Replayers, ReplayBegin(r) PROVE DlqIInv'
  <2>1. /\ replay' = [replay EXCEPT ![r] = [on |-> TRUE, todo |-> entries]]
        /\ ~replay[r].on
        /\ entries' = IF dlqKind = "memory" THEN <<>> ELSE entries
        /\ UNCHANGED <<dlqKind, pushed, done, evicted, exposed>>
    BY <1>2 DEF ReplayBegin, ListDead
  <2>2. /\ replay' \in [Replayers -> [on : BOOLEAN, todo : Seq(Entry)]]
        /\ replay'[r].on /\ replay'[r].todo = entries
        /\ \A q \in Replayers : q # r => replay'[q] = replay[q]
    BY <2>1 DEF DlqIInv, DlqTypeOK
  <2>3. entries' \in Seq(Entry) /\ EventsOf(entries') \subseteq EventsOf(entries)
    BY <2>1, NoEvents DEF DlqIInv, DlqTypeOK
  <2>4. dlqKind = "memory" => EventsOf(entries') = {} /\ Distinct(entries')
    BY <2>1, NoEvents
  <2>5. EventsOf(replay[r].todo) = {}
    BY <2>1, NoEvents DEF DlqIInv, OnlyPushed
  <2>t. DlqTypeOK'
    BY <2>1, <2>2, <2>3, <2>4, <2>5 DEF DlqIInv, DlqTypeOK
  <2>p. OnlyPushed'
    BY <2>1, <2>2, <2>3, <2>4, <2>5 DEF DlqIInv, DlqTypeOK, OnlyPushed
  <2>k. Kept'
    BY <2>1, <2>2, <2>3, <2>4, <2>5 DEF DlqIInv, DlqTypeOK, OnlyPushed, Kept, Listed
  <2>l. Listed'
    BY <2>1, <2>2, <2>3, <2>4, <2>5 DEF DlqIInv, DlqTypeOK, Listed
  <2>o. OnePlace'
    BY <2>1, <2>2, <2>3, <2>4, <2>5 DEF DlqIInv, DlqTypeOK, OnlyPushed, OnePlace
  <2>. QED
    BY <2>t, <2>p, <2>k, <2>l, <2>o DEF DlqIInv
<1>r. ASSUME NEW r \in Replayers, replay[r].todo # <<>>,
             replay' = [replay EXCEPT ![r] = [on |-> TRUE, todo |-> Tail(replay[r].todo)]]
      PROVE  /\ replay' \in [Replayers -> [on : BOOLEAN, todo : Seq(Entry)]]
             /\ replay'[r].on /\ replay'[r].todo = Tail(replay[r].todo)
             /\ \A q \in Replayers : q # r => replay'[q] = replay[q]
             /\ Head(replay[r].todo) \in Entry
             /\ EventsOf(replay[r].todo) = EventsOf(replay'[r].todo) \cup {Head(replay[r].todo).event}
             /\ Distinct(replay[r].todo) =>
                  Distinct(replay'[r].todo) /\ Head(replay[r].todo).event \notin EventsOf(replay'[r].todo)
  <2>1. replay[r].todo \in Seq(Entry)
    BY <1>t DEF DlqTypeOK
  <2>2. Tail(replay[r].todo) \in Seq(Entry)
    BY <1>r, <2>1, TailEvents
  <2>3. /\ replay' \in [Replayers -> [on : BOOLEAN, todo : Seq(Entry)]]
        /\ replay'[r].on /\ replay'[r].todo = Tail(replay[r].todo)
        /\ \A q \in Replayers : q # r => replay'[q] = replay[q]
    BY <1>t, <1>r, <2>2 DEF DlqTypeOK
  <2>. QED
    BY <1>r, <2>1, <2>3, TailEvents
<1>3. ASSUME NEW r \in Replayers, ReplayOK(r) PROVE DlqIInv'
  <2>. DEFINE e == Head(replay[r].todo).event
  <2>1. /\ replay[r].on /\ replay[r].todo # <<>>
        /\ done' = [done EXCEPT ![e] = @ + 1]
        /\ replay' = [replay EXCEPT ![r] = [on |-> TRUE, todo |-> Tail(replay[r].todo)]]
        /\ UNCHANGED <<dlqKind, entries, replays, pushed, evicted, exposed>>
    BY <1>3 DEF ReplayOK
  <2>2. /\ replay' \in [Replayers -> [on : BOOLEAN, todo : Seq(Entry)]]
        /\ replay'[r].on
        /\ \A q \in Replayers : q # r => replay'[q] = replay[q]
        /\ EventsOf(replay[r].todo) = EventsOf(replay'[r].todo) \cup {e}
        /\ Distinct(replay[r].todo) => Distinct(replay'[r].todo) /\ e \notin EventsOf(replay'[r].todo)
    BY <1>r, <2>1
  <2>3. e \in DeadEvents
    BY <1>r, <2>1 DEF Entry
  <2>. HIDE DEF e
  <2>4. /\ done' \in [DeadEvents -> Nat] /\ done'[e] = done[e] + 1
        /\ \A f \in DeadEvents : f # e => done'[f] = done[f]
    BY <1>t, <2>1, <2>3 DEF DlqTypeOK
  <2>5. done[e] \in Nat
    BY <1>t, <2>3 DEF DlqTypeOK
  <2>t. DlqTypeOK'
    BY <2>1, <2>2, <2>3, <2>4, <2>5 DEF DlqIInv, DlqTypeOK
  <2>p. OnlyPushed'
    BY <2>1, <2>2, <2>3, <2>4, <2>5 DEF DlqIInv, DlqTypeOK, OnlyPushed
  <2>k. Kept'
    BY <2>1, <2>2, <2>3, <2>4, <2>5 DEF DlqIInv, DlqTypeOK, OnlyPushed, Kept, Listed
  <2>l. Listed'
    BY <2>1, <2>2, <2>3, <2>4, <2>5 DEF DlqIInv, DlqTypeOK, Listed
  <2>o. OnePlace'
    <3>. SUFFICES ASSUME dlqKind = "memory" PROVE OnePlace'
      BY <2>1 DEF OnePlace
    <3>1. e \in EventsOf(replay[r].todo) /\ e \notin EventsOf(replay'[r].todo)
      BY <2>2 DEF DlqIInv, OnePlace
    <3>2. /\ e \notin EventsOf(entries) /\ done[e] = 0
          /\ \A q \in Replayers : q # r => e \notin EventsOf(replay[q].todo)
      BY <2>3, <2>5, <3>1 DEF DlqIInv, OnePlace
    <3>3. \A q \in Replayers : /\ e \notin EventsOf(replay'[q].todo) /\ Distinct(replay'[q].todo)
                               /\ EventsOf(replay'[q].todo) \subseteq EventsOf(replay[q].todo)
      BY <2>2, <3>1, <3>2 DEF DlqIInv, OnePlace
    <3>4. \A f \in DeadEvents : /\ done'[f] <= 1
                                /\ done'[f] = 1 =>
                                     /\ f \notin EventsOf(entries)
                                     /\ \A q \in Replayers : f \notin EventsOf(replay'[q].todo)
      BY <2>4, <3>2, <3>3 DEF DlqIInv, OnePlace
    <3>. QED
      BY <2>1, <3>3, <3>4 DEF DlqIInv, OnePlace
  <2>. QED
    BY <2>t, <2>p, <2>k, <2>l, <2>o DEF DlqIInv
<1>4. ASSUME NEW r \in Replayers, ReplayFails(r) PROVE DlqIInv'
  <2>. DEFINE x == Head(replay[r].todo)
              y == [x EXCEPT !.retries = x.retries + 1]
              e == x.event
  <2>1. /\ replay[r].on /\ replay[r].todo # <<>>
        /\ replay' = [replay EXCEPT ![r] = [on |-> TRUE, todo |-> Tail(replay[r].todo)]]
        /\ UNCHANGED <<dlqKind, replays, pushed, done>>
    BY <1>4 DEF ReplayFails
  <2>2. /\ replay' \in [Replayers -> [on : BOOLEAN, todo : Seq(Entry)]]
        /\ replay'[r].on
        /\ \A q \in Replayers : q # r => replay'[q] = replay[q]
        /\ EventsOf(replay[r].todo) = EventsOf(replay'[r].todo) \cup {e}
        /\ Distinct(replay[r].todo) => Distinct(replay'[r].todo) /\ e \notin EventsOf(replay'[r].todo)
    BY <1>r, <2>1
  <2>3. x \in Entry
    BY <1>r, <2>1
  <2>4. \/ \E q \in Pushes(y) : Stored(y, q)
        \/ dlqKind = "redis" /\ exposed' = exposed \cup {e} /\ UNCHANGED <<entries, evicted>>
    BY <1>4 DEF ReplayFails
  <2>. HIDE DEF x
  <2>5. y \in Entry /\ y.event = e /\ e \in DeadEvents
    BY <2>3 DEF Entry
  <2>. HIDE DEF y, e
  <2>6. CASE \E q \in Pushes(y) : Stored(y, q)
    <3>1. PICK q \in Pushes(y) : Stored(y, q)
      BY <2>6
    <3>2. /\ q \in Seq(Entry) /\ EventsOf(q) \subseteq EventsOf(entries) \cup {e} /\ e \in EventsOf(q)
          /\ dlqKind = "memory" /\ Distinct(entries) /\ e \notin EventsOf(entries) => Distinct(q)
      BY <1>t, <2>5, PushEvents
    <3>3. /\ entries' = q
          /\ evicted' = evicted \cup ((EventsOf(entries) \cup {e}) \ EventsOf(q))
          /\ exposed \subseteq exposed'
          /\ e \in exposed'
      BY <1>t, <2>1, <2>5, <3>1, PushEvents DEF Stored
    <3>t. DlqTypeOK'
      BY <2>1, <2>2, <2>5, <3>2, <3>3 DEF DlqIInv, DlqTypeOK
    <3>p. OnlyPushed'
      BY <2>1, <2>2, <2>5, <3>2, <3>3 DEF DlqIInv, DlqTypeOK, OnlyPushed
    <3>k. Kept'
      BY <2>1, <2>2, <2>5, <3>2, <3>3 DEF DlqIInv, DlqTypeOK, OnlyPushed, Kept, Listed
    <3>l. Listed'
      BY <2>1, <2>2, <2>5, <3>2, <3>3 DEF DlqIInv, DlqTypeOK, Listed
    <3>o. OnePlace'
      <4>. SUFFICES ASSUME dlqKind = "memory" PROVE OnePlace'
        BY <2>1 DEF OnePlace
      <4>1. e \in EventsOf(replay[r].todo) /\ e \notin EventsOf(replay'[r].todo)
        BY <2>2 DEF DlqIInv, OnePlace
      <4>2. /\ e \notin EventsOf(entries) /\ done[e] # 1
            /\ \A q1 \in Replayers : q1 # r => e \notin EventsOf(replay[q1].todo)
        BY <2>5, <4>1 DEF DlqIInv, OnePlace
      <4>3. Distinct(entries') /\ \A q1 \in Replayers : Distinct(replay'[q1].todo)
        BY <2>2, <3>2, <3>3, <4>2 DEF DlqIInv, OnePlace
      <4>4. \A q1 \in Replayers : /\ e \notin EventsOf(replay'[q1].todo)
                                  /\ EventsOf(replay'[q1].todo) \subseteq EventsOf(replay[q1].todo)
        BY <2>2, <4>1, <4>2
      <4>5. \A q1 \in Replayers : EventsOf(replay'[q1].todo) \cap EventsOf(entries') = {}
        BY <3>2, <3>3, <4>4 DEF DlqIInv, OnePlace
      <4>6. \A q1, q2 \in Replayers :
              q1 # q2 => EventsOf(replay'[q1].todo) \cap EventsOf(replay'[q2].todo) = {}
        BY <4>4 DEF DlqIInv, OnePlace
      <4>7. \A f \in DeadEvents : done[f] = 1 =>
              f \notin EventsOf(entries') /\ \A q1 \in Replayers : f \notin EventsOf(replay'[q1].todo)
        BY <3>2, <3>3, <4>2, <4>4 DEF DlqIInv, OnePlace
      <4>. QED
        BY <2>1, <4>3, <4>5, <4>6, <4>7 DEF DlqIInv, OnePlace
    <3>. QED
      BY <3>t, <3>p, <3>k, <3>l, <3>o DEF DlqIInv
  <2>7. CASE dlqKind = "redis" /\ exposed' = exposed \cup {e} /\ UNCHANGED <<entries, evicted>>
    <3>t. DlqTypeOK'
      BY <2>1, <2>2, <2>5, <2>7 DEF DlqIInv, DlqTypeOK
    <3>p. OnlyPushed'
      BY <2>1, <2>2, <2>5, <2>7 DEF DlqIInv, DlqTypeOK, OnlyPushed
    <3>k. Kept'
      BY <2>1, <2>2, <2>5, <2>7 DEF DlqIInv, DlqTypeOK, OnlyPushed, Kept, Listed
    <3>l. Listed'
      BY <2>1, <2>2, <2>5, <2>7 DEF DlqIInv, DlqTypeOK, Listed
    <3>o. OnePlace'
      BY <2>1, <2>2, <2>5, <2>7 DEF DlqIInv, DlqTypeOK, OnlyPushed, OnePlace
    <3>. QED
      BY <3>t, <3>p, <3>k, <3>l, <3>o DEF DlqIInv
  <2>. QED
    BY <2>4, <2>6, <2>7
<1>5. ASSUME NEW r \in Replayers, ReplayEnd(r) PROVE DlqIInv'
  <2>1. /\ replay[r].on /\ replay[r].todo = <<>>
        /\ replay' = [replay EXCEPT ![r] = [on |-> FALSE, todo |-> <<>>]]
        /\ entries' = entries \/ (dlqKind = "redis" /\ entries' = <<>>)
        /\ UNCHANGED <<dlqKind, pushed, done, evicted, exposed>>
    <3>1. entries' \in IF dlqKind = "redis" THEN {<<>>, entries} ELSE {entries}
      BY <1>5 DEF ReplayEnd
    <3>2. entries' = entries \/ (dlqKind = "redis" /\ entries' = <<>>)
      <4>1. CASE dlqKind = "redis"
        BY <3>1, <4>1
      <4>2. CASE dlqKind # "redis"
        BY <3>1, <4>2
      <4>. QED
        BY <4>1, <4>2
    <3>. QED
      BY <1>5, <3>2 DEF ReplayEnd, Resting
  <2>2. /\ replay' \in [Replayers -> [on : BOOLEAN, todo : Seq(Entry)]]
        /\ ~replay'[r].on /\ replay'[r].todo = <<>>
        /\ \A q \in Replayers : q # r => replay'[q] = replay[q]
    BY <1>t, <2>1 DEF DlqTypeOK
  <2>3. \A q \in Replayers : replay'[q].todo = replay[q].todo
    BY <2>1, <2>2
  <2>4. entries' \in Seq(Entry) /\ EventsOf(entries') \subseteq EventsOf(entries)
    BY <1>t, <2>1, NoEvents DEF DlqTypeOK
  <2>5. EventsOf(replay[r].todo) = {}
    BY <2>1, NoEvents
  <2>t. DlqTypeOK'
    BY <2>1, <2>2, <2>3, <2>4, <2>5 DEF DlqIInv, DlqTypeOK
  <2>p. OnlyPushed'
    BY <2>1, <2>2, <2>3, <2>4, <2>5 DEF DlqIInv, DlqTypeOK, OnlyPushed
  <2>k. Kept'
    BY <2>1, <2>2, <2>3, <2>4, <2>5 DEF DlqIInv, DlqTypeOK, OnlyPushed, Kept, Listed
  <2>l. Listed'
    BY <2>1, <2>2, <2>3, <2>4, <2>5 DEF DlqIInv, DlqTypeOK, Listed
  <2>o. OnePlace'
    BY <2>1, <2>2, <2>3, <2>4, <2>5 DEF DlqIInv, DlqTypeOK, OnlyPushed, OnePlace
  <2>. QED
    BY <2>t, <2>p, <2>k, <2>l, <2>o DEF DlqIInv
<1>6. CASE UNCHANGED dlqVars
  BY <1>6 DEF dlqVars, DlqIInv, DlqTypeOK, OnlyPushed, Kept, Listed, OnePlace
<1>. QED
  BY <1>1, <1>2, <1>3, <1>4, <1>5, <1>6 DEF DlqNext

\* For any number of replays and any bound: a dead letter is lost only to a full
\* queue, or by the Redis queue when it came in during a replay; in memory it has
\* one copy at a time.
THEOREM DeadLettersKeptTheorem == DlqSpec => []DeadLettersKept
<1>1. ASSUME DlqIInv PROVE DeadLettersKept
  <2>1. \A e \in pushed \ evicted :
          \/ Queued(e) # {} \/ Held(e) # {} \/ done[e] > 0
          \/ dlqKind = "redis" /\ e \in exposed
    <3>. SUFFICES ASSUME NEW e \in pushed \ evicted, Queued(e) = {}, Held(e) = {}
                  PROVE  done[e] > 0 \/ (dlqKind = "redis" /\ e \in exposed)
      OBVIOUS
    <3>1. e \notin EventsOf(entries)
      BY DEF EventsOf, Queued
    <3>2. ASSUME NEW r \in Replayers, NEW i \in DOMAIN replay[r].todo, replay[r].todo[i].event = e
          PROVE  FALSE
      <4>1. <<r, i>> \in Held(e)
        BY <3>2 DEF Held
      <4>. QED
        BY <4>1
    <3>3. \A r \in Replayers : e \notin EventsOf(replay[r].todo)
      BY <3>2 DEF EventsOf
    <3>. QED
      BY <1>1, <3>1, <3>3 DEF DlqIInv, Kept
  <2>2. ASSUME dlqKind = "memory", NEW e \in DeadEvents
        PROVE  Cardinality(Queued(e)) + Cardinality(Held(e)) + done[e] <= 1
    <3>1. done[e] \in {0, 1}
      <4>1. done[e] \in Nat
        BY <1>1 DEF DlqIInv, DlqTypeOK
      <4>2. done[e] <= 1
        BY <1>1, <2>2, <4>1 DEF DlqIInv, OnePlace
      <4>. QED
        BY <4>1, <4>2
    <3>2. /\ Queued(e) = {} \/ \E i : Queued(e) = {i}
          /\ Queued(e) # {} => e \in EventsOf(entries)
      <4>1. Distinct(entries)
        BY <1>1, <2>2 DEF DlqIInv, OnePlace
      <4>2. \A i, j \in Queued(e) : i = j
        BY <4>1 DEF Distinct, Queued
      <4>. QED
        BY <4>2 DEF Queued, EventsOf
    <3>3. ASSUME NEW p \in Held(e)
          PROVE  \E r \in Replayers : \E i \in DOMAIN replay[r].todo :
                   p = <<r, i>> /\ replay[r].todo[i].event = e
      BY DEF Held
    <3>4. Held(e) # {} => \E r \in Replayers : e \in EventsOf(replay[r].todo)
      BY <3>3 DEF EventsOf
    <3>5. Held(e) = {} \/ \E p : Held(e) = {p}
      <4>. SUFFICES ASSUME NEW p \in Held(e), NEW q \in Held(e) PROVE p = q
        OBVIOUS
      <4>1. PICK r \in Replayers : \E i \in DOMAIN replay[r].todo :
              p = <<r, i>> /\ replay[r].todo[i].event = e
        BY <3>3
      <4>2. PICK t \in Replayers : \E j \in DOMAIN replay[t].todo :
              q = <<t, j>> /\ replay[t].todo[j].event = e
        BY <3>3
      <4>3. e \in EventsOf(replay[r].todo) /\ e \in EventsOf(replay[t].todo)
        BY <4>1, <4>2 DEF EventsOf
      <4>4. r = t
        BY <1>1, <2>2, <4>3 DEF DlqIInv, OnePlace
      <4>5. PICK i \in DOMAIN replay[r].todo : p = <<r, i>> /\ replay[r].todo[i].event = e
        BY <4>1
      <4>6. PICK j \in DOMAIN replay[r].todo : q = <<r, j>> /\ replay[r].todo[j].event = e
        BY <4>2, <4>4
      <4>7. i = j
        BY <1>1, <2>2, <4>5, <4>6 DEF DlqIInv, OnePlace, Distinct
      <4>. QED
        BY <4>5, <4>6, <4>7
    <3>6. /\ Queued(e) # {} => Held(e) = {} /\ done[e] = 0
          /\ Held(e) # {} => done[e] = 0
      BY <1>1, <2>2, <3>1, <3>2, <3>4 DEF DlqIInv, OnePlace
    <3>7. Cardinality(Queued(e)) \in {0, 1} /\ (Cardinality(Queued(e)) = 1 => Queued(e) # {})
      BY <3>2, FS_EmptySet, FS_Singleton
    <3>8. Cardinality(Held(e)) \in {0, 1} /\ (Cardinality(Held(e)) = 1 => Held(e) # {})
      BY <3>5, FS_EmptySet, FS_Singleton
    <3>9. Held(e) = {} => Cardinality(Held(e)) = 0
      BY FS_EmptySet
    <3>. QED
      BY <3>1, <3>6, <3>7, <3>8, <3>9
  <2>. QED
    BY <2>1, <2>2 DEF DeadLettersKept
<1>. QED
  BY <1>1, DlqInitIInv, DlqNextIInv, PTL DEF DlqSpec

-----------------------------------------------------------------------------
(* The notification service. *)

NoRepeat(s) == \A i, j \in DOMAIN s : s[i] = s[j] => i = j

\* A call under way: the senders tried and the ones left are the list it began
\* with; only SendToAll goes on after a success.
Underway(c, sent) ==
  /\ c.mode \in {"first", "all"} /\ c.outcome = "open"
  /\ c.todo \in Seq(NotifySenders) /\ c.todo # <<>> /\ NoRepeat(c.todo)
  /\ c.tried \cup ToSet(c.todo) = ToSet(c.all) /\ c.tried \cap ToSet(c.todo) = {}
  /\ c.ok \subseteq c.tried /\ IsFiniteSet(c.ok)
  /\ c.mode = "first" => c.ok = {}
  /\ sent = Cardinality(c.ok)

\* A call that has answered.
Answered(c, sent) ==
  /\ c.mode = "none" /\ c.outcome \in {"none", "success", "error", "results"}
  /\ c.outcome = "success" => sent = 1
  /\ c.outcome = "error" => sent = 0 /\ c.tried = ToSet(c.all)
  /\ c.outcome = "results" => c.tried = ToSet(c.all) /\ sent = Cardinality(c.ok)

\* No sender is registered twice, so that SendToAll counts each success once.
NotifyIInv ==
  /\ DOMAIN senders = Channels /\ DOMAIN sending = Notifiers /\ DOMAIN delivered = Notifiers
  /\ \A ch \in Channels : senders[ch] \in Seq(NotifySenders) /\ NoRepeat(senders[ch])
  /\ \A n \in Notifiers : Underway(sending[n], delivered[n]) \/ Answered(sending[n], delivered[n])

\* Nobody sends at the start.
LEMMA NotifyInitIInv == NotifyInit => NotifyIInv
BY DEF NotifyInit, NotifyIInv, NotSending, Answered, NoRepeat

\* What Tail and Append do to a list without repetition.
LEMMA ListMembers ==
  ASSUME NEW S, NEW s \in Seq(S), NoRepeat(s)
  PROVE  /\ \A x \in S : x \notin ToSet(s) => Append(s, x) \in Seq(S) /\ NoRepeat(Append(s, x))
         /\ s # <<>> => /\ Tail(s) \in Seq(S) /\ NoRepeat(Tail(s)) /\ Head(s) \in S
                        /\ ToSet(s) = ToSet(Tail(s)) \cup {Head(s)} /\ Head(s) \notin ToSet(Tail(s))
                        /\ Len(Tail(s)) = Len(s) - 1 /\ Len(s) >= 1
<1>1. ASSUME NEW x \in S, x \notin ToSet(s) PROVE Append(s, x) \in Seq(S) /\ NoRepeat(Append(s, x))
  BY <1>1 DEF NoRepeat, ToSet
<1>2. ASSUME s # <<>>
      PROVE  /\ Tail(s) \in Seq(S) /\ NoRepeat(Tail(s)) /\ Head(s) \in S
             /\ ToSet(s) = ToSet(Tail(s)) \cup {Head(s)} /\ Head(s) \notin ToSet(Tail(s))
             /\ Len(Tail(s)) = Len(s) - 1 /\ Len(s) >= 1
  <2>1. /\ Head(s) \in S /\ Tail(s) \in Seq(S)
        /\ 1 \in DOMAIN s /\ s[1] = Head(s)
        /\ \A i \in DOMAIN Tail(s) : i + 1 \in DOMAIN s /\ Tail(s)[i] = s[i + 1]
        /\ \A i \in DOMAIN s : i # 1 => i - 1 \in DOMAIN Tail(s) /\ Tail(s)[i - 1] = s[i]
        /\ \A i \in DOMAIN Tail(s) : i \in Nat \ {0}
    BY <1>2
  <2>2. Len(Tail(s)) = Len(s) - 1 /\ Len(s) >= 1
    BY <1>2
  <2>3. NoRepeat(Tail(s)) /\ Head(s) \notin ToSet(Tail(s))
    BY <2>1 DEF NoRepeat, ToSet
  <2>4. ASSUME NEW i \in DOMAIN s PROVE s[i] \in ToSet(Tail(s)) \cup {Head(s)}
    <3>1. CASE i = 1
      BY <2>1, <3>1
    <3>2. CASE i # 1
      <4>1. i - 1 \in DOMAIN Tail(s) /\ Tail(s)[i - 1] = s[i]
        BY <2>1, <3>2
      <4>. QED
        BY <4>1 DEF ToSet
    <3>. QED
      BY <3>1, <3>2
  <2>5. ToSet(Tail(s)) \subseteq ToSet(s) /\ Head(s) \in ToSet(s)
    BY <2>1 DEF ToSet
  <2>6. ToSet(s) = ToSet(Tail(s)) \cup {Head(s)}
    BY <2>4, <2>5 DEF ToSet
  <2>. QED
    BY <2>1, <2>2, <2>3, <2>6
<1>. QED
  BY <1>1, <1>2

\* Registering keeps the lists free of repetitions; a call copies its list, and
\* each answer moves one sender from those left to those tried.
LEMMA NotifyNextIInv == NotifyIInv /\ [NotifyNext]_notifyVars => NotifyIInv'
<1>. SUFFICES ASSUME NotifyIInv, [NotifyNext]_notifyVars PROVE NotifyIInv'
  OBVIOUS
<1>a. ASSUME NEW n \in Notifiers, NEW c, NEW d, DOMAIN senders' = Channels,
             \A ch \in Channels : senders'[ch] = senders[ch],
             sending' = [sending EXCEPT ![n] = c], delivered' = [delivered EXCEPT ![n] = d],
             Underway(c, d) \/ Answered(c, d)
      PROVE  NotifyIInv'
  BY <1>a DEF NotifyIInv
<1>1. ASSUME NEW s \in NotifySenders, RegisterSender(s) PROVE NotifyIInv'
  <2>. DEFINE ch == ChannelOf[s]
  <2>1. ch \in Channels
    BY NotifyAssumption
  <2>2. Append(senders[ch], s) \in Seq(NotifySenders) /\ NoRepeat(Append(senders[ch], s))
    BY <1>1, <2>1, ListMembers DEF RegisterSender, NotifyIInv
  <2>. QED
    BY <1>1, <2>1, <2>2 DEF RegisterSender, NotifyIInv
<1>2. ASSUME NEW n \in Notifiers, NEW mode \in {"first", "all"}, NEW ch \in Channels, NEW to \in BOOLEAN,
             SendBegin(n, mode, ch, to)
      PROVE  NotifyIInv'
  <2>. DEFINE c == [mode |-> IF senders[ch] = <<>> THEN "none" ELSE mode,
                    all |-> senders[ch], todo |-> senders[ch], to |-> to, ok |-> {}, tried |-> {},
                    outcome |-> IF senders[ch] = <<>> THEN "error" ELSE "open"]
  <2>1. sending' = [sending EXCEPT ![n] = c] /\ delivered' = [delivered EXCEPT ![n] = 0] /\ senders' = senders
    BY <1>2 DEF SendBegin
  <2>2. senders[ch] \in Seq(NotifySenders) /\ NoRepeat(senders[ch])
    BY DEF NotifyIInv
  <2>5. Underway(c, 0) \/ Answered(c, 0)
    <3>1. CASE senders[ch] = <<>>
      BY <3>1 DEF Answered, ToSet
    <3>2. CASE senders[ch] # <<>>
      BY <2>2, <3>2, FS_EmptySet DEF Underway
    <3>. QED
      BY <3>1, <3>2
  <2>. HIDE DEF c
  <2>. QED
    BY <1>a, <2>1, <2>5 DEF NotifyIInv
<1>3. ASSUME NEW n \in Notifiers, NEW r \in {"success", "unsuccessful", "error"}, TrySender(n, r)
      PROVE  NotifyIInv'
  <2>. DEFINE c == sending[n]
              s == Head(c.todo)
              d == AfterTry(c, r, r = "success")
              k == IF r = "success" THEN delivered[n] + 1 ELSE delivered[n]
  <2>1. sending' = [sending EXCEPT ![n] = d] /\ delivered' = [delivered EXCEPT ![n] = k] /\ senders' = senders
    BY <1>3 DEF TrySender
  <2>2. Underway(c, delivered[n])
    BY <1>3 DEF TrySender, NotifyIInv, Answered
  <2>. DEFINE sent == delivered[n]
  <2>3. /\ c.todo \in Seq(NotifySenders) /\ c.todo # <<>> /\ NoRepeat(c.todo)
        /\ c.tried \cup ToSet(c.todo) = ToSet(c.all) /\ c.tried \cap ToSet(c.todo) = {}
        /\ c.ok \subseteq c.tried /\ IsFiniteSet(c.ok) /\ sent = Cardinality(c.ok)
        /\ c.mode \in {"first", "all"} /\ (c.mode = "first" => c.ok = {})
    BY <2>2 DEF Underway
  <2>4. /\ Tail(c.todo) \in Seq(NotifySenders) /\ NoRepeat(Tail(c.todo))
        /\ ToSet(c.todo) = ToSet(Tail(c.todo)) \cup {s} /\ s \notin ToSet(Tail(c.todo))
        /\ Len(Tail(c.todo)) = Len(c.todo) - 1 /\ Len(c.todo) >= 1
    BY <2>3, ListMembers
  <2>5. /\ d.all = c.all /\ d.todo = Tail(c.todo) /\ d.tried = c.tried \cup {s}
        /\ d.ok = IF r = "success" THEN c.ok \cup {s} ELSE c.ok
        /\ d.mode = IF (c.mode = "first" /\ r = "success") \/ Len(c.todo) = 1 THEN "none" ELSE c.mode
        /\ d.outcome = IF c.mode = "first" /\ r = "success" THEN "success"
                       ELSE IF Len(c.todo) # 1 THEN "open"
                       ELSE IF c.mode = "first" THEN "error" ELSE "results"
    BY DEF AfterTry
  <2>. HIDE DEF c, s, d
  <2>6. /\ d.tried \cup ToSet(d.todo) = ToSet(d.all) /\ d.tried \cap ToSet(d.todo) = {}
        /\ d.ok \subseteq d.tried
    BY <2>3, <2>4, <2>5
  <2>7. IsFiniteSet(d.ok) /\ k = Cardinality(d.ok)
    <3>1. s \notin c.ok
      BY <2>3, <2>4
    <3>2. IsFiniteSet(c.ok \cup {s}) /\ Cardinality(c.ok \cup {s}) = Cardinality(c.ok) + 1
      BY <2>3, <3>1, FS_AddElement
    <3>. QED
      BY <2>3, <2>5, <3>2
  <2>. HIDE DEF k
  <2>8. Underway(d, k) \/ Answered(d, k)
    <3>1. CASE c.mode = "first" /\ r = "success"
      <4>1. d.ok = {s}
        BY <2>3, <2>5, <3>1
      <4>2. k = 1
        BY <2>7, <4>1, FS_Singleton
      <4>3. d.mode = "none" /\ d.outcome = "success"
        BY <2>5, <3>1
      <4>. QED
        BY <4>2, <4>3 DEF Answered
    <3>2. CASE ~(c.mode = "first" /\ r = "success") /\ Len(c.todo) = 1
      <4>1. d.mode = "none" /\ d.outcome = IF c.mode = "first" THEN "error" ELSE "results"
        BY <2>5, <3>2
      <4>2. ToSet(d.todo) = {}
        BY <2>4, <2>5, <3>2 DEF ToSet
      <4>3. c.mode = "first" => k = 0
        BY <2>3, <2>5, <2>7, <3>2, FS_EmptySet
      <4>. QED
        BY <2>3, <2>6, <2>7, <4>1, <4>2, <4>3 DEF Answered
    <3>3. CASE ~(c.mode = "first" /\ r = "success") /\ Len(c.todo) # 1
      <4>1. d.mode = c.mode /\ d.outcome = "open" /\ (c.mode = "first" => d.ok = {})
        BY <2>3, <2>5, <3>3
      <4>2. Tail(c.todo) # <<>>
        <5>1. Len(Tail(c.todo)) = Len(c.todo) - 1 /\ Len(c.todo) >= 1 /\ Len(c.todo) # 1
          BY <2>4, <3>3
        <5>2. Len(c.todo) \in Nat
          BY <2>3
        <5>3. Len(Tail(c.todo)) # 0
          BY <5>1, <5>2
        <5>4. Len(<<>>) = 0
          OBVIOUS
        <5>. QED
          BY <5>3, <5>4
      <4>. QED
        BY <2>3, <2>4, <2>5, <2>6, <2>7, <4>1, <4>2 DEF Underway
    <3>. QED
      BY <3>1, <3>2, <3>3
  <2>. QED
    BY <1>a, <2>1, <2>8 DEF NotifyIInv
<1>4. CASE UNCHANGED notifyVars
  BY <1>4 DEF notifyVars, NotifyIInv
<1>. QED
  BY <1>1, <1>2, <1>3, <1>4 DEF NotifyNext

\* For any senders, channels and callers: what Send and SendToAll answer is what
\* happened to the message.
THEOREM SendTellsTheTruthTheorem == NotifySpec => []SendTellsTheTruth
<1>1. NotifyIInv => SendTellsTheTruth
  BY DEF NotifyIInv, SendTellsTheTruth, Underway, Answered
<1>. QED
  BY <1>1, NotifyInitIInv, NotifyNextIInv, PTL DEF NotifySpec
=============================================================================
