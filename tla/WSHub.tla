-------------------------------- MODULE WSHub --------------------------------
(***************************************************************************)
(* The WebSocket hub: a table of clients and of rooms under one lock, a    *)
(* read pump and a write pump per connection that both unregister it, and  *)
(* senders that never wait.  BroadcastToRoom ranges over a room's map      *)
(* after it has given the lock back: a write to that map meanwhile is a    *)
(* data race, which the Go runtime may answer by ending the process.       *)
(***************************************************************************)
EXTENDS Integers, FiniteSets

CONSTANTS
  WSClients, SSEClients,   \* connections of each kind
  Rooms, Users,
  UserOf,                  \* UserOf[c]: the user Auth found
  Senders,                 \* goroutines that broadcast
  SendCap,                 \* capacity of a Send channel
  MaxSends

VARIABLES
  clients,      \* clients registered
  rooms,        \* rooms[r]: the members; an empty room is not in the map
  joined,       \* joined[c]: Client.Rooms
  buf,          \* buf[c]: messages in the Send channel
  conn,         \* conn[c]: "none", "open", "broken" (peer gone), "closed"
  rpump, wpump, \* the pumps: "off", "run", "exit", "done"
  handler,      \* a handler is registered for the type "message"
  cast,         \* cast[s]: the broadcast of sender s
  sends,
  fatal         \* the runtime ended the process

hubVars == <<clients, rooms, joined, buf, conn, rpump, wpump, handler, cast, sends, fatal>>

AllClients == WSClients \cup SSEClients
NoCast == [room |-> "none", todo |-> {}]

HubInit ==
  /\ clients = {} /\ rooms = [r \in Rooms |-> {}]
  /\ joined = [c \in AllClients |-> {}] /\ buf = [c \in AllClients |-> 0]
  /\ conn = [c \in AllClients |-> "none"]
  /\ rpump = [c \in AllClients |-> "off"] /\ wpump = rpump
  /\ handler = FALSE /\ cast = [s \in Senders |-> NoCast] /\ sends = 0 /\ fatal = FALSE

\* A room map changes under the lock; a broadcast that ranges over it may see
\* the change, miss it, or bring the process down.
Ranged(r) == \E s \in Senders : cast[s].room = r

WriteRooms(new) ==
  LET touched == {r \in Rooms : new[r] # rooms[r] /\ Ranged(r)} IN
  /\ rooms' = new
  /\ \/ fatal' = FALSE
     \/ touched # {} /\ fatal' = TRUE
  /\ \E see \in SUBSET touched :
       cast' = [s \in Senders |->
         IF cast[s].room \notin see THEN cast[s]
         ELSE LET r == cast[s].room IN
              [cast[s] EXCEPT !.todo = (@ \cap new[r]) \cup (new[r] \ rooms[r])]]

\* Upgrade: authenticate, register, start both pumps.
Upgrade(c) ==
  /\ ~fatal /\ c \in WSClients /\ conn[c] = "none"
  /\ clients' = clients \cup {c} /\ conn' = [conn EXCEPT ![c] = "open"]
  /\ rpump' = [rpump EXCEPT ![c] = "run"] /\ wpump' = [wpump EXCEPT ![c] = "run"]
  /\ UNCHANGED <<rooms, joined, buf, handler, cast, sends, fatal>>

\* SSEHandler puts its client into the table itself; it has no pumps and no rooms.
SSEConnect(c) ==
  /\ ~fatal /\ c \in SSEClients /\ conn[c] = "none"
  /\ clients' = clients \cup {c} /\ conn' = [conn EXCEPT ![c] = "open"]
  /\ UNCHANGED <<rooms, joined, buf, rpump, wpump, handler, cast, sends, fatal>>

SSEWrite(c) ==
  /\ ~fatal /\ c \in SSEClients /\ conn[c] \in {"open", "broken"} /\ buf[c] > 0
  /\ buf' = [buf EXCEPT ![c] = @ - 1]
  /\ UNCHANGED <<clients, rooms, joined, conn, rpump, wpump, handler, cast, sends, fatal>>

\* The request's context is done: the deferred delete.
SSELeave(c) ==
  /\ ~fatal /\ c \in SSEClients /\ conn[c] = "broken"
  /\ clients' = clients \ {c} /\ conn' = [conn EXCEPT ![c] = "closed"]
  /\ UNCHANGED <<rooms, joined, buf, rpump, wpump, handler, cast, sends, fatal>>

HandleMessageType ==
  /\ ~fatal /\ ~handler /\ handler' = TRUE
  /\ UNCHANGED <<clients, rooms, joined, buf, conn, rpump, wpump, cast, sends, fatal>>

Reads(c) == ~fatal /\ rpump[c] = "run" /\ conn[c] = "open" /\ handler

\* The read pump has a message and its handler joins a room.
JoinRoom(c, r) ==
  /\ Reads(c) /\ r \notin joined[c]
  /\ WriteRooms([rooms EXCEPT ![r] = @ \cup {c}])
  /\ joined' = [joined EXCEPT ![c] = @ \cup {r}]
  /\ UNCHANGED <<clients, buf, conn, rpump, wpump, handler, sends>>

\* A message already read is handled although the connection is gone and the
\* write pump may have unregistered the client meanwhile.
JoinRoomLate(c, r) ==
  /\ ~fatal /\ rpump[c] = "run" /\ conn[c] # "open" /\ handler /\ r \notin joined[c]
  /\ WriteRooms([rooms EXCEPT ![r] = @ \cup {c}])
  /\ joined' = [joined EXCEPT ![c] = @ \cup {r}]
  /\ rpump' = [rpump EXCEPT ![c] = "exit"]
  /\ UNCHANGED <<clients, buf, conn, wpump, handler, sends>>

LeaveRoom(c, r) ==
  /\ Reads(c) /\ r \in joined[c]
  /\ WriteRooms([rooms EXCEPT ![r] = @ \ {c}])
  /\ joined' = [joined EXCEPT ![c] = @ \ {r}]
  /\ UNCHANGED <<clients, buf, conn, rpump, wpump, handler, sends>>

\* The peer goes away without a word.
Break(c) ==
  /\ conn[c] = "open" /\ conn' = [conn EXCEPT ![c] = "broken"]
  /\ UNCHANGED <<clients, rooms, joined, buf, rpump, wpump, handler, cast, sends, fatal>>

\* ReadMessage fails: closed here, or no pong within the deadline.
ConnReadFails(c) ==
  /\ ~fatal /\ rpump[c] = "run" /\ conn[c] \in {"broken", "closed"}
  /\ rpump' = [rpump EXCEPT ![c] = "exit"]
  /\ UNCHANGED <<clients, rooms, joined, buf, conn, wpump, handler, cast, sends, fatal>>

\* WriteMessage: a broken connection may take a few writes before it fails.
WriteMessage(c) ==
  /\ ~fatal /\ wpump[c] = "run" /\ buf[c] > 0
  /\ buf' = [buf EXCEPT ![c] = @ - 1]
  /\ \/ conn[c] # "closed" /\ UNCHANGED wpump
     \/ conn[c] # "open" /\ wpump' = [wpump EXCEPT ![c] = "exit"]
  /\ UNCHANGED <<clients, rooms, joined, conn, rpump, handler, cast, sends, fatal>>

\* The ping every 30 s ends the write pump of a connection that is gone.
PingFails(c) ==
  /\ ~fatal /\ wpump[c] = "run" /\ conn[c] \in {"broken", "closed"}
  /\ wpump' = [wpump EXCEPT ![c] = "exit"]
  /\ UNCHANGED <<clients, rooms, joined, buf, conn, rpump, handler, cast, sends, fatal>>

\* Mutated Unregister: a client that is not in the table needs no more.
UnregisterOnce(c) ==
  /\ clients' = clients \ {c} /\ conn' = [conn EXCEPT ![c] = "closed"]
  /\ IF c \in clients
     THEN WriteRooms([r \in Rooms |-> rooms[r] \ (IF r \in joined[c] THEN {c} ELSE {})])
     ELSE UNCHANGED <<rooms, cast, fatal>>
  /\ UNCHANGED <<joined, buf, handler, sends>>

\* Out of the table and out of the rooms Client.Rooms names, which it keeps;
\* the connection is closed, the Send channel is not.
Unregister(c) ==
  /\ clients' = clients \ {c} /\ conn' = [conn EXCEPT ![c] = "closed"]
  /\ WriteRooms([r \in Rooms |-> rooms[r] \ (IF r \in joined[c] THEN {c} ELSE {})])
  /\ UNCHANGED <<joined, buf, handler, sends>>

\* The deferred Unregister of each pump.
ReadPumpEnds(c) ==
  /\ ~fatal /\ rpump[c] = "exit" /\ rpump' = [rpump EXCEPT ![c] = "done"]
  /\ Unregister(c) /\ UNCHANGED wpump

WritePumpEnds(c) ==
  /\ ~fatal /\ wpump[c] = "exit" /\ wpump' = [wpump EXCEPT ![c] = "done"]
  /\ Unregister(c) /\ UNCHANGED rpump

\* A full channel loses the message; nobody waits.
Offer(to) == buf' = [c \in AllClients |-> IF c \in to /\ buf[c] < SendCap THEN buf[c] + 1 ELSE buf[c]]

\* BroadcastAll and SendToUser send under the read lock.
BroadcastAll ==
  /\ ~fatal /\ sends < MaxSends /\ sends' = sends + 1 /\ Offer(clients)
  /\ UNCHANGED <<clients, rooms, joined, conn, rpump, wpump, handler, cast, fatal>>

SendToUser(u) ==
  /\ ~fatal /\ sends < MaxSends /\ sends' = sends + 1
  /\ Offer({c \in clients \cap WSClients : UserOf[c] = u})
  /\ UNCHANGED <<clients, rooms, joined, conn, rpump, wpump, handler, cast, fatal>>

\* BroadcastToRoom takes the room's map, SendToClient the client, then unlocks.
BroadcastToRoom(s, r) ==
  /\ ~fatal /\ cast[s] = NoCast /\ rooms[r] # {} /\ sends < MaxSends /\ sends' = sends + 1
  /\ cast' = [cast EXCEPT ![s] = [room |-> r, todo |-> rooms[r]]]
  /\ UNCHANGED <<clients, rooms, joined, buf, conn, rpump, wpump, handler, fatal>>

SendToClient(s, c) ==
  /\ ~fatal /\ cast[s] = NoCast /\ c \in clients /\ sends < MaxSends /\ sends' = sends + 1
  /\ cast' = [cast EXCEPT ![s] = [room |-> "client", todo |-> {c}]]
  /\ UNCHANGED <<clients, rooms, joined, buf, conn, rpump, wpump, handler, fatal>>

SendOne(s, c) ==
  /\ ~fatal /\ c \in cast[s].todo /\ Offer({c})
  /\ cast' = [cast EXCEPT ![s].todo = @ \ {c}]
  /\ UNCHANGED <<clients, rooms, joined, conn, rpump, wpump, handler, sends, fatal>>

CastEnds(s) ==
  /\ ~fatal /\ cast[s] # NoCast /\ cast[s].todo = {}
  /\ cast' = [cast EXCEPT ![s] = NoCast]
  /\ UNCHANGED <<clients, rooms, joined, buf, conn, rpump, wpump, handler, sends, fatal>>

HubPump(c) == ConnReadFails(c) \/ WriteMessage(c) \/ PingFails(c) \/ ReadPumpEnds(c)
              \/ WritePumpEnds(c) \/ SSEWrite(c) \/ SSELeave(c)

HubNext ==
  \/ HandleMessageType \/ BroadcastAll \/ \E u \in Users : SendToUser(u)
  \/ \E c \in AllClients :
       \/ Upgrade(c) \/ SSEConnect(c) \/ Break(c) \/ HubPump(c)
       \/ \E r \in Rooms : JoinRoom(c, r) \/ JoinRoomLate(c, r) \/ LeaveRoom(c, r)
  \/ \E s \in Senders : \/ \E r \in Rooms : BroadcastToRoom(s, r)
                        \/ \E c \in AllClients : SendToClient(s, c) \/ SendOne(s, c)
                        \/ CastEnds(s)

HubSpec == HubInit /\ [][HubNext]_hubVars

-----------------------------------------------------------------------------
\* When the read pump is through, the client is in neither table, even if the
\* write pump unregistered it first and its handler joined a room in between; as
\* long as it is in the one, it is in its rooms and in no other.
GoneIsForgotten ==
  /\ \A c \in WSClients : rpump[c] = "done" => c \notin clients /\ \A r \in Rooms : c \notin rooms[r]
  /\ \A c \in AllClients, r \in Rooms :
       /\ c \in rooms[r] => r \in joined[c]
       /\ c \in clients /\ r \in joined[c] => c \in rooms[r]
=============================================================================
