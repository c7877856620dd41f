---------------------------- MODULE GoodserAdmin ----------------------------
(***************************************************************************)
(* The tables goodser's administrators edit: inventories, tags, status     *)
(* codes and inbound logs.  Create and Delete are one statement.  Update   *)
(* reads the row, fills in the columns the request names and writes back   *)
(* every editable column, without a transaction: two statements (three for *)
(* an inventory, which the service looks up first) between which other     *)
(* requests run.  Init creates the tables and seeds the preset codes.      *)
(* A row has two columns: "key" (name, name, code, type) and "val" (sort   *)
(* order, colour, label, remark and items).                                *)
(***************************************************************************)
EXTENDS Integers, FiniteSets, Functions

CONSTANTS
  Admins,         \* clients, each with at most one request under way
  RowIds,         \* what uuid.New returns
  Preset,         \* the ids sys-a ... of the seeded status codes
  Columns,        \* the values a column takes
  CodeOf,         \* CodeOf[s]: the code of preset s
  NoRow,
  MaxRequests, MaxStarts, MaxDbErrors

VARIABLES
  adminRows,      \* adminRows[t][id]: the row or NoRow
  request,        \* request[c]: the request of c, and what it has read
  tableReady,     \* Init has finished
  received, starts, dbErrors,
  issued,         \* issued[t]: ids given out so far
  asked,          \* history: the rows as the accepted requests name them
  overwritten     \* history: rows an Update wrote that had changed since it read them

adminVars == <<adminRows, request, tableReady, received, starts, dbErrors,
               issued, asked, overwritten>>

AdminIds == RowIds \cup Preset

Row == [key: Columns, val: Columns]

ASSUME AdminAssumption == CodeOf \in [Preset -> Columns] /\ NoRow \notin Row

Idle == [op |-> "idle"]

\* What the repository's functions of a table do: the columns a request may
\* name, the ones UPDATE writes, the one with a UNIQUE INDEX, and the lookups
\* that precede the UPDATE (UpdateInventory: the service's and its own).
Inventories ==
  [edits |-> {"key"}, writes |-> {"key"}, unique |-> {}, lookups |-> 2]

Tags ==
  [edits |-> {"key", "val"}, writes |-> {"key", "val"}, unique |-> {"key"},
   lookups |-> 1]

StatusCodes ==
  [edits |-> {"val"}, writes |-> {"val"}, unique |-> {"key"}, lookups |-> 1]

InboundLogs ==
  [edits |-> {"key", "val"}, writes |-> {"key", "val"}, unique |-> {},
   lookups |-> 1]

Table ==
  [inventories |-> Inventories, tags |-> Tags, codes |-> StatusCodes,
   logs |-> InboundLogs]

Tables == DOMAIN Table

Present(t) == {id \in AdminIds : adminRows[t][id] # NoRow}

\* The unique index: no other row of the table has this key.
KeyIsFree(t, id, row) ==
  "key" \in Table[t].unique =>
    \A another \in Present(t) \ {id} : adminRows[t][another].key # row.key

PutRow(all, t, id, row) == [all EXCEPT ![t][id] = row]

AdminInit ==
  /\ adminRows = [t \in Tables |-> [id \in AdminIds |-> NoRow]]
  /\ request = [c \in Admins |-> Idle]
  /\ tableReady = FALSE /\ received = 0 /\ starts = 0 /\ dbErrors = 0
  /\ issued = [t \in Tables |-> {}]
  /\ asked = [t \in Tables |-> [id \in AdminIds |-> NoRow]]
  /\ overwritten = {}

Seeded(s) == [key |-> CodeOf[s], val |-> CodeOf[s]]

\* INSERT IGNORE: a preset whose id or code exists already is skipped.
Missing ==
  {s \in Preset : adminRows["codes"][s] = NoRow /\ KeyIsFree("codes", s, Seeded(s))}

\* Init after a start of the process: CREATE TABLE IF NOT EXISTS, then the seed.
InitTables ==
  /\ ~tableReady /\ starts < MaxStarts
  /\ starts' = starts + 1
  /\ tableReady' = TRUE
  /\ adminRows' = [adminRows EXCEPT !["codes"] =
       [id \in AdminIds |-> IF id \in Missing THEN Seeded(id) ELSE @[id]]]
  /\ asked' = [asked EXCEPT !["codes"] =
       [id \in AdminIds |-> IF id \in Missing THEN Seeded(id) ELSE @[id]]]
  /\ UNCHANGED <<request, received, dbErrors, issued, overwritten>>

\* The process dies; the requests under way get no answer and go no further.
Crash ==
  /\ tableReady /\ starts < MaxStarts
  /\ tableReady' = FALSE
  /\ request' = [c \in Admins |-> Idle]
  /\ UNCHANGED <<adminRows, received, starts, dbErrors, issued, asked,
                 overwritten>>

Arrives(c) ==
  /\ tableReady /\ request[c] = Idle /\ received < MaxRequests
  /\ received' = received + 1
  /\ UNCHANGED <<tableReady, starts>>

\* INSERT of a new row; a taken key is refused by the index and nothing stays.
Create(c, t) ==
  /\ Arrives(c)
  /\ \E id \in RowIds \ issued[t], row \in Row :
       /\ issued' = [issued EXCEPT ![t] = @ \cup {id}]
       /\ IF KeyIsFree(t, id, row)
          THEN /\ adminRows' = PutRow(adminRows, t, id, row)
               /\ asked' = PutRow(asked, t, id, row)
          ELSE UNCHANGED <<adminRows, asked>>
  /\ UNCHANGED <<request, dbErrors, overwritten>>

\* DELETE of a row, which succeeds whether or not there is one.
Delete(c, t) ==
  /\ Arrives(c)
  /\ \E id \in issued[t] \cup Present(t) :
       /\ adminRows' = PutRow(adminRows, t, id, NoRow)
       /\ asked' = PutRow(asked, t, id, NoRow)
  /\ UNCHANGED <<request, dbErrors, issued, overwritten>>

\* An Update request with the columns it names and the lookups still to do.
Update(c, t) ==
  /\ Arrives(c)
  /\ \E id \in issued[t] \cup Present(t), named \in SUBSET Table[t].edits, row \in Row :
       request' = [request EXCEPT ![c] =
         [op |-> "update", t |-> t, id |-> id, named |-> named, row |-> row,
          lookups |-> Table[t].lookups, read |-> NoRow]]
  /\ UNCHANGED <<adminRows, dbErrors, issued, asked, overwritten>>

CreateInventory(c) == Create(c, "inventories")

UpdateInventory(c) == Update(c, "inventories")

DeleteInventory(c) == Delete(c, "inventories")

CreateTag(c) == Create(c, "tags")

UpdateTag(c) == Update(c, "tags")

DeleteTag(c) == Delete(c, "tags")

AddStatusCode(c) == Create(c, "codes")

UpdateStatusCode(c) == Update(c, "codes")

RemoveStatusCode(c) == Delete(c, "codes")

CreateInboundLog(c) == Create(c, "logs")

UpdateInboundLog(c) == Update(c, "logs")

DeleteInboundLog(c) == Delete(c, "logs")

\* SELECT by id: no row ends the request with "not found".
Lookup(c) ==
  /\ request[c] # Idle /\ request[c].lookups > 0
  /\ LET r == request[c] IN
       request' = [request EXCEPT ![c] =
         IF adminRows[r.t][r.id] = NoRow THEN Idle
         ELSE [r EXCEPT !.lookups = r.lookups - 1, !.read = adminRows[r.t][r.id]]]
  /\ UNCHANGED <<adminRows, tableReady, received, starts, dbErrors, issued,
                 asked, overwritten>>

\* Mutated Merge: a column the request leaves out is written as if it were named.
MergeAll(r, old) == r.row

\* Column k of row old after the request has filled in what it names.
Merge(r, old) ==
  [k \in {"key", "val"} |-> IF k \in r.named THEN r.row[k] ELSE old[k]]

\* UPDATE ... SET <the written columns> WHERE id = ?: the merged row as of the
\* read, the other columns as they are now.  No row: nothing, and no error.
Write(c) ==
  LET r == request[c]
      present == adminRows[r.t][r.id]
      merged == Merge(r, r.read)
      new == [k \in {"key", "val"} |->
                IF k \in Table[r.t].writes THEN merged[k] ELSE present[k]]
  IN /\ r # Idle /\ r.lookups = 0
     /\ request' = [request EXCEPT ![c] = Idle]
     /\ IF present # NoRow /\ KeyIsFree(r.t, r.id, new)
        THEN /\ adminRows' = PutRow(adminRows, r.t, r.id, new)
             /\ asked' = PutRow(asked, r.t, r.id,
                  [k \in {"key", "val"} |->
                     IF k \in r.named THEN r.row[k] ELSE asked[r.t][r.id][k]])
             /\ overwritten' = IF r.read = present THEN overwritten
                             ELSE overwritten \cup {<<r.t, r.id>>}
        ELSE UNCHANGED <<adminRows, asked, overwritten>>
     /\ UNCHANGED <<tableReady, received, starts, dbErrors, issued>>

\* A statement of a request fails: handleError answers, nothing was written.
Fail(c) ==
  /\ request[c] # Idle /\ dbErrors < MaxDbErrors
  /\ dbErrors' = dbErrors + 1
  /\ request' = [request EXCEPT ![c] = Idle]
  /\ UNCHANGED <<adminRows, tableReady, received, starts, issued, asked,
                 overwritten>>

AdminNext ==
  \/ InitTables \/ Crash
  \/ \E c \in Admins :
       \/ CreateInventory(c) \/ UpdateInventory(c) \/ DeleteInventory(c)
       \/ CreateTag(c) \/ UpdateTag(c) \/ DeleteTag(c)
       \/ AddStatusCode(c) \/ UpdateStatusCode(c) \/ RemoveStatusCode(c)
       \/ CreateInboundLog(c) \/ UpdateInboundLog(c) \/ DeleteInboundLog(c)
       \/ Lookup(c) \/ Write(c) \/ Fail(c)

AdminSpec == AdminInit /\ [][AdminNext]_adminVars

-----------------------------------------------------------------------------
\* A row is what the accepted requests made it, column by column, unless an
\* Update wrote it on top of a change that came after its read (UpdateTag,
\* UpdateInboundLog and the others have no transaction and no version check).
EditsAreKept ==
  \A t \in Tables, id \in AdminIds :
    adminRows[t][id] = asked[t][id] \/ <<t, id>> \in overwritten
=============================================================================
