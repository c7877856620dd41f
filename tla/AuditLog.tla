------------------------------ MODULE AuditLog ------------------------------
(***************************************************************************)
(* audit.Service over its two stores.  MemoryStore keeps the entries in    *)
(* order and an inverted index per field, which Query intersects;          *)
(* MySQLStore leaves that to the database, newest entry first.             *)
(***************************************************************************)
EXTENDS Integers, Sequences, SequencesExt, FiniteSets, FiniteSetsExt, Sorting

CONSTANTS Actions, AuditUsers, MaxEntries

Statuses == {"success", "failure"}
None == ""          \* a field that is empty, in an entry or in a filter

ASSUME AuditAssumption == MaxEntries \in Nat \ {0} /\ None \notin Actions \cup AuditUsers

VARIABLES
  log,              \* MemoryStore.log: entries [id, action, user, status, at]
  nextID,
  auditIndex,       \* index[f][v]: the ids of the entries whose field f is v
  auditRows,        \* the table of MySQLStore
  storeShut         \* MemoryStore is closed: the indexes are nil maps

auditVars == <<log, nextID, auditIndex, auditRows, storeShut>>

Fields == {"action", "user", "status"}
Value(e, f) == CASE f = "action" -> e.action [] f = "user" -> e.user [] f = "status" -> e.status
Values == [action |-> Actions, user |-> AuditUsers, status |-> Statuses]

EmptyIndex == [f \in Fields |-> [v \in Values[f] |-> {}]]

AuditInit == log = <<>> /\ nextID = 0 /\ auditIndex = EmptyIndex /\ auditRows = <<>> /\ storeShut = FALSE

\* Mutated indexAdd: the number of entries instead of the id.
IndexPosition(idx, e) ==
  [f \in Fields |-> [v \in Values[f] |->
     IF Value(e, f) = v THEN idx[f][v] \cup {Len(log)} ELSE idx[f][v]]]

\* indexAdd: an empty field is not indexed.
indexAdd(idx, e) ==
  [f \in Fields |-> [v \in Values[f] |->
     IF Value(e, f) = v THEN idx[f][v] \cup {e.id} ELSE idx[f][v]]]

\* Record, RecordLogin ... RecordFailure: Append to the store in use.  After Close
\* the entry is in the log when the index, a nil map, panics.
RecordEntry(a, u, s) ==
  /\ nextID < MaxEntries
  /\ LET e == [id |-> nextID + 1, action |-> a, user |-> u, status |-> s, at |-> nextID + 1] IN
     /\ nextID' = e.id
     /\ log' = Append(log, e)
     /\ auditIndex' = IF storeShut THEN auditIndex ELSE indexAdd(auditIndex, e)
     /\ auditRows' = Append(auditRows, e)
  /\ UNCHANGED storeShut

CloseStore ==
  /\ ~storeShut /\ storeShut' = TRUE /\ log' = <<>> /\ auditIndex' = EmptyIndex
  /\ UNCHANGED <<nextID, auditRows>>

AuditNext ==
  \/ \E a \in Actions, u \in AuditUsers \cup {None}, s \in Statuses : RecordEntry(a, u, s)
  \/ CloseStore

AuditSpec == AuditInit /\ [][AuditNext]_auditVars

-----------------------------------------------------------------------------
(* Query                                                                   *)

Filters ==
  [action : Actions \cup {None}, user : AuditUsers \cup {None}, status : Statuses \cup {None},
   from : 0..1, until : {0, MaxEntries - 1}, offset : 0..2, limit : 0..1]

FilterOn(f) == [action |-> f.action, user |-> f.user, status |-> f.status]
Asked(f) == {x \in Fields : FilterOn(f)[x] # None}

\* matchTime: a zero time does not restrict.
matchTime(e, f) == (f.from # 0 => e.at >= f.from) /\ (f.until # 0 => e.at <= f.until)

\* The entry e is what the filter asks for.
Fits(e, f) == matchTime(e, f) /\ \A x \in Asked(f) : Value(e, x) = FilterOn(f)[x]

\* intersectSets
intersectSets(f) == {i \in 1..nextID : \A x \in Asked(f) : i \in auditIndex[x][FilterOn(f)[x]]}

\* Offset and Limit: an offset past the end is ignored.
Paged(s, f) ==
  LET from == IF f.offset > 0 /\ f.offset < Len(s) THEN SubSeq(s, f.offset + 1, Len(s)) ELSE s
  IN IF f.limit > 0 /\ f.limit < Len(from) THEN SubSeq(from, 1, f.limit) ELSE from

\* MemoryStore.Query: a value without entries answers at once, no filter scans all.
MemoryQuery(f) ==
  IF \E x \in Asked(f) : auditIndex[x][FilterOn(f)[x]] = {} THEN <<>>
  ELSE LET hits == intersectSets(f) IN
       Paged(ElementsAt(log, {i \in DOMAIN log : /\ Asked(f) # {} => log[i].id \in hits
                                                 /\ matchTime(log[i], f)}), f)

\* An OFFSET without a LIMIT is no SQL.
MySQLRefuses(f) == f.offset > 0 /\ f.limit = 0

\* MySQLStore.Query: ORDER BY id DESC.
MySQLQuery(f) ==
  LET hits == Reverse(ElementsAt(auditRows, {i \in DOMAIN auditRows : Fits(auditRows[i], f)}))
      last == IF f.limit = 0 THEN Len(hits) ELSE Min({f.offset + f.limit, Len(hits)})
  IN SubSeq(hits, f.offset + 1, last)

\* The entries a filter asks for.
Matching(f) == {e \in ToSet(auditRows) : Fits(e, f)}

\* Until the store is closed both answer every filter with entries it asks for,
\* the memory store with all of them in order when no page is asked for, MySQL
\* with the same in reverse.  Only an offset past the last match, which the
\* memory store ignores, and an offset without a limit, which MySQL refuses, set
\* them apart.
QueriesAgree ==
  ~storeShut /\ auditRows # <<>> => \A f \in Filters :
    LET mem == MemoryQuery(f)  sql == MySQLQuery(f) IN
    /\ ToSet(mem) \subseteq Matching(f)
    /\ f.offset = 0 /\ f.limit = 0 => ToSet(mem) = Matching(f) /\ sql = Reverse(mem)
    /\ ~MySQLRefuses(f) /\ f.offset < Cardinality(Matching(f)) => Len(mem) = Len(sql)
=============================================================================
