--------------------------- MODULE GoodserCatalog ---------------------------
(***************************************************************************)
(* Product rows and sequence numbers of one zone of one inventory:         *)
(* AllocateSeq, CreateProduct, InboundSingle, InboundBatch, DeleteProduct. *)
(* The product code is <<sequence number, status code>>.  Some reads and   *)
(* writes of these operations run on the connection pool although their    *)
(* request holds a transaction, so they take a second connection and do    *)
(* not see the transaction's own rows.                                     *)
(***************************************************************************)
EXTENDS Integers, Sequences, FiniteSets, FiniteSetsExt

CONSTANTS
  Workers,      \* concurrent HTTP requests
  MaxSeq,       \* bound: sequence numbers the counter may reach
  MaxRows,      \* bound: product rows ever inserted
  MaxReceived,  \* bound: no inbound of a code that has received so many units
  MaxHeld,      \* bound: clients that got the same number
  MaxSpoiled,   \* bound: no further commit is lost once so many numbers are spoiled
  MaxConns,     \* SetMaxOpenConns of the pool
  Statuses,     \* status codes
  Batches,      \* item lists of inbound requests, each item [seq, status, qty]
  NoQty,        \* "quantity" missing from a request
  Faults        \* failures that may happen: "abort", "lostCommit"

Seqs == 1 .. MaxSeq
Rows == 1 .. MaxRows
Codes == Seqs \X Statuses
Items == [seq : Seqs, status : Statuses, qty : Nat \cup {NoQty}]

ASSUME CatalogAssumption ==
  /\ {MaxSeq, MaxRows, MaxReceived, MaxHeld, MaxSpoiled} \subseteq Nat /\ MaxConns \in Nat \ {0}
  /\ IsFiniteSet(Workers)
  /\ Batches \subseteq Seq(Items)
  /\ Faults \subseteq {"abort", "lostCommit"}

VARIABLES
  rows,      \* products; state: "none" (not inserted yet), "here", "deleted"
  counter,   \* seq_counters.current_max
  recycled,  \* recycled_seq_numbers: number of rows with that seq_number
  held,      \* numbers a client got from AllocateSeq and has not used yet
  req,       \* the request of every worker
  free,      \* connections left in the pool
  received,  \* history: units of the inbounds reported as done, per code
  spoiled,   \* history: numbers hit by a lost commit, a delete that failed half
             \* way, or a write to a row that was deleted since it was read
  doubled    \* history: numbers of rows inserted though no client held them

catalogVars == <<rows, counter, recycled, held, req, free, received, spoiled, doubled>>
histories == <<received, spoiled, doubled>>

NoRow == [state |-> "none", seq |-> 0, status |-> "", qty |-> 0]

\* at: next statement; todo: inbound items; found: row FindProductByCode
\* returned (0: sql.ErrNoRows), base: its quantity then; new: rows the
\* transaction inserted; adds: its uncommitted additions; got: units it received;
\* row, seq: the product to delete.
Idle == [at |-> "idle", todo |-> <<>>, found |-> 0, base |-> 0,
         new |-> [r \in Rows |-> NoRow], adds |-> [r \in Rows |-> 0],
         got |-> [c \in Codes |-> 0], row |-> 0, seq |-> 0]

\* Requests inside a transaction hold a connection.
InTx(q) == q.at \in {"find", "write", "commit", "deleteRow", "recycle"}

\* Ids no row has, not committed and not in a transaction either.  A new row
\* takes the smallest, as one UUID is as good as another.
Unused == {r \in Rows : rows[r] = NoRow /\ \A w \in Workers : req[w].new[r] = NoRow}
FirstUnused == Min(Unused)

CatalogInit ==
  /\ rows = [r \in Rows |-> NoRow]
  /\ counter = 0
  /\ recycled = [s \in Seqs |-> 0]
  /\ held = [s \in Seqs |-> 0]
  /\ req = [w \in Workers |-> Idle]
  /\ free = MaxConns
  /\ received = [c \in Codes |-> 0]
  /\ spoiled = {} /\ doubled = {}

-----------------------------------------------------------------------------
(* AllocateSeq and CreateProduct.  The row locks of SELECT ... FOR UPDATE   *)
(* and of the counter's UPDATE make each of them one step for the others.   *)

InPool == {s \in Seqs : recycled[s] > 0}

\* PopRecycledSeq, or IncrementSeqCounter if it found nothing.
NextSeq == IF InPool # {} THEN Min(InPool) ELSE counter + 1

\* Mutated TakeSeq: the recycled number stays in the pool.
TakeSeqKeepsPool(s) ==
  /\ UNCHANGED recycled
  /\ counter' = IF InPool = {} THEN counter + 1 ELSE counter

\* PopRecycledSeq deletes every pool row with the number it read.
TakeSeq(s) ==
  /\ recycled' = [recycled EXCEPT ![s] = 0]
  /\ counter' = IF InPool = {} THEN counter + 1 ELSE counter

AllocateSeq ==
  /\ free > 0
  /\ NextSeq <= MaxSeq /\ held[NextSeq] < MaxHeld
  /\ TakeSeq(NextSeq)
  /\ held' = [held EXCEPT ![NextSeq] = @ + 1]
  /\ UNCHANGED <<rows, req, free, histories>>

\* PopRecycledSeq returns another error than sql.ErrNoRows, which is taken for an
\* empty pool.
AllocateFromCounter ==
  /\ "abort" \in Faults
  /\ free > 0
  /\ InPool # {}
  /\ counter < MaxSeq /\ held[counter + 1] < MaxHeld
  /\ counter' = counter + 1
  /\ held' = [held EXCEPT ![counter + 1] = @ + 1]
  /\ UNCHANGED <<rows, recycled, req, free, histories>>

CommitFails == "lostCommit" \in Faults /\ Cardinality(spoiled) < MaxSpoiled

\* The client gets the number although tx.Commit() failed.
AllocateLostCommit ==
  /\ CommitFails
  /\ free > 0
  /\ NextSeq <= MaxSeq /\ held[NextSeq] < MaxHeld
  /\ held' = [held EXCEPT ![NextSeq] = @ + 1]
  /\ spoiled' = spoiled \cup {NextSeq}
  /\ UNCHANGED <<rows, counter, recycled, req, free, received, doubled>>

\* handler.go: "createProduct: first get the number through allocateSeq".  The
\* product is returned also when tx.Commit() fails.
CreateProduct(s, st) ==
  /\ free > 0 /\ Unused # {}
  /\ held[s] > 0
  /\ held' = [held EXCEPT ![s] = @ - 1]
  /\ \/ /\ rows' = [rows EXCEPT ![FirstUnused] =
                          [state |-> "here", seq |-> s, status |-> st, qty |-> 0]]
        /\ UNCHANGED spoiled
     \/ /\ CommitFails
        /\ spoiled' = spoiled \cup {s}
        /\ UNCHANGED rows
  /\ UNCHANGED <<counter, recycled, req, free, received, doubled>>

-----------------------------------------------------------------------------
(* InboundSingle (a list of one item) and InboundBatch. *)

\* BeginTx.  The client uses numbers it holds or that its products carry.
BeginInbound(w, items) ==
  /\ req[w] = Idle
  /\ free > 0
  /\ \A i \in DOMAIN items :
       /\ \/ held[items[i].seq] > 0
          \/ \E r \in Rows : rows[r].state = "here" /\ rows[r].seq = items[i].seq
       /\ received[<<items[i].seq, items[i].status>>] < MaxReceived
  /\ free' = free - 1
  /\ req' = [req EXCEPT ![w] = [Idle EXCEPT !.at = "find", !.todo = items]]
  /\ UNCHANGED <<rows, counter, recycled, held, histories>>

Matching(item) ==
  {r \in Rows : rows[r].state = "here" /\ rows[r].seq = item.seq /\ rows[r].status = item.status}

\* FindProductByCode on the pool: a second connection, and committed rows only.
FindProductByCode(w) ==
  LET item == Head(req[w].todo)
  IN /\ req[w].at = "find" /\ req[w].todo # <<>>
     /\ free > 0
     /\ \/ /\ Matching(item) = {}
           /\ req' = [req EXCEPT ![w].at = "write", ![w].found = 0, ![w].base = 0]
        \/ \E r \in Matching(item) :
             req' = [req EXCEPT ![w].at = "write", ![w].found = r, ![w].base = rows[r].qty]
     /\ UNCHANGED <<rows, counter, recycled, held, free, histories>>

\* Rows that another transaction has updated and not committed.
Locked(w, r) == \E v \in Workers \ {w} : req[v].adds[r] # 0

\* CreateProductTx for a new code (a missing quantity counts 0), otherwise
\* AddProductQuantityTx (a missing quantity counts 1); a row deleted since the
\* read takes no UPDATE and that is no error.
WriteItem(w) ==
  LET q == req[w]
      item == Head(q.todo)
      code == <<item.seq, item.status>>
      f == q.found
      qty == IF item.qty # NoQty THEN item.qty ELSE IF f = 0 THEN 0 ELSE 1
      row == [state |-> "here", seq |-> item.seq, status |-> item.status, qty |-> qty]
  IN /\ q.at = "write"
     /\ IF f = 0 THEN Unused # {} ELSE ~Locked(w, f)
     /\ req' = [req EXCEPT ![w] = [q EXCEPT
          !.at = IF Len(q.todo) = 1 THEN "commit" ELSE "find",
          !.todo = Tail(q.todo),
          !.new = IF f = 0 THEN [q.new EXCEPT ![FirstUnused] = row] ELSE q.new,
          !.adds = IF f # 0 /\ rows[f].state = "here"
                   THEN [q.adds EXCEPT ![f] = q.adds[f] + qty] ELSE q.adds,
          !.got = [q.got EXCEPT ![code] = q.got[code] + qty]]]
     /\ spoiled' = IF f # 0 /\ rows[f].state # "here" THEN spoiled \cup {item.seq} ELSE spoiled
     /\ UNCHANGED <<rows, counter, recycled, held, free, received, doubled>>

\* Mutated AfterCommit: the quantity is computed from the value read before.
AfterCommitStale(w) ==
  [r \in Rows |-> IF req[w].new[r] # NoRow THEN req[w].new[r]
                  ELSE IF req[w].adds[r] # 0
                  THEN [rows[r] EXCEPT !.qty = req[w].base + req[w].adds[r]] ELSE rows[r]]

\* The rows after w's transaction.
AfterCommit(w) ==
  [r \in Rows |-> IF req[w].new[r] # NoRow THEN req[w].new[r]
                  ELSE [rows[r] EXCEPT !.qty = @ + req[w].adds[r]]]

Inserted(w, s) == Cardinality({r \in Rows : req[w].new[r].seq = s})

\* CreateInboundLogItemTx and tx.Commit(): the client is told that its goods are
\* in, and has used the numbers of the new rows, whether or not the commit works.
CommitInbound(w) ==
  /\ req[w].at = "commit"
  /\ \/ /\ rows' = AfterCommit(w)
        /\ doubled' = doubled \cup {s \in Seqs : Inserted(w, s) > held[s]}
        /\ UNCHANGED spoiled
     \/ /\ CommitFails
        /\ spoiled' = spoiled \cup {s \in Seqs : \/ Inserted(w, s) > 0
                                                 \/ \E st \in Statuses : req[w].got[<<s, st>>] > 0}
        /\ UNCHANGED <<rows, doubled>>
  /\ received' = [c \in Codes |-> received[c] + req[w].got[c]]
  /\ held' = [s \in Seqs |-> IF held[s] > Inserted(w, s) THEN held[s] - Inserted(w, s) ELSE
                             IF Inserted(w, s) > 0 THEN 0 ELSE held[s]]
  /\ req' = [req EXCEPT ![w] = Idle]
  /\ free' = free + 1
  /\ UNCHANGED <<counter, recycled>>

-----------------------------------------------------------------------------
(* DeleteProduct. *)

\* GetProduct.
BeginDelete(w, r) ==
  /\ req[w] = Idle
  /\ free > 0
  /\ rows[r].state = "here"
  /\ req' = [req EXCEPT ![w] = [Idle EXCEPT !.at = "begin", !.row = r, !.seq = rows[r].seq]]
  /\ UNCHANGED <<rows, counter, recycled, held, free, histories>>

\* BeginTx.
BeginTx(w) ==
  /\ req[w].at = "begin"
  /\ free > 0
  /\ free' = free - 1
  /\ req' = [req EXCEPT ![w].at = "deleteRow"]
  /\ UNCHANGED <<rows, counter, recycled, held, histories>>

\* repo.DeleteProduct on the pool: committed at once, on a second connection.
DeleteRow(w) ==
  /\ req[w].at = "deleteRow"
  /\ free > 0
  /\ ~Locked(w, req[w].row)
  /\ rows' = [rows EXCEPT ![req[w].row].state = "deleted"]
  /\ spoiled' = IF rows[req[w].row].state = "here" THEN spoiled ELSE spoiled \cup {req[w].seq}
  /\ req' = [req EXCEPT ![w].at = "recycle"]
  /\ UNCHANGED <<counter, recycled, held, free, received, doubled>>

\* Mutated RecycleSeq: the transaction is neither committed nor rolled back.
RecycleSeqKeepsConn(w) ==
  /\ req[w].at = "recycle"
  /\ recycled' = [recycled EXCEPT ![req[w].seq] = @ + 1]
  /\ req' = [req EXCEPT ![w] = Idle]
  /\ UNCHANGED <<rows, counter, held, free, histories>>

\* AddRecycledSeqTx and tx.Commit(), whose error is ignored.
RecycleSeq(w) ==
  /\ req[w].at = "recycle"
  /\ \/ /\ recycled' = [recycled EXCEPT ![req[w].seq] = @ + 1]
        /\ UNCHANGED spoiled
     \/ /\ CommitFails
        /\ spoiled' = spoiled \cup {req[w].seq}
        /\ UNCHANGED recycled
  /\ req' = [req EXCEPT ![w] = Idle]
  /\ free' = free + 1
  /\ UNCHANGED <<rows, counter, held, received, doubled>>

\* defer tx.Rollback().  What ran on the pool stays: a row that is deleted.
EndRequest(w) ==
  /\ free' = IF InTx(req[w]) THEN free + 1 ELSE free
  /\ req' = [req EXCEPT ![w] = Idle]
  /\ spoiled' = IF req[w].at = "recycle" THEN spoiled \cup {req[w].seq} ELSE spoiled
  /\ UNCHANGED <<rows, counter, recycled, held, received, doubled>>

\* CreateProductTx fails; here, because MaxRows is reached.
InsertFails(w) ==
  /\ req[w].at = "write" /\ req[w].found = 0
  /\ Unused = {}
  /\ EndRequest(w)

\* A statement fails or the request's context ends.
Abort(w) ==
  /\ "abort" \in Faults
  /\ req[w] # Idle
  /\ EndRequest(w)

\* Two batches that update each other's rows: InnoDB rolls one back.
WaitsFor(w) ==
  {v \in Workers \ {w} : /\ req[w].at = "write" /\ req[w].found # 0
                         /\ req[v].adds[req[w].found] # 0}
BreakDeadlock(w) ==
  /\ \E v \in WaitsFor(w) : w \in WaitsFor(v)
  /\ EndRequest(w)

Step(w) ==
  \/ FindProductByCode(w) \/ WriteItem(w) \/ InsertFails(w) \/ CommitInbound(w)
  \/ BeginTx(w) \/ DeleteRow(w) \/ RecycleSeq(w) \/ BreakDeadlock(w)

CatalogNext ==
  \/ AllocateSeq \/ AllocateFromCounter \/ AllocateLostCommit
  \/ \E s \in Seqs, st \in Statuses : CreateProduct(s, st)
  \/ \E w \in Workers :
       \/ \E items \in Batches : BeginInbound(w, items)
       \/ \E r \in Rows : BeginDelete(w, r)
       \/ Step(w) \/ Abort(w)

CatalogSpec == CatalogInit /\ [][CatalogNext]_catalogVars

\* A request that can take its next step does so; a row lock and a pooled
\* connection are handed to their waiters in order.
CatalogFairSpec == CatalogSpec /\ \A w \in Workers : SF_catalogVars(Step(w))

\* The sum of f, as the number of its units.
Total(f) == Cardinality(UNION {{r} \X (1 .. f[r]) : r \in DOMAIN f})

\* What a row has of the code c.
QtyOf(row, c) == IF <<row.seq, row.status>> = c THEN row.qty ELSE 0

\* Units received are units in stock: concurrent inbounds of one code, also of a
\* new one, batches that name a code twice and rolled-back batches lose and
\* invent nothing.  Only a lost commit and an inbound that races with a delete
\* lose units.
NothingReceivedIsLost ==
  \A c \in Codes : c[1] \notin spoiled =>
    received[c] = Total([r \in Rows |-> QtyOf(rows[r], c)])

Live(s) == {r \in Rows : rows[r].state = "here" /\ rows[r].seq = s}
Deleting(s) == {w \in Workers : req[w].at = "recycle" /\ req[w].seq = s}

\* A number the counter has given out is in exactly one place: with a client, on
\* one product, in the pool or on its way there (AllocateSeq "reuses recycled
\* numbers first", DeleteProduct "recycles its number").  Only the histories'
\* cases put it in two, and only a spoiled one is lost.
SeqInOnePlace ==
  \A s \in Seqs \ spoiled :
    LET places == held[s] + Cardinality(Live(s)) + recycled[s] + Cardinality(Deleting(s))
    IN /\ s <= counter => places >= 1
       /\ s \notin doubled => places <= 1

\* Every request is answered as long as the pool has a connection more than
\* there are requests.
EveryRequestEnds == \A w \in Workers : []<>(req[w] = Idle)
=============================================================================
