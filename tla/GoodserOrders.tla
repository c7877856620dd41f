--------------------------- MODULE GoodserOrders ---------------------------
(***************************************************************************)
(* The stock and order operations of zzz/goodser/service.go as MySQL runs  *)
(* them: HTTP workers execute transactions statement by statement, InnoDB  *)
(* holds the row locks of SELECT ... FOR UPDATE and UPDATE until the end   *)
(* of the transaction, breaks a lock cycle by rolling one member back, and *)
(* shows uncommitted changes to nobody else.                               *)
(***************************************************************************)
EXTENDS Integers, Sequences, FiniteSets

CONSTANTS
  Workers,       \* concurrent HTTP requests
  Products,      \* product rows
  MaxOrders,     \* bound: order rows that may be inserted
  ItemLists,     \* item lists a request may carry: Seq([product, quantity])
  Kinds,         \* <<type, status>> a creation request may carry
  Ops,           \* operations the clients use
  EditQuantities,\* quantities UpdateProduct may be sent
  InitialStock,  \* quantity of every product before the first request
  MaxStock,      \* largest value the INT column quantity holds
  MaxUnits,      \* bound: units of one product in one item list
  NoOne          \* owner of a free row lock

OrderIds == 1 .. MaxOrders
OpenStatus == {"pending", "reserved"}
OrderOps == {"confirm", "cancel", "cancelReserve", "convert"}
AllOps == OrderOps \cup {"create", "import", "edit", "delete"}

\* Units of product p in an item list: the sum of the quantities of its items, as
\* the number of pairs of an item and one of its units.
UnitsOf(items, p) ==
  UNION {{i} \X (1 .. items[i].quantity) : i \in {j \in DOMAIN items : items[j].product = p}}
Units(items, p) == Cardinality(UnitsOf(items, p))

ASSUME OrdersAssumption ==
  /\ NoOne \notin Workers
  /\ Products \cap OrderIds = {}
  /\ MaxOrders \in Nat /\ MaxStock \in Nat /\ MaxUnits \in Nat
  /\ ItemLists \subseteq Seq([product : Products, quantity : Nat])
  /\ \A items \in ItemLists, p \in Products : Units(items, p) <= MaxUnits
  /\ Kinds \subseteq {"outbound", "reserve"} \X OpenStatus
  /\ Ops \subseteq AllOps
  /\ EditQuantities \subseteq 0 .. MaxStock
  /\ InitialStock \in [Products -> 0 .. MaxStock]

VARIABLES
  product,   \* products table: quantity, reserved_quantity; here = row exists
  orders,    \* outbound_orders table; status "none" is an unused uuid
  lock,      \* owner of every row lock
  tx,        \* the request each worker executes
  raced      \* history: products overwritten by an edit that read before a commit

vars == <<product, orders, lock, tx, raced>>

Zero == [p \in Products |-> 0]
NoOrder == [type |-> "outbound", status |-> "none", items |-> <<>>]

\* A worker without a request.  at: next statement; todo: items still to do;
\* dq, dr: uncommitted changes of quantity and reserved_quantity; order: the
\* order named by the request; kind, items: its body; row: the product it
\* names; copy: UpdateProduct's copy of the row; late: a commit changed the row's
\* reservations after that copy was taken.
Idle == [op |-> "none", at |-> "idle", todo |-> <<>>, dq |-> Zero, dr |-> Zero,
         order |-> 1, kind |-> <<"outbound", "pending">>, items |-> <<>>,
         row |-> NoOne, copy |-> [quantity |-> 0, reserved |-> 0], late |-> FALSE]

Fresh == {o \in OrderIds : orders[o].status = "none"}
Inserting == {w \in Workers : tx[w].op \in {"create", "convert"}}

Init ==
  /\ product = [p \in Products |-> [here |-> TRUE, quantity |-> InitialStock[p], reserved |-> 0]]
  /\ orders = [o \in OrderIds |-> NoOrder]
  /\ lock = [r \in Products \cup OrderIds |-> NoOne]
  /\ tx = [w \in Workers |-> Idle]
  /\ raced = {}

-----------------------------------------------------------------------------
(* Requests arrive. *)

Begin(w, t) ==
  /\ tx[w] = Idle
  /\ t.op \in Ops
  /\ t.op \in {"create", "convert"} => Cardinality(Inserting) < Cardinality(Fresh)
  /\ tx' = [tx EXCEPT ![w] = t]
  /\ UNCHANGED <<product, orders, lock, raced>>

BeginCreate(w, items, kind) ==
  Begin(w, [Idle EXCEPT !.op = "create", !.at = "reserve", !.todo = items,
                        !.items = items, !.kind = kind])

BeginImport(w, items) ==
  Begin(w, [Idle EXCEPT !.op = "import", !.at = "import", !.todo = items])

BeginOrderOp(w, op, o, items) ==
  Begin(w, [Idle EXCEPT !.op = op, !.at = "order", !.order = o,
                        !.items = IF op = "convert" THEN items ELSE <<>>])

-----------------------------------------------------------------------------
(* Transactions. *)

\* Mutated Release: the locks stay with the worker.
ReleaseNothing(w) == lock

Release(w) == [r \in DOMAIN lock |-> IF lock[r] = w THEN NoOne ELSE lock[r]]

\* Mutated Grants: a plain SELECT instead of SELECT ... FOR UPDATE.
GrantsAlways(w, r) == TRUE

\* Row lock r can be granted to w now.
Grants(w, r) == lock[r] \in {w, NoOne}

\* defer tx.Rollback(): the error paths, and a request whose context ends.
Rollback(w) ==
  /\ lock' = Release(w)
  /\ tx' = [tx EXCEPT ![w] = Idle]
  /\ UNCHANGED <<product, orders, raced>>

\* What w sees of product p inside its transaction.
Available(w, p) ==
  product[p].quantity + tx[w].dq[p] - (product[p].reserved + tx[w].dr[p])

\* Row p is locked and changed by (dq, dr) inside w's transaction; the item is done.
ChangeRow(w, p, dq, dr) ==
  /\ lock' = [lock EXCEPT ![p] = w]
  /\ tx' = [tx EXCEPT ![w] = [@ EXCEPT !.dq = [tx[w].dq EXCEPT ![p] = @ + dq],
                                       !.dr = [tx[w].dr EXCEPT ![p] = @ + dr],
                                       !.todo = Tail(tx[w].todo)]]
  /\ UNCHANGED <<product, orders, raced>>

\* Stock check and reservation of the next item (CreateOutboundOrder, and the
\* second half of ReserveToOutbound).
ReserveItem(w) ==
  LET p == Head(tx[w].todo).product
      q == Head(tx[w].todo).quantity
  IN /\ tx[w].at = "reserve" /\ tx[w].todo # <<>>
     /\ Grants(w, p)
     /\ \/ /\ product[p].here
           /\ Available(w, p) >= q
           /\ ChangeRow(w, p, 0, q)
        \/ /\ ~product[p].here \/ Available(w, p) < q
           /\ Rollback(w)

\* InboundSearchImport's next item.  MySQL refuses a value the column cannot hold.
ImportItem(w) ==
  LET p == Head(tx[w].todo).product
      q == Head(tx[w].todo).quantity
  IN /\ tx[w].at = "import" /\ tx[w].todo # <<>>
     /\ Grants(w, p)
     /\ \/ /\ product[p].here
           /\ product[p].quantity + tx[w].dq[p] + q <= MaxStock
           /\ ChangeRow(w, p, q, 0)
        \/ /\ ~product[p].here \/ product[p].quantity + tx[w].dq[p] + q > MaxStock
           /\ Rollback(w)

\* The checks on the type and the status of the locked order.
Accepts(w) ==
  LET o == orders[tx[w].order]
  IN o.status \in OpenStatus /\ (tx[w].op \in {"cancelReserve", "convert"} => o.type = "reserve")

\* GetOutboundOrderForUpdateTx and the checks on what it returns.
LockOrder(w) ==
  LET o == tx[w].order
  IN /\ tx[w].at = "order"
     /\ Grants(w, o)
     /\ \/ /\ Accepts(w)
           /\ lock' = [lock EXCEPT ![o] = w]
           /\ tx' = [tx EXCEPT ![w] = [@ EXCEPT !.at = "settle", !.todo = orders[o].items]]
           /\ UNCHANGED <<product, orders, raced>>
        \/ ~Accepts(w) /\ Rollback(w)

\* UpdateProductReservedTx on the next item of the locked order: confirming takes
\* the goods out, the other operations only give the reservation back.  The
\* UPDATE of a row that was deleted changes nothing and is no error.
SettleItem(w) ==
  LET p == Head(tx[w].todo).product
      q == Head(tx[w].todo).quantity
  IN /\ tx[w].at = "settle" /\ tx[w].todo # <<>>
     /\ Grants(w, p)
     /\ \/ /\ product[p].here
           /\ ChangeRow(w, p, IF tx[w].op = "confirm" THEN 0 - q ELSE 0, 0 - q)
        \/ /\ ~product[p].here
           /\ tx' = [tx EXCEPT ![w] = [@ EXCEPT !.todo = Tail(tx[w].todo)]]
           /\ UNCHANGED <<product, orders, lock, raced>>

\* ReserveToOutbound between its loops: the reserve order is marked confirmed and
\* the new order inserted, both invisible until the commit.
StartNewOrder(w) ==
  /\ tx[w].at = "settle" /\ tx[w].todo = <<>> /\ tx[w].op = "convert"
  /\ tx' = [tx EXCEPT ![w] = [@ EXCEPT !.at = "reserve", !.todo = tx[w].items]]
  /\ UNCHANGED <<product, orders, lock, raced>>

-----------------------------------------------------------------------------
(* The end of a transaction. *)

\* A uuid no order has.
NextId == CHOOSE o \in Fresh : TRUE

\* The row CreateOutboundOrderTx inserts.
NewOrder(w) ==
  IF tx[w].op = "create"
  THEN [type |-> tx[w].kind[1], status |-> tx[w].kind[2], items |-> tx[w].items]
  ELSE [type |-> "outbound", status |-> "pending", items |-> tx[w].items]

Closed(o, status) == [type |-> orders[o].type, status |-> status, items |-> orders[o].items]

\* The orders w's transaction has written.
Written(w) ==
  LET o == tx[w].order
  IN CASE tx[w].op = "create"  -> [orders EXCEPT ![NextId] = NewOrder(w)]
       [] tx[w].op = "confirm" -> [orders EXCEPT ![o] = Closed(o, "confirmed")]
       [] tx[w].op \in {"cancel", "cancelReserve"} -> [orders EXCEPT ![o] = Closed(o, "cancelled")]
       [] tx[w].op = "convert" -> [orders EXCEPT ![o] = Closed(o, "confirmed"), ![NextId] = NewOrder(w)]
       [] OTHER -> orders

Finished(w) ==
  /\ tx[w].at \in {"reserve", "import", "settle"}
  /\ tx[w].todo = <<>>
  /\ ~(tx[w].at = "settle" /\ tx[w].op = "convert")

\* UpdateProduct requests that hold a copy of a row in rows.
MarkLate(txs, rows) ==
  [v \in Workers |-> IF txs[v].at = "write" /\ txs[v].row \in rows
                     THEN [txs[v] EXCEPT !.late = TRUE] ELSE txs[v]]

Commit(w) ==
  /\ Finished(w)
  /\ product' = [p \in Products |->
                   [here |-> product[p].here, quantity |-> product[p].quantity + tx[w].dq[p],
                    reserved |-> product[p].reserved + tx[w].dr[p]]]
  /\ orders' = Written(w)
  /\ lock' = Release(w)
  /\ tx' = MarkLate([tx EXCEPT ![w] = Idle], {p \in Products : tx[w].dr[p] # 0})
  /\ UNCHANGED raced

\* The COMMIT does not reach the server: MySQL rolls back, the client is told
\* that the request succeeded.
LoseCommit(w) ==
  /\ Finished(w)
  /\ lock' = Release(w)
  /\ tx' = [tx EXCEPT ![w] = Idle]
  /\ UNCHANGED <<product, orders, raced>>

\* The request's context ends or a statement fails.
Abort(w) ==
  /\ tx[w].at # "idle"
  /\ Rollback(w)

\* The row whose lock w's next statement needs.
Wants(w) ==
  CASE tx[w].at = "order" -> {tx[w].order}
    [] tx[w].at \in {"reserve", "import", "settle"} /\ tx[w].todo # <<>> -> {Head(tx[w].todo).product}
    [] OTHER -> {}
WaitsFor(w) == {lock[r] : r \in Wants(w)} \ {NoOne, w}

\* InnoDB finds a cycle of waiting transactions and rolls one of them back.
BreakDeadlock(w) ==
  /\ \E S \in SUBSET Workers : /\ w \in S
                               /\ S = UNION {WaitsFor(v) : v \in S}
                               /\ \A v \in S : WaitsFor(v) # {}
  /\ Rollback(w)

-----------------------------------------------------------------------------
(* UpdateProduct and DeleteProduct: no transaction around read and write.  *)

\* Mutated CopyOf: the reserved quantity is left at its zero value.
CopyOfForgetsReserved(p, q) == [quantity |-> q, reserved |-> 0]

\* The copy of row p that will be written, with the request's quantity.
CopyOf(p, q) == [quantity |-> q, reserved |-> product[p].reserved]

\* GetProduct; every field of the request that is present replaces the copy's.
EditRead(w, p, q) ==
  /\ tx[w] = Idle /\ "edit" \in Ops
  /\ product[p].here
  /\ tx' = [tx EXCEPT ![w] = [Idle EXCEPT !.op = "edit", !.at = "write", !.row = p,
                              !.copy = CopyOf(p, q)]]
  /\ UNCHANGED <<product, orders, lock, raced>>

\* UPDATE of all columns from the copy, quantity and reserved_quantity included.
EditWrite(w) ==
  LET p == tx[w].row
  IN /\ tx[w].at = "write"
     /\ Grants(w, p)
     /\ product' = [product EXCEPT ![p] =
                      IF @.here THEN [here |-> TRUE, quantity |-> tx[w].copy.quantity,
                                      reserved |-> tx[w].copy.reserved]
                                ELSE @]
     /\ tx' = [tx EXCEPT ![w] = Idle]
     /\ raced' = IF tx[w].late THEN raced \cup {p} ELSE raced
     /\ UNCHANGED <<orders, lock>>

\* repo.DeleteProduct on the pool, outside the transaction that surrounds it.
DeleteRow(p) ==
  /\ "delete" \in Ops
  /\ product[p].here
  /\ lock[p] = NoOne
  /\ product' = [product EXCEPT ![p].here = FALSE]
  /\ UNCHANGED <<orders, lock, tx, raced>>

-----------------------------------------------------------------------------
\* One statement of w's request, its commit, or InnoDB's deadlock detection.
Step(w) ==
  \/ ReserveItem(w) \/ ImportItem(w) \/ LockOrder(w) \/ SettleItem(w)
  \/ StartNewOrder(w) \/ Commit(w) \/ EditWrite(w) \/ BreakDeadlock(w)

Next ==
  \/ \E w \in Workers :
       \/ \E items \in ItemLists, kind \in Kinds : BeginCreate(w, items, kind)
       \/ \E items \in ItemLists : BeginImport(w, items)
       \/ \E op \in OrderOps, o \in OrderIds, items \in ItemLists : BeginOrderOp(w, op, o, items)
       \/ \E p \in Products : \E q \in EditQuantities \cup {product[p].quantity} : EditRead(w, p, q)
       \/ Step(w) \/ LoseCommit(w) \/ Abort(w)
  \/ \E p \in Products : DeleteRow(p)

Spec == Init /\ [][Next]_vars

\* database/sql and InnoDB run a request to its end, and InnoDB grants a row lock
\* to its waiters in the order they came, so no waiter is passed over for ever.
FairSpec == Spec /\ \A w \in Workers : SF_vars(Step(w))

\* The stock ledger these transactions implement.
Need(items) == [p \in Products |-> Units(items, p)]
Ledger == INSTANCE StockLedger WITH
  quantity <- [p \in Products |-> product[p].quantity],
  reserved <- [p \in Products |-> product[p].reserved],
  orders <- [o \in OrderIds |-> [type |-> orders[o].type, status |-> orders[o].status,
                                 need |-> Need(orders[o].items)]]

\* Whatever the interleaving of statements, rollbacks, deadlocks and lost
\* commits, what other requests can read changes only as one ledger step at a
\* time (CreateOutboundOrder ... ReserveToOutbound, InboundSearchImport).
ImplementsLedger == Ledger!Spec

\* UpdateProduct spoils a reservation count only if a commit fell between its
\* read and its write: without that race, saving a product leaves it intact.
OnlyRacingEditsSpoil ==
  \A p \in Products \ raced :
    product[p].here => product[p].reserved = Cardinality(Ledger!OpenUnits(p))

\* Every request is answered, lock cycles included.
EveryRequestEnds == \A w \in Workers : []<>(tx[w] = Idle)
=============================================================================
