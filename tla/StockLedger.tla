---------------------------- MODULE StockLedger ----------------------------
(***************************************************************************)
(* What the goodser order service promises about stock.  A request that    *)
(* commits is one atomic step here; the transactions, row locks, failures  *)
(* and item-by-item checks that produce such a step are in GoodserOrders,  *)
(* which is checked to implement this specification.                       *)
(***************************************************************************)
EXTENDS Integers, FiniteSets

CONSTANTS
  Products,      \* product rows
  OrderIds,      \* identifiers an outbound or reserve order may get
  InitialStock,  \* quantity column of every product before the first request
  MaxStock,      \* bound: no inbound raises a quantity above it
  MaxUnits       \* bound: units of one product in one order or inbound

ASSUME LedgerAssumption ==
  /\ IsFiniteSet(OrderIds)
  /\ InitialStock \in [Products -> Nat]
  /\ MaxStock \in Nat
  /\ MaxUnits \in Nat

VARIABLES
  quantity,      \* products.quantity
  reserved,      \* products.reserved_quantity
  orders         \* outbound_orders; status "none" is an id not yet used

vars == <<quantity, reserved, orders>>

OrderType == {"outbound", "reserve"}
OpenStatus == {"pending", "reserved"}
OrderStatus == OpenStatus \cup {"confirmed", "cancelled"}

\* Units of every product that an order asks for.
Need == [Products -> 0 .. MaxUnits]

OrderRow == [type : OrderType, status : OrderStatus \cup {"none"}, need : Need]
NoOrder == [type |-> "outbound", status |-> "none", need |-> [p \in Products |-> 0]]

\* Types: the columns of the products and outbound_orders tables.
TypeOK ==
  /\ quantity \in [Products -> Int]
  /\ reserved \in [Products -> Int]
  /\ orders \in [OrderIds -> OrderRow]

Init ==
  /\ quantity = InitialStock
  /\ reserved = [p \in Products |-> 0]
  /\ orders = [o \in OrderIds |-> NoOrder]

-----------------------------------------------------------------------------
\* Mutated Create: the check forgets what is already reserved.
CreateIgnoresReserved(o, type, status, need) ==
  /\ orders[o].status = "none"
  /\ \A p \in Products : need[p] <= quantity[p]
  /\ reserved' = [p \in Products |-> reserved[p] + need[p]]
  /\ orders' = [orders EXCEPT ![o] = [type |-> type, status |-> status, need |-> need]]
  /\ UNCHANGED quantity

\* CreateOutboundOrder: every item must fit into quantity - reserved.
Create(o, type, status, need) ==
  /\ orders[o].status = "none"
  /\ \A p \in Products : need[p] <= quantity[p] - reserved[p]
  /\ reserved' = [p \in Products |-> reserved[p] + need[p]]
  /\ orders' = [orders EXCEPT ![o] = [type |-> type, status |-> status, need |-> need]]
  /\ UNCHANGED quantity

\* ConfirmOutbound: the goods leave, and with them the reservation.
Confirm(o) ==
  /\ orders[o].status \in OpenStatus
  /\ quantity' = [p \in Products |-> quantity[p] - orders[o].need[p]]
  /\ reserved' = [p \in Products |-> reserved[p] - orders[o].need[p]]
  /\ orders' = [orders EXCEPT ![o].status = "confirmed"]

\* CancelOutbound and CancelReserve: only the reservation goes.
Cancel(o) ==
  /\ orders[o].status \in OpenStatus
  /\ reserved' = [p \in Products |-> reserved[p] - orders[o].need[p]]
  /\ orders' = [orders EXCEPT ![o].status = "cancelled"]
  /\ UNCHANGED quantity

\* Mutated Convert: the reserve order's stock is not given back.
ConvertKeepsReservation(r, o, need) ==
  /\ r # o
  /\ orders[r].type = "reserve" /\ orders[r].status \in OpenStatus
  /\ orders[o].status = "none"
  /\ \A p \in Products : need[p] <= quantity[p] - reserved[p]
  /\ reserved' = [p \in Products |-> reserved[p] + need[p]]
  /\ orders' = [orders EXCEPT ![r].status = "confirmed",
                              ![o] = [type |-> "outbound", status |-> "pending", need |-> need]]
  /\ UNCHANGED quantity

\* ReserveToOutbound: reserve order r is closed and its stock given back before
\* the new outbound order o is checked against what is then available.
Convert(r, o, need) ==
  /\ r # o
  /\ orders[r].type = "reserve"
  /\ orders[r].status \in OpenStatus
  /\ orders[o].status = "none"
  /\ \A p \in Products : need[p] <= quantity[p] - (reserved[p] - orders[r].need[p])
  /\ reserved' = [p \in Products |-> reserved[p] - orders[r].need[p] + need[p]]
  /\ orders' = [orders EXCEPT ![r].status = "confirmed",
                              ![o] = [type |-> "outbound", status |-> "pending", need |-> need]]
  /\ UNCHANGED quantity

\* InboundSearchImport and the inbound of a code that already exists.
Inbound(units) ==
  /\ \A p \in Products : units[p] > 0 => quantity[p] + units[p] <= MaxStock
  /\ quantity' = [p \in Products |-> quantity[p] + units[p]]
  /\ UNCHANGED <<reserved, orders>>

Next ==
  \/ \E o \in OrderIds, t \in OrderType, s \in OpenStatus, n \in Need : Create(o, t, s, n)
  \/ \E o \in OrderIds : Confirm(o)
  \/ \E o \in OrderIds : Cancel(o)
  \/ \E r, o \in OrderIds, n \in Need : Convert(r, o, n)
  \/ \E n \in Need : Inbound(n)

Spec == Init /\ [][Next]_vars

-----------------------------------------------------------------------------
\* One element per unit: the cardinality is the sum of f over S.
Units(S, f) == UNION {{x} \X (1 .. f[x]) : x \in S}

OpenIds(table) == {o \in OrderIds : table[o].status \in OpenStatus}

\* The units of p that the open orders of a table wait for.
OpenUnitsIn(table, p) == Units(OpenIds(table), [o \in OrderIds |-> table[o].need[p]])
OpenUnits(p) == OpenUnitsIn(orders, p)

\* reserved_quantity is at every moment the sum of the open orders' items: no
\* sequence of creations, confirmations, cancellations and conversions of
\* reserve orders leaves a reservation behind or releases one twice.
ReservedIsOpenUnits == \A p \in Products : reserved[p] = Cardinality(OpenUnits(p))

\* Stock is never oversold: what is reserved is there, so an open order can be
\* confirmed without driving quantity below zero.
NeverOversold == \A p \in Products : 0 <= reserved[p] /\ reserved[p] <= quantity[p]
=============================================================================
