---------------------------- MODULE StockProofs ----------------------------
(***************************************************************************)
(* StockLedger, for any set of products, any finite set of order ids and   *)
(* any bounds: reserved_quantity is the sum of the open orders' items and  *)
(* stock is never oversold.  GoodserCatalog, for any finite set of         *)
(* requests and any bounds: what clients were told is in stock is in       *)
(* stock, and a sequence number is in one place.  The sums of both are     *)
(* cardinalities of sets of units.                                         *)
(***************************************************************************)
EXTENDS StockLedger, GoodserCatalog, FiniteSetTheorems, SequenceTheorems,
        WellFoundedInduction, TLAPS

\* The inductive invariant.  Finiteness is carried along because Cardinality
\* says nothing about an infinite set.
IInv ==
  /\ TypeOK
  /\ \A p \in Products : IsFiniteSet(OpenUnits(p))
  /\ ReservedIsOpenUnits
  /\ NeverOversold

-----------------------------------------------------------------------------
(* Sums as cardinalities. *)

\* The units of a single order are as many as it asks for.
LEMMA BlockSize ==
  ASSUME NEW x, NEW n \in Nat
  PROVE  /\ IsFiniteSet({x} \X (1 .. n))
         /\ Cardinality({x} \X (1 .. n)) = n
<1>1. IsFiniteSet({x}) /\ Cardinality({x}) = 1
  BY FS_Singleton
<1>2. IsFiniteSet(1 .. n) /\ Cardinality(1 .. n) = n
  BY FS_Interval
<1>3. \A S, T : IsFiniteSet(S) /\ IsFiniteSet(T) =>
                 /\ IsFiniteSet(S \X T)
                 /\ Cardinality(S \X T) = Cardinality(S) * Cardinality(T)
  BY FS_Product
<1>4. /\ IsFiniteSet({x} \X (1 .. n))
      /\ Cardinality({x} \X (1 .. n)) = Cardinality({x}) * Cardinality(1 .. n)
  BY <1>1, <1>2, <1>3, Zenon
<1>5. Cardinality({x} \X (1 .. n)) = 1 * n
  BY <1>1, <1>2, <1>4, Zenon
<1>. QED
  BY <1>4, <1>5

\* Adding an order to the open ones adds its units.
LEMMA UnitsAdd ==
  ASSUME NEW S, NEW f, NEW x, x \notin S, f[x] \in Nat, IsFiniteSet(Units(S, f))
  PROVE  /\ IsFiniteSet(Units(S \cup {x}, f))
         /\ Cardinality(Units(S \cup {x}, f)) = Cardinality(Units(S, f)) + f[x]
<1>. DEFINE B == {x} \X (1 .. f[x])
<1>1. Units(S \cup {x}, f) = Units(S, f) \cup B
  BY DEF Units
<1>2. Units(S, f) \cap B = {}
  BY DEF Units
<1>3. IsFiniteSet(B) /\ Cardinality(B) = f[x]
  BY BlockSize
<1>4. /\ IsFiniteSet(Units(S, f) \cup B)
      /\ Cardinality(Units(S, f) \cup B)
           = Cardinality(Units(S, f)) + Cardinality(B) - Cardinality(Units(S, f) \cap B)
  BY <1>3, FS_Union
<1>5. Cardinality(Units(S, f)) \in Nat
  BY FS_CardinalityType
<1>6. Cardinality(Units(S, f) \cap B) = 0
  <2>. HIDE DEF B
  <2>. QED BY <1>2, FS_EmptySet, Zenon
<1>. HIDE DEF B
<1>7. /\ IsFiniteSet(Units(S \cup {x}, f))
      /\ Cardinality(Units(S \cup {x}, f)) = Cardinality(Units(S, f)) + f[x] - 0
  BY <1>1, <1>3, <1>4, <1>6, Zenon
<1>. QED
  BY <1>5, <1>7

\* Removing an order from the open ones removes its units.
LEMMA UnitsRemove ==
  ASSUME NEW S, NEW f, NEW x \in S, f[x] \in Nat, IsFiniteSet(Units(S, f))
  PROVE  /\ IsFiniteSet(Units(S \ {x}, f))
         /\ Cardinality(Units(S \ {x}, f)) = Cardinality(Units(S, f)) - f[x]
<1>. DEFINE R == S \ {x}
<1>1. Units(R, f) \subseteq Units(S, f)
  BY DEF Units
<1>2. IsFiniteSet(Units(R, f))
  BY <1>1, FS_Subset
<1>3. S = R \cup {x} /\ x \notin R
  OBVIOUS
<1>4. Cardinality(Units(R \cup {x}, f)) = Cardinality(Units(R, f)) + f[x]
  <2>. HIDE DEF R
  <2>. QED BY <1>2, <1>3, UnitsAdd
<1>5. Cardinality(Units(R, f)) \in Nat
  BY <1>2, FS_CardinalityType
<1>6. Cardinality(Units(S, f)) = Cardinality(Units(R, f)) + f[x]
  BY <1>3, <1>4, Zenon
<1>7. Cardinality(Units(R, f)) = Cardinality(Units(S, f)) - f[x]
  <2>. HIDE DEF R
  <2>. QED BY <1>5, <1>6
<1>. QED
  BY <1>2, <1>7, Zenon

\* Only the open orders' own items count.
LEMMA UnitsSame ==
  ASSUME NEW S, NEW f, NEW g, \A x \in S : f[x] = g[x]
  PROVE  Units(S, f) = Units(S, g)
BY DEF Units

-----------------------------------------------------------------------------
(* The steps. *)

\* Opening an order that was not there adds its need to every product's units.
LEMMA OpenOne ==
  ASSUME NEW a \in [OrderIds -> OrderRow], NEW o \in OrderIds, a[o].status \notin OpenStatus,
         NEW row \in OrderRow, row.status \in OpenStatus,
         NEW p \in Products, IsFiniteSet(OpenUnitsIn(a, p))
  PROVE  LET b == [a EXCEPT ![o] = row]
         IN /\ IsFiniteSet(OpenUnitsIn(b, p))
            /\ Cardinality(OpenUnitsIn(b, p)) = Cardinality(OpenUnitsIn(a, p)) + row.need[p]
<1>. DEFINE b == [a EXCEPT ![o] = row]
            f == [x \in OrderIds |-> a[x].need[p]]
            g == [x \in OrderIds |-> b[x].need[p]]
            S == OpenIds(a)
<1>1. OpenIds(b) = S \cup {o} /\ o \notin S
  BY DEF OpenIds
<1>2. \A x \in S : f[x] = g[x]
  BY <1>1 DEF OpenIds
<1>3. g[o] = row.need[p] /\ g[o] \in Nat
  BY LedgerAssumption DEF OrderRow, Need
<1>4. OpenUnitsIn(a, p) = Units(S, f) /\ OpenUnitsIn(b, p) = Units(OpenIds(b), g)
  BY DEF OpenUnitsIn
<1>. HIDE DEF b, f, g, S
<1>5. Units(S, f) = Units(S, g)
  BY <1>2, UnitsSame
<1>6. IsFiniteSet(Units(S, g))
  BY <1>4, <1>5, Zenon
<1>7. /\ IsFiniteSet(Units(S \cup {o}, g))
      /\ Cardinality(Units(S \cup {o}, g)) = Cardinality(Units(S, g)) + g[o]
  BY <1>1, <1>3, <1>6, UnitsAdd
<1>8. /\ IsFiniteSet(OpenUnitsIn(b, p))
      /\ Cardinality(OpenUnitsIn(b, p)) = Cardinality(OpenUnitsIn(a, p)) + row.need[p]
  BY <1>1, <1>3, <1>4, <1>5, <1>7, Zenon
<1>. QED
  BY <1>8 DEF b

\* Closing an open order takes its need away from every product's units.
LEMMA CloseOne ==
  ASSUME NEW a \in [OrderIds -> OrderRow], NEW o \in OrderIds, a[o].status \in OpenStatus,
         NEW s \in OrderStatus, s \notin OpenStatus,
         NEW p \in Products, IsFiniteSet(OpenUnitsIn(a, p))
  PROVE  LET b == [a EXCEPT ![o].status = s]
         IN /\ IsFiniteSet(OpenUnitsIn(b, p))
            /\ Cardinality(OpenUnitsIn(b, p)) = Cardinality(OpenUnitsIn(a, p)) - a[o].need[p]
<1>. DEFINE b == [a EXCEPT ![o].status = s]
            f == [x \in OrderIds |-> a[x].need[p]]
            S == OpenIds(a)
<1>1. OpenIds(b) = S \ {o} /\ o \in S
  BY DEF OpenIds, OrderRow
<1>2. [x \in OrderIds |-> b[x].need[p]] = f
  BY DEF OrderRow
<1>3. f[o] = a[o].need[p] /\ f[o] \in Nat
  BY LedgerAssumption DEF OrderRow, Need
<1>4. OpenUnitsIn(a, p) = Units(S, f) /\ OpenUnitsIn(b, p) = Units(OpenIds(b), f)
  BY <1>2, Zenon DEF OpenUnitsIn
<1>. HIDE DEF b, f, S
<1>5. /\ IsFiniteSet(Units(S \ {o}, f))
      /\ Cardinality(Units(S \ {o}, f)) = Cardinality(Units(S, f)) - f[o]
  <2>1. IsFiniteSet(Units(S, f))
    BY <1>4, Zenon
  <2>. QED
    BY <1>1, <1>3, <2>1, UnitsRemove, ZenonT(60)
<1>6. /\ IsFiniteSet(OpenUnitsIn(b, p))
      /\ Cardinality(OpenUnitsIn(b, p)) = Cardinality(OpenUnitsIn(a, p)) - a[o].need[p]
  BY <1>1, <1>3, <1>4, <1>5, Zenon
<1>. QED
  BY <1>6 DEF b

-----------------------------------------------------------------------------
(* The steps. *)

\* Nothing is reserved before the first request.
LEMMA InitIInv == Init => IInv
<1>. SUFFICES ASSUME Init PROVE IInv
  OBVIOUS
<1>. USE LedgerAssumption
<1>1. TypeOK
  BY DEF Init, TypeOK, OrderRow, NoOrder, Need, OrderType, OrderStatus, OpenStatus
<1>2. \A p \in Products : OpenUnits(p) = {}
  BY DEF Init, OpenUnits, OpenUnitsIn, Units, OpenIds, NoOrder, OpenStatus
<1>3. \A p \in Products : IsFiniteSet(OpenUnits(p)) /\ Cardinality(OpenUnits(p)) = 0
  BY <1>2, FS_EmptySet
<1>4. ReservedIsOpenUnits
  BY <1>3 DEF Init, ReservedIsOpenUnits
<1>5. NeverOversold
  BY DEF Init, NeverOversold
<1>. QED
  BY <1>1, <1>3, <1>4, <1>5 DEF IInv

\* Every step keeps the inductive invariant.
LEMMA NextIInv == IInv /\ [Next]_vars => IInv'
<1>. SUFFICES ASSUME IInv, [Next]_vars PROVE IInv'
  OBVIOUS
<1>. USE LedgerAssumption
<1>a. TypeOK /\ orders \in [OrderIds -> OrderRow]
  BY DEF IInv, TypeOK
<1>b. \A p \in Products : /\ IsFiniteSet(OpenUnitsIn(orders, p))
                          /\ reserved[p] = Cardinality(OpenUnitsIn(orders, p))
                          /\ 0 <= reserved[p] /\ reserved[p] <= quantity[p]
                          /\ quantity[p] \in Int /\ reserved[p] \in Int
  BY DEF IInv, TypeOK, OpenUnits, ReservedIsOpenUnits, NeverOversold
<1>. DEFINE Kept ==
       /\ TypeOK'
       /\ \A p \in Products : /\ IsFiniteSet(OpenUnitsIn(orders', p))
                              /\ reserved'[p] = Cardinality(OpenUnitsIn(orders', p))
                              /\ reserved'[p] <= quantity'[p]
<1>1. SUFFICES Kept
  <2>1. ASSUME NEW p \in Products, IsFiniteSet(OpenUnitsIn(orders', p)),
               reserved'[p] = Cardinality(OpenUnitsIn(orders', p))
        PROVE  0 <= reserved'[p]
    <3>1. Cardinality(OpenUnitsIn(orders', p)) \in Nat
      BY <2>1, FS_CardinalityType
    <3>. QED BY <2>1, <3>1
  <2>. QED BY <2>1 DEF IInv, OpenUnits, ReservedIsOpenUnits, NeverOversold
<1>2. ASSUME NEW o \in OrderIds, NEW t \in OrderType, NEW s \in OpenStatus, NEW n \in Need,
             Create(o, t, s, n)
      PROVE  Kept
  <2>. DEFINE row == [type |-> t, status |-> s, need |-> n]
  <2>1. row \in OrderRow /\ row.status \in OpenStatus /\ orders' = [orders EXCEPT ![o] = row]
    BY <1>2 DEF Create, OrderRow, OrderStatus
  <2>2. orders[o].status \notin OpenStatus
    BY <1>2 DEF Create, OpenStatus
  <2>3. TypeOK'
    BY <1>2, <1>a, <2>1 DEF Create, TypeOK, Need
  <2>4. \A p \in Products : n[p] \in Int /\ reserved'[p] = reserved[p] + n[p]
                            /\ n[p] <= quantity[p] - reserved[p] /\ quantity' = quantity
    BY <1>2, <1>a DEF Create, Need
  <2>5. ASSUME NEW p \in Products
        PROVE  /\ IsFiniteSet(OpenUnitsIn(orders', p))
               /\ Cardinality(OpenUnitsIn(orders', p)) = Cardinality(OpenUnitsIn(orders, p)) + n[p]
    <3>1. row.need[p] = n[p]
      OBVIOUS
    <3>. HIDE DEF row
    <3>. QED BY <1>a, <1>b, <2>1, <2>2, <3>1, OpenOne, Zenon
  <2>. QED
    BY <1>b, <2>3, <2>4, <2>5
<1>3. ASSUME NEW o \in OrderIds, Confirm(o)
      PROVE  Kept
  <2>1. /\ orders[o].status \in OpenStatus
        /\ orders' = [orders EXCEPT ![o].status = "confirmed"]
    BY <1>3 DEF Confirm
  <2>2. \A p \in Products : /\ quantity'[p] = quantity[p] - orders[o].need[p]
                            /\ reserved'[p] = reserved[p] - orders[o].need[p]
                            /\ orders[o].need[p] \in Nat
    BY <1>3, <1>a DEF Confirm, OrderRow, Need
  <2>3. TypeOK'
    BY <1>3, <1>a, <2>1, <2>2 DEF Confirm, TypeOK, OrderRow, OrderStatus
  <2>4. ASSUME NEW p \in Products
        PROVE  /\ IsFiniteSet(OpenUnitsIn(orders', p))
               /\ Cardinality(OpenUnitsIn(orders', p))
                    = Cardinality(OpenUnitsIn(orders, p)) - orders[o].need[p]
    <3>1. "confirmed" \in OrderStatus /\ "confirmed" \notin OpenStatus
      BY DEF OrderStatus, OpenStatus
    <3>. QED BY <1>a, <1>b, <2>1, <3>1, CloseOne, Zenon
  <2>. QED
    BY <1>b, <2>2, <2>3, <2>4
<1>4. ASSUME NEW o \in OrderIds, Cancel(o)
      PROVE  Kept
  <2>1. /\ orders[o].status \in OpenStatus
        /\ orders' = [orders EXCEPT ![o].status = "cancelled"]
    BY <1>4 DEF Cancel
  <2>2. \A p \in Products : /\ quantity'[p] = quantity[p]
                            /\ reserved'[p] = reserved[p] - orders[o].need[p]
                            /\ orders[o].need[p] \in Nat
    BY <1>4, <1>a DEF Cancel, OrderRow, Need
  <2>3. TypeOK'
    BY <1>4, <1>a, <2>1, <2>2 DEF Cancel, TypeOK, OrderRow, OrderStatus
  <2>4. ASSUME NEW p \in Products
        PROVE  /\ IsFiniteSet(OpenUnitsIn(orders', p))
               /\ Cardinality(OpenUnitsIn(orders', p))
                    = Cardinality(OpenUnitsIn(orders, p)) - orders[o].need[p]
    <3>1. "cancelled" \in OrderStatus /\ "cancelled" \notin OpenStatus
      BY DEF OrderStatus, OpenStatus
    <3>. QED BY <1>a, <1>b, <2>1, <3>1, CloseOne, Zenon
  <2>. QED
    BY <1>b, <2>2, <2>3, <2>4
<1>5. ASSUME NEW r \in OrderIds, NEW o \in OrderIds, NEW n \in Need, Convert(r, o, n)
      PROVE  Kept
  <2>. DEFINE row == [type |-> "outbound", status |-> "pending", need |-> n]
              mid == [orders EXCEPT ![r].status = "confirmed"]
  <2>1. /\ r # o
        /\ orders[r].status \in OpenStatus
        /\ orders[o].status \notin OpenStatus
        /\ \A p \in Products : /\ quantity'[p] = quantity[p]
                               /\ n[p] <= quantity[p] - (reserved[p] - orders[r].need[p])
                               /\ reserved'[p] = reserved[p] - orders[r].need[p] + n[p]
                               /\ orders[r].need[p] \in Nat
                               /\ n[p] \in Nat
    BY <1>5, <1>a DEF Convert, OrderRow, Need, OpenStatus
  <2>2. /\ row \in OrderRow /\ row.status \in OpenStatus
        /\ mid \in [OrderIds -> OrderRow]
        /\ mid[o] = orders[o]
    BY <1>a, <2>1 DEF OrderRow, OpenStatus, OrderType, OrderStatus
  <2>3. orders' = [mid EXCEPT ![o] = row]
    BY <1>5, <1>a, <2>1 DEF Convert
  <2>4. TypeOK'
    BY <1>5, <1>a, <2>1, <2>2, <2>3 DEF Convert, TypeOK
  <2>5. ASSUME NEW p \in Products
        PROVE  /\ IsFiniteSet(OpenUnitsIn(mid, p))
               /\ Cardinality(OpenUnitsIn(mid, p))
                    = Cardinality(OpenUnitsIn(orders, p)) - orders[r].need[p]
    <3>1. "confirmed" \in OrderStatus /\ "confirmed" \notin OpenStatus
      BY DEF OrderStatus, OpenStatus
    <3>. QED BY <1>a, <1>b, <2>1, <3>1, CloseOne, Zenon
  <2>6. ASSUME NEW p \in Products
        PROVE  /\ IsFiniteSet(OpenUnitsIn(orders', p))
               /\ Cardinality(OpenUnitsIn(orders', p)) = Cardinality(OpenUnitsIn(mid, p)) + n[p]
    <3>1. row.need[p] = n[p]
      OBVIOUS
    <3>2. mid[o].status \notin OpenStatus
      BY <2>1, <2>2, Zenon
    <3>. HIDE DEF row, mid
    <3>3. /\ IsFiniteSet(OpenUnitsIn([mid EXCEPT ![o] = row], p))
          /\ Cardinality(OpenUnitsIn([mid EXCEPT ![o] = row], p))
               = Cardinality(OpenUnitsIn(mid, p)) + row.need[p]
      BY <2>2, <2>5, <3>2, OpenOne
    <3>. QED BY <2>3, <3>1, <3>3, Zenon
  <2>7. ASSUME NEW p \in Products
        PROVE  reserved'[p] = Cardinality(OpenUnitsIn(orders', p))
    <3>. HIDE DEF mid
    <3>. QED BY <1>b, <2>1, <2>5, <2>6
  <2>. QED
    BY <1>b, <2>1, <2>4, <2>6, <2>7
<1>6. ASSUME NEW n \in Need, Inbound(n)
      PROVE  Kept
  <2>1. TypeOK'
    BY <1>6, <1>a DEF Inbound, TypeOK, Need
  <2>2. \A p \in Products : quantity'[p] = quantity[p] + n[p] /\ n[p] \in Nat
    BY <1>6 DEF Inbound, Need
  <2>. QED
    BY <1>6, <1>b, <2>1, <2>2 DEF Inbound
<1>7. CASE UNCHANGED vars
  BY <1>7, <1>a, <1>b DEF vars, TypeOK
<1>. QED
  BY <1>2, <1>3, <1>4, <1>5, <1>6, <1>7 DEF Next

\* In every behaviour of the ledger the tables are well typed, the reservation
\* column is the sum of the open orders and no product is oversold.
THEOREM InductiveInvariant == Spec => []IInv
<1>1. Init => IInv
  BY InitIInv
<1>2. IInv /\ [Next]_vars => IInv'
  BY NextIInv
<1>. QED
  BY <1>1, <1>2, PTL DEF Spec

\* reserved_quantity always equals the sum of the open orders' items.
THEOREM ReservationTheorem == Spec => []ReservedIsOpenUnits
<1>1. IInv => ReservedIsOpenUnits
  BY DEF IInv
<1>. QED
  BY <1>1, InductiveInvariant, PTL

\* Whatever sequence of orders, confirmations, cancellations and conversions, no
\* product is reserved or sold beyond its quantity.
THEOREM NeverOversoldTheorem == Spec => []NeverOversold
<1>1. IInv => NeverOversold
  BY DEF IInv
<1>. QED
  BY <1>1, InductiveInvariant, PTL

-----------------------------------------------------------------------------
(* Sums over rows. *)

LEMMA LeastElement ==
  ASSUME NEW S, S \subseteq Nat, S # {}
  PROVE  Min(S) \in S /\ \A y \in S : Min(S) <= y
<1>1. PICK x \in S : \A y \in S : ~ (<<y, x>> \in OpToRel(<, Nat))
  BY NatLessThanWellFounded, WFMin, Zenon
<1>2. \A y \in S : x \in Nat /\ y \in Nat /\ ~(y < x)
  BY <1>1, Zenon DEF OpToRel
<1>3. \A y \in S : x <= y
  BY <1>2
<1>. QED
  BY <1>3 DEF Min

\* A finite set of numbers has a bound: the element with the fewest above it.
LEMMA FiniteIsBounded ==
  ASSUME NEW S, S \subseteq Nat, IsFiniteSet(S)
  PROVE  \E n \in Nat : \A x \in S : x <= n
<1>. DEFINE Above(x) == {y \in S : y > x}
            Sizes == {Cardinality(Above(x)) : x \in S}
<1>1. \A x \in S : x \in Nat
  OBVIOUS
<1>2. CASE S = {}
  BY <1>2
<1>3. CASE S # {}
  <2>1. ASSUME NEW x \in S PROVE IsFiniteSet(Above(x)) /\ Cardinality(Above(x)) \in Nat
    <3>1. IsFiniteSet(Above(x))
      BY FS_Subset
    <3>. QED
      BY <3>1, FS_CardinalityType
  <2>2. Sizes \in SUBSET Nat /\ Sizes # {}
    BY <1>3, <2>1
  <2>3. PICK n \in Sizes : \A m \in Sizes : n <= m
    BY <2>2, LeastElement
  <2>4. PICK x \in S : n = Cardinality(Above(x))
    BY <2>3
  <2>5. ASSUME NEW y \in S, y > x PROVE FALSE
    <3>1. \A z \in S : z > y => z > x
      BY <1>1, <2>5
    <3>2. ~(y > y)
      BY <1>1
    <3>3. Above(y) \subseteq Above(x) /\ y \in Above(x) /\ y \notin Above(y)
      BY <2>5, <3>1, <3>2
    <3>4. Cardinality(Above(y)) <= Cardinality(Above(x)) /\ Cardinality(Above(y)) # Cardinality(Above(x))
      BY <2>1, <3>3, FS_Subset
    <3>5. Cardinality(Above(x)) <= Cardinality(Above(y))
      BY <2>3, <2>4
    <3>. HIDE DEF Above
    <3>. QED
      BY <2>1, <3>4, <3>5
  <2>6. \A y \in S : y <= x
    BY <1>1, <2>5
  <2>. QED
    BY <1>1, <2>6
<1>. QED
  BY <1>2, <1>3

LEMMA UnitsFinite ==
  ASSUME NEW S, IsFiniteSet(S), NEW f \in [S -> Nat]
  PROVE  IsFiniteSet(Units(S, f)) /\ Cardinality(Units(S, f)) \in Nat
<1>. DEFINE V == {f[x] : x \in S}
<1>1. f \in Surjection(S, V)
  BY DEF Surjection
<1>2. IsFiniteSet(V) /\ V \in SUBSET Nat
  BY <1>1, FS_Surjection
<1>3. PICK n \in Nat : \A v \in V : v <= n
  BY <1>2, FiniteIsBounded
<1>4. IsFiniteSet(S \X (1 .. n))
  <2>1. IsFiniteSet(1 .. n)
    BY FS_Interval
  <2>. QED
    BY <2>1, FS_Product
<1>5. \A x \in S : \A k \in 1 .. f[x] : k \in 1 .. n
  BY <1>3
<1>6. Units(S, f) \subseteq S \X (1 .. n)
  BY <1>5 DEF Units
<1>7. IsFiniteSet(Units(S, f))
  BY <1>4, <1>6, FS_Subset
<1>. QED
  BY <1>7, FS_CardinalityType

LEMMA TotalIsUnits ==
  ASSUME NEW S, NEW f \in [S -> Nat]
  PROVE  Total(f) = Cardinality(Units(S, f))
<1>1. DOMAIN f = S
  OBVIOUS
<1>. QED
  BY <1>1 DEF Total, Units

LEMMA TotalType ==
  ASSUME NEW S, IsFiniteSet(S), NEW f \in [S -> Nat]
  PROVE  Total(f) \in Nat
BY UnitsFinite, TotalIsUnits

\* The sum of a function that has one value only.
LEMMA TotalOfOne ==
  ASSUME NEW S, NEW f \in [S -> Nat], NEW x \in S, \A y \in S \ {x} : f[y] = 0
  PROVE  Total(f) = f[x]
<1>1. \A y \in S \ {x} : 1 .. f[y] = {}
  OBVIOUS
<1>2. Units(S, f) = {x} \X (1 .. f[x])
  BY <1>1 DEF Units
<1>3. f[x] \in Nat
  OBVIOUS
<1>4. Cardinality({x} \X (1 .. f[x])) = f[x]
  BY <1>3, BlockSize
<1>. QED
  BY <1>2, <1>4, TotalIsUnits

LEMMA TotalOfNone ==
  ASSUME NEW S, NEW f \in [S -> Nat], \A y \in S : f[y] = 0
  PROVE  Total(f) = 0
<1>1. \A y \in S : 1 .. f[y] = {}
  OBVIOUS
<1>2. Units(S, f) = {}
  BY <1>1 DEF Units
<1>. QED
  BY <1>2, FS_EmptySet, TotalIsUnits

\* Sums add: the units of g follow those of f, row by row.
LEMMA TotalPlus ==
  ASSUME NEW S, IsFiniteSet(S), NEW f \in [S -> Nat], NEW g \in [S -> Nat],
         NEW h \in [S -> Nat], \A x \in S : h[x] = f[x] + g[x]
  PROVE  Total(h) = Total(f) + Total(g)
<1>. DEFINE F == Units(S, f)
            G == Units(S, g)
            H == Units(S, h)
            m == [u \in G |-> <<u[1], f[u[1]] + u[2]>>]
            T == {m[u] : u \in G}
<1>1. IsFiniteSet(F) /\ IsFiniteSet(G) /\ IsFiniteSet(H)
  BY UnitsFinite
<1>2. \A u : u \in G <=> \E x \in S : \E k \in 1 .. g[x] : u = <<x, k>>
  BY DEF Units
<1>3. \A u : u \in F <=> \E x \in S : \E k \in 1 .. f[x] : u = <<x, k>>
  BY DEF Units
<1>4. \A u : u \in H <=> \E x \in S : \E k \in 1 .. h[x] : u = <<x, k>>
  BY DEF Units
<1>. HIDE DEF F, G, H
<1>5. \A u : u \in T <=> \E x \in S : \E k \in 1 .. g[x] : u = <<x, f[x] + k>>
  <2>1. \A x \in S : \A k \in 1 .. g[x] : <<x, k>> \in G /\ m[<<x, k>>] = <<x, f[x] + k>>
    BY <1>2
  <2>2. \A u \in G : \E x \in S : \E k \in 1 .. g[x] : m[u] = <<x, f[x] + k>>
    BY <1>2
  <2>. HIDE DEF m
  <2>3. \A u \in T : \E x \in S : \E k \in 1 .. g[x] : u = <<x, f[x] + k>>
    BY <2>2
  <2>4. \A x \in S : \A k \in 1 .. g[x] : <<x, f[x] + k>> \in T
    <3>1. \A u \in G : m[u] \in T
      OBVIOUS
    <3>. QED
      BY <2>1, <3>1
  <2>. QED
    BY <2>3, <2>4
<1>6. \A u, v \in G : m[u] = m[v] => u = v
  <2>1. ASSUME NEW u \in G, NEW v \in G, m[u] = m[v] PROVE u = v
    <3>1. PICK x \in S : \E k \in 1 .. g[x] : u = <<x, k>>
      BY <1>2
    <3>2. PICK k \in 1 .. g[x] : u = <<x, k>>
      BY <3>1
    <3>3. PICK y \in S : \E l \in 1 .. g[y] : v = <<y, l>>
      BY <1>2
    <3>4. PICK l \in 1 .. g[y] : v = <<y, l>>
      BY <3>3
    <3>5. x = y /\ f[x] + k = f[y] + l
      BY <2>1, <3>2, <3>4
    <3>. QED
      BY <3>2, <3>4, <3>5
  <2>. QED
    BY <2>1
<1>7. IsFiniteSet(T) /\ Cardinality(T) = Cardinality(G)
  <2>1. m \in Surjection(G, T)
    BY DEF Surjection
  <2>2. m \in Injection(G, T)
    BY <1>6, <2>1 DEF Injection, IsInjective, Surjection
  <2>. QED
    BY <1>1, <2>1, <2>2, FS_Surjection
<1>. HIDE DEF T
<1>8. F \cap T = {}
  BY <1>3, <1>5
<1>9. H = F \cup T
  <2>1. ASSUME NEW u \in H PROVE u \in F \cup T
    <3>1. PICK x \in S : \E k \in 1 .. h[x] : u = <<x, k>>
      BY <1>4
    <3>2. PICK k \in 1 .. h[x] : u = <<x, k>>
      BY <3>1
    <3>3. CASE k <= f[x]
      <4>1. k \in 1 .. f[x]
        BY <3>3
      <4>. QED
        BY <1>3, <3>2, <4>1
    <3>4. CASE k > f[x]
      <4>1. k - f[x] \in 1 .. g[x] /\ f[x] + (k - f[x]) = k
        BY <3>4
      <4>. QED
        BY <1>5, <3>2, <4>1
    <3>. QED
      BY <3>3, <3>4
  <2>2. ASSUME NEW u \in F PROVE u \in H
    <3>1. PICK x \in S : \E k \in 1 .. f[x] : u = <<x, k>>
      BY <1>3
    <3>2. PICK k \in 1 .. f[x] : u = <<x, k>>
      BY <3>1
    <3>3. k \in 1 .. h[x]
      OBVIOUS
    <3>. QED
      BY <1>4, <3>2, <3>3
  <2>3. ASSUME NEW u \in T PROVE u \in H
    <3>1. PICK x \in S : \E k \in 1 .. g[x] : u = <<x, f[x] + k>>
      BY <1>5
    <3>2. PICK k \in 1 .. g[x] : u = <<x, f[x] + k>>
      BY <3>1
    <3>3. f[x] + k \in 1 .. h[x]
      OBVIOUS
    <3>. QED
      BY <1>4, <3>2, <3>3
  <2>. QED
    BY <2>1, <2>2, <2>3
<1>10. Cardinality(H) = Cardinality(F) + Cardinality(T) - Cardinality(F \cap T)
  BY <1>1, <1>7, <1>9, FS_Union
<1>11. Cardinality(F \cap T) = 0
  BY <1>8, FS_EmptySet
<1>12. Cardinality(F) \in Nat /\ Cardinality(G) \in Nat
  BY <1>1, FS_CardinalityType
<1>13. Cardinality(H) = Cardinality(F) + Cardinality(G)
  BY <1>7, <1>10, <1>11, <1>12
<1>. QED
  BY <1>13, TotalIsUnits DEF F, G, H

-----------------------------------------------------------------------------
(* The catalog's invariant. *)

RealRow == [state : {"here", "deleted"}, seq : Seqs, status : Statuses, qty : Nat]
RowType == RealRow \cup {NoRow}

Places == {"idle", "find", "write", "commit", "begin", "deleteRow", "recycle"}
RequestType ==
  [at : Places, todo : Seq(Items), found : Nat, base : Nat, new : [Rows -> RowType],
   adds : [Rows -> Nat], got : [Codes -> Nat], row : Nat, seq : Nat]

CatalogType ==
  /\ counter \in Nat /\ held \in [Seqs -> Nat] /\ recycled \in [Seqs -> Nat]
  /\ received \in [Codes -> Nat]
  /\ rows \in [Rows -> RowType] /\ req \in [Workers -> RequestType]

\* The item in hand is of the code of the row that was found.
ItemInHand ==
  \A w \in Workers : req[w].at = "write" =>
    /\ req[w].todo # <<>>
    /\ req[w].found # 0 =>
         /\ req[w].found \in Rows
         /\ rows[req[w].found].seq = Head(req[w].todo).seq
         /\ rows[req[w].found].status = Head(req[w].todo).status

\* A delete has the number of its row.
DeleteInHand ==
  \A w \in Workers : req[w].at \in {"begin", "deleteRow", "recycle"} =>
    req[w].row \in Rows /\ req[w].seq \in Seqs /\ rows[req[w].row].seq = req[w].seq

\* A new row has an id of its own, and only rows that are there are added to.
ChangesApart ==
  \A w \in Workers : \A r \in Rows :
    /\ rows[r] = NoRow => req[w].adds[r] = 0
    /\ req[w].new[r] # NoRow =>
         /\ rows[r] = NoRow /\ req[w].new[r].state = "here"
         /\ \A v \in Workers \ {w} : req[v].new[r] = NoRow

\* What w's transaction adds to the units of c in row r.
Gain(w, r, c) ==
  QtyOf(req[w].new[r], c) + (IF <<rows[r].seq, rows[r].status>> = c THEN req[w].adds[r] ELSE 0)

\* What a request says it received is what its transaction adds.
GotIsGain ==
  \A w \in Workers : \A c \in Codes : c[1] \notin spoiled =>
    req[w].got[c] = Total([r \in Rows |-> Gain(w, r, c)])

\* Nobody has a number above the counter.
FreshIsUnused ==
  \A s \in Seqs : s \notin spoiled /\ s > counter =>
    /\ held[s] = 0 /\ recycled[s] = 0
    /\ \A r \in Rows : rows[r].seq # s
    /\ \A w \in Workers : /\ \A r \in Rows : req[w].new[r].seq # s
                          /\ \A i \in DOMAIN req[w].todo : req[w].todo[i].seq # s

CatalogIInv ==
  /\ CatalogType /\ ItemInHand /\ DeleteInHand /\ ChangesApart
  /\ GotIsGain /\ NothingReceivedIsLost
  /\ FreshIsUnused /\ SeqInOnePlace

LEMMA RowFacts ==
  ASSUME NEW x \in RowType
  PROVE  /\ x.qty \in Nat
         /\ x = NoRow <=> x.seq = 0
         /\ x = NoRow <=> x.state = "none"
         /\ x # NoRow => x.seq \in Seqs
         /\ x = NoRow => \A c \in Codes : <<x.seq, x.status>> # c
         /\ \A c \in Codes : QtyOf(x, c) \in Nat /\ (x = NoRow => QtyOf(x, c) = 0)
<1>1. CASE x = NoRow
  <2>1. x.seq = 0 /\ x.qty = 0 /\ x.state = "none"
    BY <1>1 DEF NoRow
  <2>2. \A c \in Codes : c[1] # 0
    BY DEF Codes, Seqs
  <2>. QED
    BY <1>1, <2>1, <2>2 DEF QtyOf
<1>2. CASE x \in RealRow
  <2>1. x.qty \in Nat /\ x.seq \in Seqs /\ x.state # "none"
    BY <1>2 DEF RealRow
  <2>2. x.seq # 0
    BY <2>1 DEF Seqs
  <2>3. NoRow.seq = 0
    BY DEF NoRow
  <2>4. x # NoRow
    BY <2>2, <2>3
  <2>. QED
    BY <2>1, <2>2, <2>4 DEF QtyOf
<1>. QED
  BY <1>1, <1>2 DEF RowType

LEMMA IdleType ==
  /\ Idle \in RequestType
  /\ Idle.at = "idle" /\ Idle.todo = <<>>
  /\ \A r \in Rows : Idle.new[r] = NoRow /\ Idle.adds[r] = 0
  /\ \A c \in Codes : Idle.got[c] = 0
<1>1. [r \in Rows |-> NoRow] \in [Rows -> RowType]
  BY DEF RowType
<1>2. [r \in Rows |-> 0] \in [Rows -> Nat] /\ [c \in Codes |-> 0] \in [Codes -> Nat]
  OBVIOUS
<1>3. <<>> \in Seq(Items)
  BY EmptySeq
<1>. QED
  BY <1>1, <1>2, <1>3 DEF Idle, RequestType, Places

LEMMA RowsFinite == IsFiniteSet(Rows) /\ MaxRows \in Nat
<1>1. MaxRows \in Nat
  BY CatalogAssumption
<1>. QED
  BY <1>1, FS_Interval DEF Rows

\* A request without changes gains nothing.
LEMMA NoGain ==
  ASSUME NEW w, NEW c \in Codes, CatalogType,
         \A r \in Rows : req[w].new[r] = NoRow /\ req[w].adds[r] = 0
  PROVE  Total([r \in Rows |-> Gain(w, r, c)]) = 0
<1>1. NoRow \in RowType
  BY DEF RowType
<1>2. QtyOf(NoRow, c) = 0
  BY <1>1, RowFacts
<1>3. \A r \in Rows : Gain(w, r, c) = 0
  BY <1>2 DEF Gain
<1>4. [r \in Rows |-> Gain(w, r, c)] \in [Rows -> Nat]
  BY <1>3
<1>. QED
  BY <1>3, <1>4, TotalOfNone

\* The changes of w are what they were, or gone.
SameChanges(w) ==
  \/ req'[w].new = req[w].new /\ req'[w].adds = req[w].adds /\ req'[w].got = req[w].got
  \/ /\ \A r \in Rows : req'[w].new[r] = NoRow /\ req'[w].adds[r] = 0
     /\ \A c \in Codes : req'[w].got[c] = 0

\* Rows keep their codes and quantities, and new ones have none.
SameUnits ==
  \A r \in Rows :
    \/ /\ rows'[r] = NoRow <=> rows[r] = NoRow
       /\ rows'[r].seq = rows[r].seq /\ rows'[r].status = rows[r].status
       /\ rows'[r].qty = rows[r].qty
    \/ /\ rows[r] = NoRow /\ rows'[r] # NoRow /\ rows'[r].qty = 0
       /\ \A w \in Workers : req[w].new[r] = NoRow

\* Steps that commit nothing and write no item.
LEMMA UnitsKept ==
  ASSUME CatalogType, CatalogType', ChangesApart, GotIsGain, NothingReceivedIsLost,
         SameUnits, \A w \in Workers : SameChanges(w), spoiled \subseteq spoiled',
         \A c \in Codes : c[1] \notin spoiled' => received'[c] = received[c]
  PROVE  ChangesApart' /\ GotIsGain' /\ NothingReceivedIsLost'
<1>1. ChangesApart'
  <2>1. ASSUME NEW w \in Workers, NEW r \in Rows, rows'[r] = NoRow PROVE req'[w].adds[r] = 0
    <3>1. rows[r] = NoRow
      BY <2>1 DEF SameUnits
    <3>2. req[w].adds[r] = 0
      BY <3>1 DEF ChangesApart
    <3>. QED
      BY <3>2 DEF SameChanges
  <2>2. ASSUME NEW w \in Workers, NEW r \in Rows, req'[w].new[r] # NoRow
        PROVE  /\ rows'[r] = NoRow /\ req'[w].new[r].state = "here"
               /\ \A v \in Workers \ {w} : req'[v].new[r] = NoRow
    <3>1. req'[w].new[r] = req[w].new[r]
      BY <2>2 DEF SameChanges
    <3>2. /\ rows[r] = NoRow /\ req[w].new[r].state = "here"
          /\ \A v \in Workers \ {w} : req[v].new[r] = NoRow
      BY <2>2, <3>1 DEF ChangesApart
    <3>3. rows'[r] = NoRow
      BY <2>2, <3>1, <3>2 DEF SameUnits
    <3>4. \A v \in Workers \ {w} : req'[v].new[r] = NoRow
      BY <3>2 DEF SameChanges
    <3>. QED
      BY <3>1, <3>2, <3>3, <3>4
  <2>. QED
    BY <2>1, <2>2 DEF ChangesApart
<1>2. ASSUME NEW w \in Workers, NEW c \in Codes, c[1] \notin spoiled'
      PROVE  req'[w].got[c] = Total([r \in Rows |-> Gain(w, r, c)'])
  <2>1. CASE req'[w].new = req[w].new /\ req'[w].adds = req[w].adds /\ req'[w].got = req[w].got
    <3>1. ASSUME NEW r \in Rows PROVE Gain(w, r, c)' = Gain(w, r, c)
      <4>1. CASE rows'[r].seq = rows[r].seq /\ rows'[r].status = rows[r].status
        BY <2>1, <4>1 DEF Gain
      <4>2. CASE rows[r] = NoRow
        <5>1. req[w].adds[r] = 0 /\ req'[w].adds[r] = 0
          BY <2>1, <4>2 DEF ChangesApart
        <5>. QED
          BY <2>1, <5>1 DEF Gain
      <4>. QED
        BY <4>1, <4>2 DEF SameUnits
    <3>2. [r \in Rows |-> Gain(w, r, c)'] = [r \in Rows |-> Gain(w, r, c)]
      BY <3>1
    <3>3. req[w].got[c] = Total([r \in Rows |-> Gain(w, r, c)])
      BY <1>2 DEF GotIsGain
    <3>. QED
      BY <2>1, <3>2, <3>3
  <2>2. CASE /\ \A r \in Rows : req'[w].new[r] = NoRow /\ req'[w].adds[r] = 0
             /\ \A d \in Codes : req'[w].got[d] = 0
    <3>1. Total([r \in Rows |-> Gain(w, r, c)'])= 0
      <4>1. NoRow \in RowType
        BY DEF RowType
      <4>2. QtyOf(NoRow, c) = 0
        BY <4>1, RowFacts
      <4>3. \A r \in Rows : Gain(w, r, c)' = 0
        BY <2>2, <4>2 DEF Gain
      <4>4. [r \in Rows |-> Gain(w, r, c)'] \in [Rows -> Nat]
        BY <4>3
      <4>. QED
        BY <4>3, <4>4, TotalOfNone
    <3>. QED
      BY <2>2, <3>1
  <2>. QED
    BY <2>1, <2>2 DEF SameChanges
<1>3. ASSUME NEW c \in Codes, c[1] \notin spoiled'
      PROVE  received'[c] = Total([r \in Rows |-> QtyOf(rows'[r], c)])
  <2>1. ASSUME NEW r \in Rows PROVE QtyOf(rows'[r], c) = QtyOf(rows[r], c)
    <3>1. CASE /\ rows'[r].seq = rows[r].seq /\ rows'[r].status = rows[r].status
               /\ rows'[r].qty = rows[r].qty
      BY <3>1 DEF QtyOf
    <3>2. CASE rows[r] = NoRow /\ rows'[r].qty = 0
      <4>1. QtyOf(rows[r], c) = 0
        BY <3>2, RowFacts DEF CatalogType
      <4>. QED
        BY <3>2, <4>1 DEF QtyOf
    <3>. QED
      BY <3>1, <3>2 DEF SameUnits
  <2>2. received[c] = Total([r \in Rows |-> QtyOf(rows[r], c)])
    BY <1>3 DEF NothingReceivedIsLost
  <2>3. [r \in Rows |-> QtyOf(rows'[r], c)] = [r \in Rows |-> QtyOf(rows[r], c)]
    BY <2>1
  <2>. QED
    BY <1>3, <2>2, <2>3
<1>4. GotIsGain'
  BY <1>2 DEF GotIsGain
<1>5. NothingReceivedIsLost'
  BY <1>3 DEF NothingReceivedIsLost
<1>. QED
  BY <1>1, <1>4, <1>5

\* What a request has in hand, when the others and the codes of the rows stay.
LEMMA HandsKept ==
  ASSUME CatalogType, ItemInHand, DeleteInHand, NEW w \in Workers,
         \A v \in Workers \ {w} : req'[v] = req[v],
         \A r \in Rows : rows[r] # NoRow => rows'[r].seq = rows[r].seq /\ rows'[r].status = rows[r].status,
         req'[w].at = "write" =>
           /\ req'[w].todo # <<>>
           /\ req'[w].found # 0 => /\ req'[w].found \in Rows
                                   /\ rows'[req'[w].found].seq = Head(req'[w].todo).seq
                                   /\ rows'[req'[w].found].status = Head(req'[w].todo).status,
         req'[w].at \in {"begin", "deleteRow", "recycle"} =>
           req'[w].row \in Rows /\ req'[w].seq \in Seqs /\ rows'[req'[w].row].seq = req'[w].seq
  PROVE  ItemInHand' /\ DeleteInHand'
<1>1. \A r \in Rows : rows[r] \in RowType
  BY DEF CatalogType
<1>2. \A r \in Rows : rows[r].seq \in Seqs => rows[r] # NoRow
  BY <1>1, RowFacts DEF Seqs
<1>3. ASSUME NEW v \in Workers \ {w}, req[v].at = "write"
      PROVE  /\ req[v].todo # <<>>
             /\ req[v].found # 0 => /\ req[v].found \in Rows
                                    /\ rows'[req[v].found].seq = Head(req[v].todo).seq
                                    /\ rows'[req[v].found].status = Head(req[v].todo).status
  <2>1. req[v].todo # <<>> /\ req[v].todo \in Seq(Items)
    BY <1>3 DEF ItemInHand, CatalogType, RequestType
  <2>2. Head(req[v].todo) \in Items
    BY <2>1, HeadTailProperties
  <2>3. Head(req[v].todo).seq \in Seqs
    BY <2>2 DEF Items
  <2>4. req[v].found # 0 => /\ req[v].found \in Rows
                            /\ rows[req[v].found].seq = Head(req[v].todo).seq
                            /\ rows[req[v].found].status = Head(req[v].todo).status
    BY <1>3 DEF ItemInHand
  <2>. QED
    BY <1>2, <2>1, <2>3, <2>4
<1>4. ItemInHand'
  BY <1>3 DEF ItemInHand
<1>5. \A v \in Workers \ {w} : req[v].at \in {"begin", "deleteRow", "recycle"} =>
        req[v].row \in Rows /\ req[v].seq \in Seqs /\ rows'[req[v].row].seq = req[v].seq
  BY <1>2 DEF DeleteInHand
<1>6. DeleteInHand'
  BY <1>5 DEF DeleteInHand
<1>. QED
  BY <1>4, <1>6

-----------------------------------------------------------------------------
(* Where the numbers are. *)

LEMMA PlacesFinite ==
  ASSUME NEW s
  PROVE  /\ IsFiniteSet(Live(s)) /\ Cardinality(Live(s)) \in Nat
         /\ IsFiniteSet(Deleting(s)) /\ Cardinality(Deleting(s)) \in Nat
<1>1. Live(s) \subseteq Rows /\ Deleting(s) \subseteq Workers
  BY DEF Live, Deleting
<1>2. IsFiniteSet(Live(s)) /\ IsFiniteSet(Deleting(s))
  BY <1>1, RowsFinite, CatalogAssumption, FS_Subset
<1>. QED
  BY <1>2, FS_CardinalityType

\* A number nobody has is nowhere.
LEMMA FreshIsNowhere ==
  ASSUME CatalogType, DeleteInHand, FreshIsUnused, NEW s \in Seqs, s \notin spoiled, s > counter
  PROVE  /\ held[s] = 0 /\ recycled[s] = 0
         /\ Live(s) = {} /\ Cardinality(Live(s)) = 0
         /\ Deleting(s) = {} /\ Cardinality(Deleting(s)) = 0
<1>1. held[s] = 0 /\ recycled[s] = 0 /\ \A r \in Rows : rows[r].seq # s
  BY DEF FreshIsUnused
<1>2. Live(s) = {} /\ Deleting(s) = {}
  BY <1>1 DEF Live, Deleting, DeleteInHand
<1>. QED
  BY <1>1, <1>2, FS_EmptySet

\* Steps that move no number.
LEMMA PlacesKept ==
  ASSUME SeqInOnePlace, counter' = counter, held' = held, recycled' = recycled,
         doubled' = doubled, spoiled \subseteq spoiled',
         \A s \in Seqs : s \notin spoiled' => Live(s)' = Live(s) /\ Deleting(s)' = Deleting(s)
  PROVE  SeqInOnePlace'
<1>1. ASSUME NEW s \in Seqs, s \notin spoiled'
      PROVE  LET places == held[s] + Cardinality(Live(s)) + recycled[s] + Cardinality(Deleting(s))
             IN (s <= counter => places >= 1) /\ (s \notin doubled => places <= 1)
  <2>1. s \in Seqs \ spoiled
    BY <1>1
  <2>. QED
    BY <2>1 DEF SeqInOnePlace
<1>2. ASSUME NEW s \in Seqs, s \notin spoiled'
      PROVE  held'[s] + Cardinality(Live(s)') + recycled'[s] + Cardinality(Deleting(s)')
             = held[s] + Cardinality(Live(s)) + recycled[s] + Cardinality(Deleting(s))
  BY <1>2
<1>. QED
  BY <1>1, <1>2 DEF SeqInOnePlace

\* Allocation: the number s leaves the pool, or the counter reaches it.
LEMMA PlacesAllocated ==
  ASSUME CatalogType, DeleteInHand, FreshIsUnused, SeqInOnePlace, NEW s \in Seqs,
         held' = [held EXCEPT ![s] = @ + 1], rows' = rows, req' = req,
         \/ counter' = counter /\ recycled[s] > 0 /\ recycled' = [recycled EXCEPT ![s] = 0]
         \/ s = counter + 1 /\ counter' = counter + 1 /\ \A t \in Seqs : recycled'[t] = recycled[t],
         spoiled' = spoiled, doubled' = doubled
  PROVE  FreshIsUnused' /\ SeqInOnePlace'
<1>1. /\ counter \in Nat /\ \A t \in Seqs : t \in Nat /\ held[t] \in Nat /\ recycled[t] \in Nat
      /\ DOMAIN held = Seqs /\ DOMAIN recycled = Seqs
  BY DEF CatalogType, Seqs
<1>2. /\ held'[s] = held[s] + 1
      /\ \A t \in Seqs \ {s} : held'[t] = held[t] /\ recycled'[t] = recycled[t]
  BY <1>1
<1>3. \A t : Live(t)' = Live(t) /\ Deleting(t)' = Deleting(t)
  BY DEF Live, Deleting
<1>4. \A t \in Seqs \ {s} : t <= counter' => t <= counter
  BY <1>1
<1>5. s \notin spoiled => s <= counter'
  <2>1. CASE counter' = counter /\ recycled[s] > 0
    <3>1. s \notin spoiled /\ s > counter => recycled[s] = 0
      BY DEF FreshIsUnused
    <3>. QED
      BY <1>1, <2>1, <3>1
  <2>2. CASE s = counter + 1 /\ counter' = counter + 1
    BY <1>1, <2>2
  <2>. QED
    BY <2>1, <2>2
<1>6. FreshIsUnused'
  <2>1. ASSUME NEW t \in Seqs, t \notin spoiled, t > counter' PROVE t # s /\ t > counter
    <3>1. t # s
      BY <1>1, <1>5, <2>1
    <3>2. counter <= counter'
      BY <1>1
    <3>. QED
      BY <1>1, <2>1, <3>1, <3>2
  <2>. QED
    BY <1>2, <2>1 DEF FreshIsUnused
<1>7. ASSUME NEW t \in Seqs, t \notin spoiled
      PROVE  LET places == held'[t] + Cardinality(Live(t)) + recycled'[t] + Cardinality(Deleting(t))
             IN (t <= counter' => places >= 1) /\ (t \notin doubled => places <= 1)
  <2>. DEFINE l == Cardinality(Live(t))
              d == Cardinality(Deleting(t))
  <2>1. l \in Nat /\ d \in Nat
    BY PlacesFinite
  <2>2. /\ t <= counter => held[t] + l + recycled[t] + d >= 1
        /\ t \notin doubled => held[t] + l + recycled[t] + d <= 1
    BY <1>7 DEF SeqInOnePlace
  <2>3. t > counter => held[t] = 0 /\ recycled[t] = 0 /\ l = 0 /\ d = 0
    BY <1>7, FreshIsNowhere
  <2>. HIDE DEF l, d
  <2>4. CASE t # s
    BY <1>1, <1>2, <1>4, <2>1, <2>2, <2>4 DEF l, d
  <2>5. CASE t = s /\ recycled[s] > 0 /\ recycled' = [recycled EXCEPT ![s] = 0]
    <3>1. held'[t] = held[t] + 1 /\ recycled'[t] = 0 /\ recycled[t] > 0
      BY <1>1, <1>2, <2>5
    <3>2. (held'[t] + l + recycled'[t] + d >= 1)
          /\ (t \notin doubled => held'[t] + l + recycled'[t] + d <= 1)
      BY <1>1, <2>1, <2>2, <3>1
    <3>. QED
      BY <3>2 DEF l, d
  <2>6. CASE t = s /\ s = counter + 1 /\ \A x \in Seqs : recycled'[x] = recycled[x]
    <3>1. held'[t] = held[t] + 1 /\ recycled'[t] = recycled[t] /\ t > counter
      BY <1>1, <1>2, <2>6
    <3>2. held'[t] + l + recycled'[t] + d = 1
      BY <2>3, <3>1
    <3>. QED
      BY <3>2 DEF l, d
  <2>. QED
    BY <2>4, <2>5, <2>6
<1>8. SeqInOnePlace'
  BY <1>3, <1>7 DEF SeqInOnePlace
<1>. QED
  BY <1>6, <1>8

-----------------------------------------------------------------------------
(* The steps. *)

\* The number an allocation hands out.
LEMMA NextSeqProperties ==
  ASSUME CatalogType, NextSeq <= MaxSeq
  PROVE  /\ NextSeq \in Seqs
         /\ InPool # {} => recycled[NextSeq] > 0
         /\ InPool = {} => NextSeq = counter + 1 /\ \A s \in Seqs : recycled[s] = 0
<1>1. counter \in Nat /\ MaxSeq \in Nat /\ \A s \in Seqs : recycled[s] \in Nat
  BY CatalogAssumption DEF CatalogType
<1>2. CASE InPool # {}
  <2>1. InPool \subseteq Nat
    BY DEF InPool, Seqs
  <2>2. Min(InPool) \in InPool
    BY <1>2, <2>1, LeastElement
  <2>. QED
    BY <1>2, <2>2 DEF NextSeq, InPool
<1>3. CASE InPool = {}
  <2>1. NextSeq = counter + 1
    BY <1>3 DEF NextSeq
  <2>2. counter + 1 \in 1 .. MaxSeq
    BY <1>1, <2>1
  <2>3. \A s \in Seqs : recycled[s] = 0
    BY <1>1, <1>3 DEF InPool
  <2>. QED
    BY <1>3, <2>1, <2>2, <2>3 DEF Seqs
<1>. QED
  BY <1>2, <1>3

LEMMA AllocationSteps ==
  ASSUME CatalogIInv, AllocateSeq \/ AllocateFromCounter \/ AllocateLostCommit
  PROVE  CatalogIInv'
<1>1. /\ CatalogType /\ ItemInHand /\ DeleteInHand /\ ChangesApart
      /\ GotIsGain /\ NothingReceivedIsLost /\ FreshIsUnused /\ SeqInOnePlace
  BY DEF CatalogIInv
<1>2. rows' = rows /\ req' = req /\ received' = received /\ doubled' = doubled
  BY DEF AllocateSeq, AllocateFromCounter, AllocateLostCommit, histories
<1>3. PICK s \in Seqs :
        /\ held' = [held EXCEPT ![s] = @ + 1]
        /\ \/ /\ spoiled' = spoiled
              /\ \/ counter' = counter /\ recycled[s] > 0 /\ recycled' = [recycled EXCEPT ![s] = 0]
                 \/ s = counter + 1 /\ counter' = counter + 1 /\ \A t \in Seqs : recycled'[t] = recycled[t]
           \/ spoiled' = spoiled \cup {s} /\ counter' = counter /\ recycled' = recycled
        /\ recycled' \in [Seqs -> Nat]
  <2>1. recycled \in [Seqs -> Nat] /\ counter \in Nat /\ MaxSeq \in Nat
    BY <1>1, CatalogAssumption DEF CatalogType
  <2>2. CASE AllocateSeq
    <3>1. /\ NextSeq <= MaxSeq /\ TakeSeq(NextSeq) /\ held' = [held EXCEPT ![NextSeq] = @ + 1]
          /\ spoiled' = spoiled
      BY <2>2 DEF AllocateSeq, histories
    <3>2. /\ NextSeq \in Seqs
          /\ InPool # {} => recycled[NextSeq] > 0
          /\ InPool = {} => NextSeq = counter + 1 /\ \A t \in Seqs : recycled[t] = 0
      BY <1>1, <3>1, NextSeqProperties
    <3>3. /\ recycled' = [recycled EXCEPT ![NextSeq] = 0]
          /\ counter' = IF InPool = {} THEN counter + 1 ELSE counter
      BY <3>1 DEF TakeSeq
    <3>4. recycled' \in [Seqs -> Nat]
      BY <2>1, <3>3
    <3>5. InPool = {} => \A t \in Seqs : recycled'[t] = recycled[t]
      BY <2>1, <3>2, <3>3
    <3>. HIDE DEF NextSeq
    <3>. QED
      BY <3>1, <3>2, <3>3, <3>4, <3>5
  <2>3. CASE AllocateFromCounter
    <3>1. counter + 1 \in Seqs
      BY <2>1, <2>3 DEF AllocateFromCounter, Seqs
    <3>2. /\ held' = [held EXCEPT ![counter + 1] = @ + 1] /\ spoiled' = spoiled
          /\ recycled' = recycled /\ counter' = counter + 1
      BY <2>3 DEF AllocateFromCounter, histories
    <3>. QED
      BY <2>1, <3>1, <3>2
  <2>4. CASE AllocateLostCommit
    <3>1. /\ NextSeq <= MaxSeq /\ held' = [held EXCEPT ![NextSeq] = @ + 1]
          /\ spoiled' = spoiled \cup {NextSeq} /\ recycled' = recycled /\ counter' = counter
      BY <2>4 DEF AllocateLostCommit
    <3>2. NextSeq \in Seqs
      BY <1>1, <3>1, NextSeqProperties
    <3>. QED
      BY <2>1, <3>1, <3>2
  <2>. QED
    BY <2>2, <2>3, <2>4
<1>4. CatalogType'
  <2>1. held' \in [Seqs -> Nat] /\ counter' \in Nat
    BY <1>1, <1>3 DEF CatalogType
  <2>. QED
    BY <1>1, <1>2, <1>3, <2>1 DEF CatalogType
<1>5. ItemInHand' /\ DeleteInHand'
  BY <1>1, <1>2 DEF ItemInHand, DeleteInHand
<1>6. ChangesApart' /\ GotIsGain' /\ NothingReceivedIsLost'
  <2>1. SameUnits /\ \A w \in Workers : SameChanges(w)
    BY <1>2 DEF SameUnits, SameChanges
  <2>2. spoiled \subseteq spoiled' /\ \A c \in Codes : received'[c] = received[c]
    BY <1>2, <1>3
  <2>. QED
    BY <1>1, <1>4, <2>1, <2>2, UnitsKept
<1>7. FreshIsUnused' /\ SeqInOnePlace'
  <2>1. CASE spoiled' = spoiled
    <3>1. CASE counter' = counter /\ recycled[s] > 0 /\ recycled' = [recycled EXCEPT ![s] = 0]
      BY <1>1, <1>2, <1>3, <2>1, <3>1, PlacesAllocated
    <3>2. CASE s = counter + 1 /\ counter' = counter + 1 /\ \A t \in Seqs : recycled'[t] = recycled[t]
      BY <1>1, <1>2, <1>3, <2>1, <3>2, PlacesAllocated
    <3>3. CASE s \in spoiled /\ counter' = counter /\ recycled' = recycled
      <4>1. \A t \in Seqs : t \notin spoiled => held'[t] = held[t]
        BY <1>1, <1>3, <3>3 DEF CatalogType
      <4>2. \A t : Live(t)' = Live(t) /\ Deleting(t)' = Deleting(t)
        BY <1>2 DEF Live, Deleting
      <4>3. FreshIsUnused'
        BY <1>1, <1>2, <2>1, <3>3, <4>1 DEF FreshIsUnused
      <4>4. SeqInOnePlace'
        BY <1>1, <1>2, <2>1, <3>3, <4>1, <4>2 DEF SeqInOnePlace
      <4>. QED
        BY <4>3, <4>4
    <3>. QED
      BY <1>3, <2>1, <3>1, <3>2, <3>3
  <2>2. CASE spoiled' = spoiled \cup {s} /\ counter' = counter /\ recycled' = recycled
    <3>1. \A t \in Seqs : t \notin spoiled' => held'[t] = held[t] /\ t \notin spoiled
      BY <1>1, <1>3, <2>2 DEF CatalogType
    <3>2. \A t : Live(t)' = Live(t) /\ Deleting(t)' = Deleting(t)
      BY <1>2 DEF Live, Deleting
    <3>3. FreshIsUnused'
      BY <1>1, <1>2, <2>2, <3>1 DEF FreshIsUnused
    <3>4. SeqInOnePlace'
      BY <1>1, <1>2, <2>2, <3>1, <3>2 DEF SeqInOnePlace
    <3>. QED
      BY <3>3, <3>4
  <2>. QED
    BY <1>3, <2>1, <2>2
<1>. QED
  BY <1>4, <1>5, <1>6, <1>7 DEF CatalogIInv

LEMMA FirstUnusedProperties ==
  ASSUME Unused # {}
  PROVE  /\ FirstUnused \in Rows /\ rows[FirstUnused] = NoRow
         /\ \A w \in Workers : req[w].new[FirstUnused] = NoRow
<1>1. Unused \subseteq Nat
  BY DEF Unused, Rows
<1>2. FirstUnused \in Unused
  BY <1>1, LeastElement DEF FirstUnused
<1>. QED
  BY <1>2 DEF Unused

LEMMA CreateStep ==
  ASSUME CatalogIInv, NEW s \in Seqs, NEW st \in Statuses, CreateProduct(s, st)
  PROVE  CatalogIInv'
<1>. DEFINE u == FirstUnused
            row == [state |-> "here", seq |-> s, status |-> st, qty |-> 0]
<1>1. /\ CatalogType /\ ItemInHand /\ DeleteInHand /\ ChangesApart
      /\ GotIsGain /\ NothingReceivedIsLost /\ FreshIsUnused /\ SeqInOnePlace
  BY DEF CatalogIInv
<1>2. /\ Unused # {} /\ held[s] > 0 /\ held' = [held EXCEPT ![s] = @ - 1]
      /\ counter' = counter /\ recycled' = recycled /\ req' = req /\ received' = received
      /\ doubled' = doubled
      /\ \/ rows' = [rows EXCEPT ![u] = row] /\ spoiled' = spoiled
         \/ spoiled' = spoiled \cup {s} /\ rows' = rows
  BY DEF CreateProduct
<1>3. u \in Rows /\ rows[u] = NoRow /\ \A w \in Workers : req[w].new[u] = NoRow
  BY <1>2, FirstUnusedProperties
<1>4. row \in RowType /\ row # NoRow /\ row.qty = 0 /\ row.seq = s /\ row.state = "here"
  BY DEF RowType, RealRow, NoRow
<1>. HIDE DEF u, row
<1>5. /\ held \in [Seqs -> Nat] /\ held' \in [Seqs -> Nat] /\ held'[s] = held[s] - 1
      /\ \A t \in Seqs \ {s} : held'[t] = held[t]
  BY <1>1, <1>2 DEF CatalogType
<1>6. \/ /\ rows'[u] = row /\ (\A r \in Rows \ {u} : rows'[r] = rows[r]) /\ spoiled' = spoiled
      \/ spoiled' = spoiled \cup {s} /\ rows' = rows
  BY <1>1, <1>2, <1>3 DEF CatalogType
<1>7. CatalogType'
  <2>1. rows' \in [Rows -> RowType]
    BY <1>1, <1>2, <1>4 DEF CatalogType
  <2>. QED
    BY <1>1, <1>2, <1>5, <2>1 DEF CatalogType
<1>8. SameUnits
  BY <1>3, <1>4, <1>6 DEF SameUnits
<1>9. ChangesApart' /\ GotIsGain' /\ NothingReceivedIsLost'
  <2>1. \A w \in Workers : SameChanges(w)
    BY <1>2 DEF SameChanges
  <2>2. spoiled \subseteq spoiled' /\ \A c \in Codes : received'[c] = received[c]
    BY <1>2
  <2>. QED
    BY <1>1, <1>7, <1>8, <2>1, <2>2, UnitsKept
<1>10. \A r \in Rows : rows[r] # NoRow => rows'[r] = rows[r]
  BY <1>3, <1>6
<1>11. \A r \in Rows : rows[r].seq \in Seqs => rows'[r] = rows[r]
  <2>1. \A r \in Rows : rows[r] \in RowType
    BY <1>1 DEF CatalogType
  <2>. QED
    BY <1>10, <2>1, RowFacts DEF Seqs
<1>12. ItemInHand'
  <2>1. ASSUME NEW w \in Workers, req[w].at = "write" PROVE Head(req[w].todo).seq \in Seqs
    <3>1. req[w].todo # <<>> /\ req[w].todo \in Seq(Items)
      BY <1>1, <2>1 DEF ItemInHand, CatalogType, RequestType
    <3>2. Head(req[w].todo) \in Items
      BY <3>1, HeadTailProperties
    <3>. QED
      BY <3>2 DEF Items
  <2>. QED
    BY <1>1, <1>2, <1>11, <2>1 DEF ItemInHand
<1>13. DeleteInHand'
  BY <1>1, <1>2, <1>11 DEF DeleteInHand
<1>14. FreshIsUnused'
  <2>1. ASSUME NEW t \in Seqs, t \notin spoiled', t > counter
        PROVE  held'[t] = 0 /\ \A r \in Rows : rows'[r].seq # t
    <3>1. held[t] = 0 /\ \A r \in Rows : rows[r].seq # t
      BY <1>1, <1>6, <2>1 DEF FreshIsUnused
    <3>2. t # s
      BY <1>2, <3>1
    <3>. QED
      BY <1>4, <1>5, <1>6, <3>1, <3>2
  <2>2. spoiled \subseteq spoiled'
    BY <1>6
  <2>. QED
    BY <1>1, <1>2, <2>1, <2>2 DEF FreshIsUnused
<1>15. SeqInOnePlace'
  <2>1. NoRow.state # "here"
    BY DEF NoRow
  <2>2. \A t : Deleting(t)' = Deleting(t)
    BY <1>2 DEF Deleting
  <2>3. ASSUME NEW t \in Seqs, t \notin spoiled'
        PROVE  held'[t] + Cardinality(Live(t)') + recycled[t] + Cardinality(Deleting(t))
               = held[t] + Cardinality(Live(t)) + recycled[t] + Cardinality(Deleting(t))
    <3>1. CASE t # s
      <4>1. Live(t)' = Live(t)
        <5>1. \A r \in Rows : (rows'[r].state = "here" /\ rows'[r].seq = t)
                              <=> (rows[r].state = "here" /\ rows[r].seq = t)
          BY <1>3, <1>4, <1>6, <2>1, <3>1
        <5>. QED
          BY <5>1 DEF Live
      <4>. QED
        BY <1>5, <3>1, <4>1
    <3>2. CASE t = s
      <4>1. rows'[u] = row /\ \A r \in Rows \ {u} : rows'[r] = rows[r]
        BY <1>6, <2>3, <3>2
      <4>2. Live(t)' = Live(t) \cup {u} /\ u \notin Live(t)
        <5>1. u \notin Live(t) /\ u \in Live(t)'
          BY <1>3, <1>4, <2>1, <3>2, <4>1 DEF Live
        <5>2. \A r \in Rows \ {u} : r \in Live(t)' <=> r \in Live(t)
          BY <4>1 DEF Live
        <5>3. Live(t) \subseteq Rows /\ Live(t)' \subseteq Rows
          BY DEF Live
        <5>. QED
          BY <1>3, <5>1, <5>2, <5>3
      <4>3. Cardinality(Live(t)') = Cardinality(Live(t)) + 1
        BY <4>2, PlacesFinite, FS_AddElement
      <4>4. /\ held[t] \in Nat /\ recycled[t] \in Nat /\ held'[t] = held[t] - 1
            /\ Cardinality(Live(t)) \in Nat /\ Cardinality(Deleting(t)) \in Nat
        BY <1>1, <1>5, <3>2, PlacesFinite DEF CatalogType
      <4>. QED
        BY <4>3, <4>4
    <3>. QED
      BY <3>1, <3>2
  <2>4. spoiled \subseteq spoiled'
    BY <1>6
  <2>. QED
    BY <1>1, <1>2, <2>2, <2>3, <2>4 DEF SeqInOnePlace
<1>. QED
  BY <1>7, <1>9, <1>12, <1>13, <1>14, <1>15 DEF CatalogIInv

\* Steps of one request that change nothing but the request itself.
LEMMA QuietStep ==
  ASSUME CatalogIInv, NEW w \in Workers,
         rows' = rows, counter' = counter, recycled' = recycled, held' = held,
         received' = received, doubled' = doubled, spoiled \subseteq spoiled',
         \A v \in Workers \ {w} : req'[v] = req[v], req' \in [Workers -> RequestType],
         SameChanges(w),
         req'[w].at = "write" =>
           /\ req'[w].todo # <<>>
           /\ req'[w].found # 0 => /\ req'[w].found \in Rows
                                   /\ rows[req'[w].found].seq = Head(req'[w].todo).seq
                                   /\ rows[req'[w].found].status = Head(req'[w].todo).status,
         req'[w].at \in {"begin", "deleteRow", "recycle"} =>
           req'[w].row \in Rows /\ req'[w].seq \in Seqs /\ rows[req'[w].row].seq = req'[w].seq,
         \A s \in Seqs : s \notin spoiled' /\ s > counter =>
           \A i \in DOMAIN req'[w].todo : req'[w].todo[i].seq # s,
         req'[w].at # "recycle", req[w].at = "recycle" => req[w].seq \in spoiled'
  PROVE  CatalogIInv'
<1>1. /\ CatalogType /\ ItemInHand /\ DeleteInHand /\ ChangesApart
      /\ GotIsGain /\ NothingReceivedIsLost /\ FreshIsUnused /\ SeqInOnePlace
  BY DEF CatalogIInv
<1>2. CatalogType'
  BY <1>1 DEF CatalogType
<1>3. ItemInHand' /\ DeleteInHand'
  BY <1>1, HandsKept
<1>4. ChangesApart' /\ GotIsGain' /\ NothingReceivedIsLost'
  <2>1. SameUnits
    BY DEF SameUnits
  <2>2. \A v \in Workers : SameChanges(v)
    <3>1. \A v \in Workers \ {w} : SameChanges(v)
      BY DEF SameChanges
    <3>. QED
      BY <3>1
  <2>. QED
    BY <1>1, <1>2, <2>1, <2>2, UnitsKept
<1>5. FreshIsUnused'
  <2>1. ASSUME NEW s \in Seqs, s \notin spoiled', s > counter, NEW r \in Rows
        PROVE  req'[w].new[r].seq # s
    <3>1. req[w].new[r].seq # s
      BY <1>1, <2>1 DEF FreshIsUnused
    <3>2. NoRow.seq # s
      BY DEF NoRow, Seqs
    <3>. QED
      BY <3>1, <3>2 DEF SameChanges
  <2>2. ASSUME NEW s \in Seqs, s \notin spoiled', s > counter
        PROVE  /\ held[s] = 0 /\ recycled[s] = 0
               /\ \A r \in Rows : rows[r].seq # s
               /\ \A v \in Workers : /\ \A r \in Rows : req'[v].new[r].seq # s
                                     /\ \A i \in DOMAIN req'[v].todo : req'[v].todo[i].seq # s
    <3>1. /\ held[s] = 0 /\ recycled[s] = 0
          /\ \A r \in Rows : rows[r].seq # s
          /\ \A v \in Workers : /\ \A r \in Rows : req[v].new[r].seq # s
                                /\ \A i \in DOMAIN req[v].todo : req[v].todo[i].seq # s
      BY <1>1, <2>2 DEF FreshIsUnused
    <3>2. \A v \in Workers \ {w} : /\ \A r \in Rows : req'[v].new[r].seq # s
                                   /\ \A i \in DOMAIN req'[v].todo : req'[v].todo[i].seq # s
      BY <3>1
    <3>3. /\ \A r \in Rows : req'[w].new[r].seq # s
          /\ \A i \in DOMAIN req'[w].todo : req'[w].todo[i].seq # s
      BY <2>1, <2>2
    <3>. QED
      BY <3>1, <3>2, <3>3
  <2>. QED
    BY <2>2 DEF FreshIsUnused
<1>6. SeqInOnePlace'
  <2>1. \A s : Live(s)' = Live(s)
    BY DEF Live
  <2>2. \A s \in Seqs : s \notin spoiled' => Deleting(s)' = Deleting(s)
    BY DEF Deleting
  <2>. QED
    BY <1>1, <2>1, <2>2, PlacesKept
<1>. QED
  BY <1>2, <1>3, <1>4, <1>5, <1>6 DEF CatalogIInv

LEMMA BeginInboundStep ==
  ASSUME CatalogIInv, NEW w \in Workers, NEW items \in Batches, BeginInbound(w, items)
  PROVE  CatalogIInv'
<1>. DEFINE q == [Idle EXCEPT !.at = "find", !.todo = items]
<1>1. CatalogType /\ FreshIsUnused
  BY DEF CatalogIInv
<1>2. /\ req[w] = Idle /\ req' = [req EXCEPT ![w] = q]
      /\ \A i \in DOMAIN items : \/ held[items[i].seq] > 0
                                 \/ \E r \in Rows : rows[r].state = "here" /\ rows[r].seq = items[i].seq
      /\ rows' = rows /\ counter' = counter /\ recycled' = recycled /\ held' = held
      /\ received' = received /\ doubled' = doubled /\ spoiled' = spoiled
  BY DEF BeginInbound, histories
<1>3. items \in Seq(Items)
  BY CatalogAssumption
<1>4. /\ q \in RequestType /\ q.at = "find" /\ q.todo = items
      /\ q.new = Idle.new /\ q.adds = Idle.adds /\ q.got = Idle.got
  BY <1>3, IdleType DEF RequestType, Places
<1>. HIDE DEF q
<1>5. req'[w] = q /\ \A v \in Workers \ {w} : req'[v] = req[v]
  BY <1>1, <1>2 DEF CatalogType
<1>6. req' \in [Workers -> RequestType]
  BY <1>1, <1>2, <1>4 DEF CatalogType
<1>7. SameChanges(w)
  BY <1>2, <1>4, <1>5 DEF SameChanges
<1>8. ASSUME NEW s \in Seqs, s \notin spoiled, s > counter, NEW i \in DOMAIN items
      PROVE  items[i].seq # s
  <2>1. held[s] = 0 /\ \A r \in Rows : rows[r].seq # s
    BY <1>1, <1>8 DEF FreshIsUnused
  <2>. QED
    BY <1>2, <2>1
<1>9. \A s \in Seqs : s \notin spoiled' /\ s > counter =>
        \A i \in DOMAIN req'[w].todo : req'[w].todo[i].seq # s
  BY <1>2, <1>4, <1>5, <1>8
<1>10. req'[w].at = "find" /\ req[w].at = "idle" /\ spoiled \subseteq spoiled'
  BY <1>2, <1>4, <1>5, IdleType
<1>. QED
  BY <1>2, <1>5, <1>6, <1>7, <1>9, <1>10, QuietStep

LEMMA BeginDeleteStep ==
  ASSUME CatalogIInv, NEW w \in Workers, NEW r \in Rows, BeginDelete(w, r)
  PROVE  CatalogIInv'
<1>. DEFINE q == [Idle EXCEPT !.at = "begin", !.row = r, !.seq = rows[r].seq]
<1>1. CatalogType
  BY DEF CatalogIInv
<1>2. /\ req[w] = Idle /\ rows[r].state = "here" /\ req' = [req EXCEPT ![w] = q]
      /\ rows' = rows /\ counter' = counter /\ recycled' = recycled /\ held' = held
      /\ received' = received /\ doubled' = doubled /\ spoiled' = spoiled
  BY DEF BeginDelete, histories
<1>3. rows[r].seq \in Seqs
  <2>1. rows[r] \in RowType
    BY <1>1 DEF CatalogType
  <2>. QED
    BY <1>2, <2>1, RowFacts
<1>4. r \in Nat /\ rows[r].seq \in Nat
  BY <1>3 DEF Rows, Seqs
<1>5. /\ q \in RequestType /\ q.at = "begin" /\ q.todo = Idle.todo /\ q.row = r /\ q.seq = rows[r].seq
      /\ q.new = Idle.new /\ q.adds = Idle.adds /\ q.got = Idle.got
  BY <1>4, IdleType DEF RequestType, Places
<1>. HIDE DEF q
<1>6. req'[w] = q /\ \A v \in Workers \ {w} : req'[v] = req[v]
  BY <1>1, <1>2 DEF CatalogType
<1>7. req' \in [Workers -> RequestType]
  BY <1>1, <1>2, <1>5 DEF CatalogType
<1>8. SameChanges(w)
  BY <1>2, <1>5, <1>6 DEF SameChanges
<1>9. q.todo = <<>> /\ DOMAIN <<>> = {}
  BY <1>5, IdleType
<1>. QED
  BY <1>2, <1>3, <1>5, <1>6, <1>7, <1>8, <1>9, IdleType, QuietStep

LEMMA BeginTxStep ==
  ASSUME CatalogIInv, NEW w \in Workers, BeginTx(w)
  PROVE  CatalogIInv'
<1>. DEFINE q == [req[w] EXCEPT !.at = "deleteRow"]
<1>1. CatalogType /\ FreshIsUnused /\ DeleteInHand
  BY DEF CatalogIInv
<1>2. /\ req[w].at = "begin" /\ req' = [req EXCEPT ![w] = q]
      /\ rows' = rows /\ counter' = counter /\ recycled' = recycled /\ held' = held
      /\ received' = received /\ doubled' = doubled /\ spoiled' = spoiled
  BY DEF BeginTx, histories
<1>3. req[w] \in RequestType
  BY <1>1 DEF CatalogType
<1>4. /\ q \in RequestType /\ q.at = "deleteRow" /\ q.todo = req[w].todo
      /\ q.row = req[w].row /\ q.seq = req[w].seq
      /\ q.new = req[w].new /\ q.adds = req[w].adds /\ q.got = req[w].got
  BY <1>3 DEF RequestType, Places
<1>. HIDE DEF q
<1>5. req'[w] = q /\ \A v \in Workers \ {w} : req'[v] = req[v]
  BY <1>1, <1>2 DEF CatalogType
<1>6. req' \in [Workers -> RequestType]
  BY <1>1, <1>2, <1>4 DEF CatalogType
<1>7. SameChanges(w)
  BY <1>4, <1>5 DEF SameChanges
<1>8. req[w].row \in Rows /\ req[w].seq \in Seqs /\ rows[req[w].row].seq = req[w].seq
  BY <1>1, <1>2 DEF DeleteInHand
<1>9. \A s \in Seqs : s \notin spoiled /\ s > counter => \A i \in DOMAIN req[w].todo : req[w].todo[i].seq # s
  BY <1>1 DEF FreshIsUnused
<1>. QED
  BY <1>2, <1>4, <1>5, <1>6, <1>7, <1>8, <1>9, QuietStep

LEMMA FindStep ==
  ASSUME CatalogIInv, NEW w \in Workers, FindProductByCode(w)
  PROVE  CatalogIInv'
<1>1. CatalogType /\ FreshIsUnused
  BY DEF CatalogIInv
<1>2. /\ req[w].at = "find" /\ req[w].todo # <<>>
      /\ rows' = rows /\ counter' = counter /\ recycled' = recycled /\ held' = held
      /\ received' = received /\ doubled' = doubled /\ spoiled' = spoiled
  BY DEF FindProductByCode, histories
<1>3. PICK f \in Nat, b \in Nat :
        /\ req' = [req EXCEPT ![w].at = "write", ![w].found = f, ![w].base = b]
        /\ f # 0 => /\ f \in Rows
                    /\ rows[f].seq = Head(req[w].todo).seq
                    /\ rows[f].status = Head(req[w].todo).status
  <2>1. CASE req' = [req EXCEPT ![w].at = "write", ![w].found = 0, ![w].base = 0]
    BY <2>1
  <2>2. ASSUME NEW r \in Matching(Head(req[w].todo)),
               req' = [req EXCEPT ![w].at = "write", ![w].found = r, ![w].base = rows[r].qty]
        PROVE  \E f, b \in Nat :
                 /\ req' = [req EXCEPT ![w].at = "write", ![w].found = f, ![w].base = b]
                 /\ f # 0 => /\ f \in Rows
                             /\ rows[f].seq = Head(req[w].todo).seq
                             /\ rows[f].status = Head(req[w].todo).status
    <3>1. r \in Rows /\ rows[r].seq = Head(req[w].todo).seq /\ rows[r].status = Head(req[w].todo).status
      BY <2>2 DEF Matching
    <3>2. rows[r].qty \in Nat
      BY <1>1, <3>1, RowFacts DEF CatalogType
    <3>3. r \in Nat
      BY <3>1 DEF Rows
    <3>. QED
      BY <2>2, <3>1, <3>2, <3>3
  <2>. QED
    BY <2>1, <2>2 DEF FindProductByCode
<1>. DEFINE q == [req[w] EXCEPT !.at = "write", !.found = f, !.base = b]
<1>4. req[w] \in RequestType
  BY <1>1 DEF CatalogType
<1>5. /\ q \in RequestType /\ q.at = "write" /\ q.todo = req[w].todo /\ q.found = f
      /\ q.new = req[w].new /\ q.adds = req[w].adds /\ q.got = req[w].got
  BY <1>4 DEF RequestType, Places
<1>6. req' = [req EXCEPT ![w] = q]
  BY <1>1, <1>3 DEF CatalogType
<1>. HIDE DEF q
<1>7. req'[w] = q /\ \A v \in Workers \ {w} : req'[v] = req[v]
  BY <1>1, <1>6 DEF CatalogType
<1>8. req' \in [Workers -> RequestType]
  BY <1>1, <1>5, <1>6 DEF CatalogType
<1>9. SameChanges(w)
  BY <1>5, <1>7 DEF SameChanges
<1>10. \A s \in Seqs : s \notin spoiled /\ s > counter => \A i \in DOMAIN req[w].todo : req[w].todo[i].seq # s
  BY <1>1 DEF FreshIsUnused
<1>. QED
  BY <1>2, <1>3, <1>5, <1>7, <1>8, <1>9, <1>10, QuietStep

LEMMA EndStep ==
  ASSUME CatalogIInv, NEW w \in Workers, EndRequest(w)
  PROVE  CatalogIInv'
<1>1. CatalogType
  BY DEF CatalogIInv
<1>2. /\ req' = [req EXCEPT ![w] = Idle]
      /\ spoiled' = IF req[w].at = "recycle" THEN spoiled \cup {req[w].seq} ELSE spoiled
      /\ rows' = rows /\ counter' = counter /\ recycled' = recycled /\ held' = held
      /\ received' = received /\ doubled' = doubled
  BY DEF EndRequest
<1>3. req'[w] = Idle /\ \A v \in Workers \ {w} : req'[v] = req[v]
  BY <1>1, <1>2 DEF CatalogType
<1>4. req' \in [Workers -> RequestType]
  BY <1>1, <1>2, IdleType DEF CatalogType
<1>5. SameChanges(w)
  BY <1>3, IdleType DEF SameChanges
<1>6. spoiled \subseteq spoiled' /\ (req[w].at = "recycle" => req[w].seq \in spoiled')
  BY <1>2
<1>7. Idle.at = "idle" /\ Idle.todo = <<>> /\ DOMAIN <<>> = {}
  BY IdleType
<1>. QED
  BY <1>2, <1>3, <1>4, <1>5, <1>6, <1>7, QuietStep

-----------------------------------------------------------------------------
(* An item is written. *)

\* What writing an item does to the request: slot is the row that gets qty units.
Written(w, item, qty, slot) ==
  /\ item \in Items /\ req[w].todo # <<>> /\ req[w].todo \in Seq(Items)
  /\ req' \in [Workers -> RequestType] /\ \A v \in Workers \ {w} : req'[v] = req[v]
  /\ req'[w].at \in {"find", "commit"} /\ req'[w].todo = Tail(req[w].todo)
  /\ \A c \in Codes : req'[w].got[c] = req[w].got[c] + (IF c = <<item.seq, item.status>> THEN qty ELSE 0)
  /\ \A r \in Rows \ {slot} : req'[w].new[r] = req[w].new[r] /\ req'[w].adds[r] = req[w].adds[r]
  /\ \/ /\ slot = FirstUnused /\ Unused # {} /\ spoiled' = spoiled
        /\ req'[w].new[slot] = [state |-> "here", seq |-> item.seq, status |-> item.status, qty |-> qty]
        /\ req'[w].adds[slot] = req[w].adds[slot]
     \/ /\ rows[slot].state = "here" /\ spoiled' = spoiled
        /\ rows[slot].seq = item.seq /\ rows[slot].status = item.status
        /\ req'[w].new[slot] = req[w].new[slot]
        /\ req'[w].adds[slot] = req[w].adds[slot] + qty
     \/ /\ spoiled' = spoiled \cup {item.seq}
        /\ req'[w].new[slot] = req[w].new[slot]
        /\ req'[w].adds[slot] = req[w].adds[slot]

LEMMA WriteEffect ==
  ASSUME CatalogIInv, NEW w \in Workers, WriteItem(w)
  PROVE  \E qty \in Nat : \E slot \in Rows : Written(w, Head(req[w].todo), qty, slot)
<1>. DEFINE item == Head(req[w].todo)
            code == <<item.seq, item.status>>
            f == req[w].found
            qty == IF item.qty # NoQty THEN item.qty ELSE IF f = 0 THEN 0 ELSE 1
            row == [state |-> "here", seq |-> item.seq, status |-> item.status, qty |-> qty]
            at2 == IF Len(req[w].todo) = 1 THEN "commit" ELSE "find"
            new2 == IF f = 0 THEN [req[w].new EXCEPT ![FirstUnused] = row] ELSE req[w].new
            adds2 == IF f # 0 /\ rows[f].state = "here"
                     THEN [req[w].adds EXCEPT ![f] = req[w].adds[f] + qty] ELSE req[w].adds
            got2 == [req[w].got EXCEPT ![code] = req[w].got[code] + qty]
            q == [req[w] EXCEPT !.at = at2, !.todo = Tail(req[w].todo), !.new = new2,
                                !.adds = adds2, !.got = got2]
<1>1. CatalogType /\ ItemInHand
  BY DEF CatalogIInv
<1>2. req[w] \in RequestType /\ req \in [Workers -> RequestType]
  BY <1>1 DEF CatalogType
<1>3. /\ req[w].new \in [Rows -> RowType] /\ req[w].adds \in [Rows -> Nat]
      /\ req[w].got \in [Codes -> Nat] /\ f \in Nat /\ req[w].todo \in Seq(Items)
  BY <1>2 DEF RequestType
<1>4. /\ req[w].at = "write" /\ (f = 0 => Unused # {})
      /\ spoiled' = IF f # 0 /\ rows[f].state # "here" THEN spoiled \cup {item.seq} ELSE spoiled
  BY DEF WriteItem
<1>5. req' = [req EXCEPT ![w] = q]
  BY DEF WriteItem
<1>6. /\ req[w].todo # <<>>
      /\ f # 0 => f \in Rows /\ rows[f].seq = item.seq /\ rows[f].status = item.status
  BY <1>1, <1>4 DEF ItemInHand
<1>7. item \in Items /\ Tail(req[w].todo) \in Seq(Items)
  BY <1>3, <1>6, HeadTailProperties
<1>8. item.seq \in Seqs /\ item.status \in Statuses /\ (item.qty # NoQty => item.qty \in Nat)
  BY <1>7 DEF Items
<1>9. qty \in Nat /\ code \in Codes
  BY <1>8 DEF Codes
<1>. HIDE DEF qty
<1>10. row \in RowType
  BY <1>8, <1>9 DEF RowType, RealRow
<1>11. f = 0 => FirstUnused \in Rows
  BY <1>4, FirstUnusedProperties
<1>. HIDE DEF f, item, code, row
<1>12. new2 \in [Rows -> RowType] /\ adds2 \in [Rows -> Nat] /\ got2 \in [Codes -> Nat]
  <2>1. new2 \in [Rows -> RowType]
    BY <1>3, <1>10, <1>11
  <2>2. adds2 \in [Rows -> Nat] /\ got2 \in [Codes -> Nat]
    BY <1>3, <1>6, <1>9
  <2>. QED
    BY <2>1, <2>2
<1>13. /\ q \in RequestType /\ q.at = at2 /\ q.todo = Tail(req[w].todo)
       /\ q.new = new2 /\ q.adds = adds2 /\ q.got = got2
  <2>1. at2 \in Places
    BY DEF Places
  <2>. HIDE DEF new2, adds2, got2, at2
  <2>. QED
    BY <1>2, <1>7, <1>12, <2>1 DEF RequestType
<1>14. at2 \in {"find", "commit"}
  OBVIOUS
<1>15. \A c \in Codes : got2[c] = req[w].got[c] + (IF c = code THEN qty ELSE 0)
  BY <1>3, <1>9
<1>16. PICK slot \in Rows : slot = IF f = 0 THEN FirstUnused ELSE f
  BY <1>6, <1>11
<1>17. \A r \in Rows \ {slot} : new2[r] = req[w].new[r] /\ adds2[r] = req[w].adds[r]
  BY <1>3, <1>16
<1>18. \/ /\ slot = FirstUnused /\ Unused # {} /\ spoiled' = spoiled
          /\ new2[slot] = row /\ adds2[slot] = req[w].adds[slot]
       \/ /\ rows[slot].state = "here" /\ spoiled' = spoiled
          /\ rows[slot].seq = item.seq /\ rows[slot].status = item.status
          /\ new2[slot] = req[w].new[slot] /\ adds2[slot] = req[w].adds[slot] + qty
       \/ /\ spoiled' = spoiled \cup {item.seq}
          /\ new2[slot] = req[w].new[slot] /\ adds2[slot] = req[w].adds[slot]
  <2>1. CASE f = 0
    BY <1>3, <1>4, <1>16, <2>1
  <2>2. CASE f # 0 /\ rows[f].state = "here"
    BY <1>3, <1>4, <1>6, <1>16, <2>2
  <2>3. CASE f # 0 /\ rows[f].state # "here"
    BY <1>3, <1>4, <1>6, <1>16, <2>3
  <2>. QED
    BY <2>1, <2>2, <2>3
<1>. HIDE DEF new2, adds2, got2, at2, q
<1>19. /\ req' \in [Workers -> RequestType] /\ \A v \in Workers \ {w} : req'[v] = req[v]
       /\ req'[w] = q
  BY <1>2, <1>5, <1>13
<1>20. /\ item \in Items /\ req[w].todo # <<>> /\ req[w].todo \in Seq(Items)
       /\ req' \in [Workers -> RequestType] /\ \A v \in Workers \ {w} : req'[v] = req[v]
       /\ req'[w].at \in {"find", "commit"} /\ req'[w].todo = Tail(req[w].todo)
       /\ \A c \in Codes : req'[w].got[c] = req[w].got[c] + (IF c = code THEN qty ELSE 0)
       /\ \A r \in Rows \ {slot} : req'[w].new[r] = req[w].new[r] /\ req'[w].adds[r] = req[w].adds[r]
  BY <1>3, <1>6, <1>7, <1>13, <1>14, <1>15, <1>17, <1>19
<1>21. \/ /\ slot = FirstUnused /\ Unused # {} /\ spoiled' = spoiled
          /\ req'[w].new[slot] = row /\ req'[w].adds[slot] = req[w].adds[slot]
       \/ /\ rows[slot].state = "here" /\ spoiled' = spoiled
          /\ rows[slot].seq = item.seq /\ rows[slot].status = item.status
          /\ req'[w].new[slot] = req[w].new[slot] /\ req'[w].adds[slot] = req[w].adds[slot] + qty
       \/ /\ spoiled' = spoiled \cup {item.seq}
          /\ req'[w].new[slot] = req[w].new[slot] /\ req'[w].adds[slot] = req[w].adds[slot]
  BY <1>13, <1>18, <1>19
<1>. QED
  BY <1>9, <1>20, <1>21 DEF item, code, row, Written

LEMMA GainType ==
  ASSUME CatalogType, NEW w \in Workers, NEW c \in Codes, NEW r \in Rows
  PROVE  Gain(w, r, c) \in Nat
<1>1. req[w].new[r] \in RowType /\ req[w].adds[r] \in Nat
  BY DEF CatalogType, RequestType
<1>2. QtyOf(req[w].new[r], c) \in Nat
  BY <1>1, RowFacts
<1>. QED
  BY <1>1, <1>2 DEF Gain

LEMMA WrittenGain ==
  ASSUME CatalogIInv, NEW w \in Workers, NEW item, NEW qty \in Nat, NEW slot \in Rows,
         Written(w, item, qty, slot), rows' = rows,
         NEW c \in Codes, c[1] \notin spoiled', NEW r \in Rows
  PROVE  Gain(w, r, c)' = Gain(w, r, c) + (IF r = slot /\ c = <<item.seq, item.status>> THEN qty ELSE 0)
<1>1. CatalogType
  BY DEF CatalogIInv
<1>2. Gain(w, r, c) \in Nat
  BY <1>1, GainType
<1>3. CASE r # slot
  <2>1. req'[w].new[r] = req[w].new[r] /\ req'[w].adds[r] = req[w].adds[r]
    BY <1>3 DEF Written
  <2>2. Gain(w, r, c)' = Gain(w, r, c)
    BY <2>1 DEF Gain
  <2>. QED
    BY <1>2, <1>3, <2>2
<1>4. CASE /\ r = slot /\ slot = FirstUnused /\ Unused # {}
           /\ req'[w].new[slot] = [state |-> "here", seq |-> item.seq, status |-> item.status, qty |-> qty]
           /\ req'[w].adds[slot] = req[w].adds[slot]
  <2>1. rows[r] = NoRow /\ req[w].new[r] = NoRow
    BY <1>4, FirstUnusedProperties
  <2>2. NoRow \in RowType
    BY DEF RowType
  <2>3. QtyOf(NoRow, c) = 0 /\ <<rows[r].seq, rows[r].status>> # c
    BY <2>1, <2>2, RowFacts
  <2>4. Gain(w, r, c) = 0
    BY <2>1, <2>3 DEF Gain
  <2>5. Gain(w, r, c)' = QtyOf(req'[w].new[r], c) + 0
    BY <2>3 DEF Gain
  <2>6. QtyOf(req'[w].new[r], c) = IF c = <<item.seq, item.status>> THEN qty ELSE 0
    BY <1>4 DEF QtyOf
  <2>. QED
    BY <1>4, <2>4, <2>5, <2>6
<1>5. CASE /\ r = slot /\ rows[slot].seq = item.seq /\ rows[slot].status = item.status
           /\ req'[w].new[slot] = req[w].new[slot]
           /\ req'[w].adds[slot] = req[w].adds[slot] + qty
  <2>1. req[w].new[r] \in RowType /\ req[w].adds[r] \in Nat
    BY <1>1 DEF CatalogType, RequestType
  <2>2. QtyOf(req[w].new[r], c) \in Nat
    BY <2>1, RowFacts
  <2>3. Gain(w, r, c)' = QtyOf(req[w].new[r], c)
                         + (IF <<item.seq, item.status>> = c THEN req[w].adds[r] + qty ELSE 0)
    BY <1>5 DEF Gain
  <2>4. Gain(w, r, c) = QtyOf(req[w].new[r], c)
                        + (IF <<item.seq, item.status>> = c THEN req[w].adds[r] ELSE 0)
    BY <1>5 DEF Gain
  <2>5. \A x, y, z \in Nat : x + (y + z) = (x + y) + z /\ x + 0 = (x + 0) + 0
    OBVIOUS
  <2>. QED
    BY <1>5, <2>1, <2>2, <2>3, <2>4, <2>5
<1>6. CASE /\ r = slot /\ spoiled' = spoiled \cup {item.seq}
           /\ req'[w].new[slot] = req[w].new[slot]
           /\ req'[w].adds[slot] = req[w].adds[slot]
  <2>1. c # <<item.seq, item.status>>
    BY <1>6
  <2>2. Gain(w, r, c)' = Gain(w, r, c)
    BY <1>6 DEF Gain
  <2>. QED
    BY <1>2, <2>1, <2>2
<1>. QED
  BY <1>3, <1>4, <1>5, <1>6 DEF Written

LEMMA WriteStep ==
  ASSUME CatalogIInv, NEW w \in Workers, WriteItem(w)
  PROVE  CatalogIInv'
<1>. DEFINE item == Head(req[w].todo)
            code == <<item.seq, item.status>>
<1>1. /\ CatalogType /\ ItemInHand /\ DeleteInHand /\ ChangesApart
      /\ GotIsGain /\ NothingReceivedIsLost /\ FreshIsUnused /\ SeqInOnePlace
  BY DEF CatalogIInv
<1>2. /\ req[w].at = "write" /\ rows' = rows /\ counter' = counter /\ recycled' = recycled
      /\ held' = held /\ received' = received /\ doubled' = doubled
  BY DEF WriteItem
<1>3. PICK qty \in Nat : \E slot \in Rows : Written(w, item, qty, slot)
  BY WriteEffect
<1>4. PICK slot \in Rows : Written(w, item, qty, slot)
  BY <1>3
<1>5. /\ item \in Items /\ req[w].todo # <<>> /\ req[w].todo \in Seq(Items)
      /\ req' \in [Workers -> RequestType] /\ \A v \in Workers \ {w} : req'[v] = req[v]
      /\ req'[w].at \in {"find", "commit"} /\ req'[w].todo = Tail(req[w].todo)
      /\ \A c \in Codes : req'[w].got[c] = req[w].got[c] + (IF c = code THEN qty ELSE 0)
      /\ spoiled \subseteq spoiled'
  BY <1>4 DEF Written
<1>6. \A i \in DOMAIN req'[w].todo : \E j \in DOMAIN req[w].todo : req'[w].todo[i] = req[w].todo[j]
  BY <1>5
<1>7. \E j \in DOMAIN req[w].todo : item = req[w].todo[j]
  BY <1>5
<1>. HIDE DEF item
<1>8. CatalogType'
  BY <1>1, <1>2, <1>5 DEF CatalogType
<1>9. ItemInHand' /\ DeleteInHand'
  BY <1>1, <1>2, <1>5, HandsKept
<1>10. \A r \in Rows : \/ req'[w].new[r] = req[w].new[r]
                       \/ /\ r = FirstUnused /\ Unused # {}
                          /\ req'[w].new[r].state = "here" /\ req'[w].new[r].seq = item.seq
  BY <1>4 DEF Written
<1>11. ChangesApart'
  <2>1. ASSUME NEW r \in Rows, rows[r] = NoRow PROVE req'[w].adds[r] = 0
    <3>1. NoRow.state # "here" /\ req[w].adds[r] = 0
      BY <1>1, <2>1 DEF NoRow, ChangesApart
    <3>. QED
      BY <1>4, <2>1, <3>1 DEF Written
  <2>2. ASSUME NEW r \in Rows, req'[w].new[r] # NoRow
        PROVE  /\ rows[r] = NoRow /\ req'[w].new[r].state = "here"
               /\ \A v \in Workers \ {w} : req[v].new[r] = NoRow
    <3>1. CASE req'[w].new[r] = req[w].new[r]
      BY <1>1, <2>2, <3>1 DEF ChangesApart
    <3>2. CASE r = FirstUnused /\ Unused # {} /\ req'[w].new[r].state = "here"
      BY <3>2, FirstUnusedProperties
    <3>. QED
      BY <1>10, <3>1, <3>2
  <2>3. ASSUME NEW v \in Workers \ {w}, NEW r \in Rows, req[v].new[r] # NoRow
        PROVE  req'[w].new[r] = NoRow
    <3>1. req[w].new[r] = NoRow
      BY <1>1, <2>3 DEF ChangesApart
    <3>2. Unused # {} => r # FirstUnused
      BY <2>3, FirstUnusedProperties
    <3>. QED
      BY <1>10, <3>1, <3>2
  <2>. QED
    BY <1>1, <1>2, <1>5, <2>1, <2>2, <2>3 DEF ChangesApart
<1>12. ASSUME NEW c \in Codes, c[1] \notin spoiled'
       PROVE  req'[w].got[c] = Total([r \in Rows |-> Gain(w, r, c)'])
  <2>. DEFINE delta == [r \in Rows |-> IF r = slot /\ c = code THEN qty ELSE 0]
              old == [r \in Rows |-> Gain(w, r, c)]
              now == [r \in Rows |-> Gain(w, r, c)']
  <2>1. \A r \in Rows : Gain(w, r, c) \in Nat
    BY <1>1, GainType
  <2>2. \A r \in Rows : Gain(w, r, c)' = Gain(w, r, c) + (IF r = slot /\ c = code THEN qty ELSE 0)
    BY <1>2, <1>4, <1>12, WrittenGain
  <2>3. delta \in [Rows -> Nat] /\ delta[slot] = (IF c = code THEN qty ELSE 0)
        /\ \A r \in Rows \ {slot} : delta[r] = 0
    OBVIOUS
  <2>4. old \in [Rows -> Nat]
    BY <2>1
  <2>5. now \in [Rows -> Nat] /\ \A r \in Rows : now[r] = old[r] + delta[r]
    BY <2>1, <2>2
  <2>6. Total(delta) = delta[slot]
    BY <2>3, TotalOfOne
  <2>7. Total(now) = Total(old) + Total(delta)
    BY <2>3, <2>4, <2>5, RowsFinite, TotalPlus
  <2>8. req[w].got[c] = Total(old)
    BY <1>1, <1>5, <1>12 DEF GotIsGain
  <2>. QED
    BY <1>5, <2>3, <2>6, <2>7, <2>8
<1>13. GotIsGain'
  <2>1. ASSUME NEW v \in Workers \ {w}, NEW c \in Codes, c[1] \notin spoiled'
        PROVE  req'[v].got[c] = Total([r \in Rows |-> Gain(v, r, c)'])
    <3>1. req'[v] = req[v] /\ \A r \in Rows : Gain(v, r, c)' = Gain(v, r, c)
      BY <1>2, <1>5 DEF Gain
    <3>2. [r \in Rows |-> Gain(v, r, c)'] = [r \in Rows |-> Gain(v, r, c)]
      BY <3>1
    <3>3. req[v].got[c] = Total([r \in Rows |-> Gain(v, r, c)])
      BY <1>1, <1>5, <2>1 DEF GotIsGain
    <3>. QED
      BY <3>1, <3>2, <3>3
  <2>. QED
    BY <1>12, <2>1 DEF GotIsGain
<1>14. NothingReceivedIsLost'
  BY <1>1, <1>2, <1>5 DEF NothingReceivedIsLost
<1>15. FreshIsUnused'
  <2>1. ASSUME NEW s \in Seqs, s \notin spoiled', s > counter
        PROVE  /\ held[s] = 0 /\ recycled[s] = 0 /\ \A r \in Rows : rows[r].seq # s
               /\ \A v \in Workers \ {w} : /\ \A r \in Rows : req[v].new[r].seq # s
                                           /\ \A i \in DOMAIN req[v].todo : req[v].todo[i].seq # s
               /\ \A r \in Rows : req'[w].new[r].seq # s
               /\ \A i \in DOMAIN req'[w].todo : req'[w].todo[i].seq # s
    <3>1. /\ held[s] = 0 /\ recycled[s] = 0 /\ \A r \in Rows : rows[r].seq # s
          /\ \A v \in Workers : /\ \A r \in Rows : req[v].new[r].seq # s
                                /\ \A i \in DOMAIN req[v].todo : req[v].todo[i].seq # s
      BY <1>1, <1>5, <2>1 DEF FreshIsUnused
    <3>2. item.seq # s
      BY <1>7, <3>1
    <3>. QED
      BY <1>6, <1>10, <3>1, <3>2
  <2>2. ASSUME NEW s \in Seqs, s \notin spoiled', s > counter, NEW v \in Workers
        PROVE  /\ \A r \in Rows : req'[v].new[r].seq # s
               /\ \A i \in DOMAIN req'[v].todo : req'[v].todo[i].seq # s
    <3>1. CASE v = w
      BY <2>1, <2>2, <3>1
    <3>2. CASE v # w
      <4>1. req'[v] = req[v]
        BY <1>5, <3>2
      <4>. QED
        BY <2>1, <2>2, <3>2, <4>1
    <3>. QED
      BY <3>1, <3>2
  <2>. QED
    BY <1>2, <2>1, <2>2 DEF FreshIsUnused
<1>16. SeqInOnePlace'
  <2>1. \A s : Live(s)' = Live(s)
    BY <1>2 DEF Live
  <2>2. \A s : Deleting(s)' = Deleting(s)
    BY <1>2, <1>5 DEF Deleting
  <2>. QED
    BY <1>1, <1>2, <1>5, <2>1, <2>2, PlacesKept
<1>. QED
  BY <1>8, <1>9, <1>11, <1>13, <1>14, <1>15, <1>16 DEF CatalogIInv

-----------------------------------------------------------------------------
(* A product is deleted. *)

LEMMA DeleteRowStep ==
  ASSUME CatalogIInv, NEW w \in Workers, DeleteRow(w)
  PROVE  CatalogIInv'
<1>. DEFINE d == req[w].row
            n == req[w].seq
            q == [req[w] EXCEPT !.at = "recycle"]
            gone == [rows[d] EXCEPT !.state = "deleted"]
<1>1. /\ CatalogType /\ ItemInHand /\ DeleteInHand /\ ChangesApart
      /\ GotIsGain /\ NothingReceivedIsLost /\ FreshIsUnused /\ SeqInOnePlace
  BY DEF CatalogIInv
<1>2. /\ req[w].at = "deleteRow" /\ counter' = counter /\ recycled' = recycled
      /\ held' = held /\ received' = received /\ doubled' = doubled
      /\ spoiled' = IF rows[d].state = "here" THEN spoiled ELSE spoiled \cup {n}
  BY DEF DeleteRow
<1>3. rows' = [rows EXCEPT ![d] = gone] /\ req' = [req EXCEPT ![w] = q]
  BY DEF DeleteRow
<1>4. d \in Rows /\ n \in Seqs /\ rows[d].seq = n
  BY <1>1, <1>2 DEF DeleteInHand
<1>5. req[w] \in RequestType /\ rows[d] \in RowType
  BY <1>1, <1>4 DEF CatalogType
<1>6. rows[d] # NoRow /\ rows[d] \in RealRow
  BY <1>4, <1>5, RowFacts DEF RowType, Seqs
<1>7. /\ gone \in RowType /\ gone # NoRow /\ gone.state = "deleted"
      /\ gone.seq = n /\ gone.status = rows[d].status /\ gone.qty = rows[d].qty
  BY <1>4, <1>6 DEF RowType, RealRow, NoRow
<1>8. /\ q \in RequestType /\ q.at = "recycle" /\ q.todo = req[w].todo
      /\ q.row = d /\ q.seq = n
      /\ q.new = req[w].new /\ q.adds = req[w].adds /\ q.got = req[w].got
  BY <1>5 DEF RequestType, Places
<1>. HIDE DEF q, gone
<1>9. req'[w] = q /\ \A v \in Workers \ {w} : req'[v] = req[v]
  BY <1>1, <1>3 DEF CatalogType
<1>10. rows'[d] = gone /\ \A r \in Rows \ {d} : rows'[r] = rows[r]
  BY <1>1, <1>3, <1>4 DEF CatalogType
<1>11. CatalogType'
  <2>1. rows' \in [Rows -> RowType] /\ req' \in [Workers -> RequestType]
    BY <1>1, <1>3, <1>7, <1>8 DEF CatalogType
  <2>. QED
    BY <1>1, <1>2, <2>1 DEF CatalogType
<1>12. \A r \in Rows : /\ rows'[r] = NoRow <=> rows[r] = NoRow
                       /\ rows'[r].seq = rows[r].seq /\ rows'[r].status = rows[r].status
                       /\ rows'[r].qty = rows[r].qty
  BY <1>4, <1>6, <1>7, <1>10
<1>13. ItemInHand' /\ DeleteInHand'
  BY <1>1, <1>4, <1>8, <1>9, <1>12, HandsKept
<1>14. spoiled \subseteq spoiled'
  BY <1>2
<1>15. ChangesApart' /\ GotIsGain' /\ NothingReceivedIsLost'
  <2>1. SameUnits
    BY <1>12 DEF SameUnits
  <2>2. \A v \in Workers : SameChanges(v)
    BY <1>8, <1>9 DEF SameChanges
  <2>. QED
    BY <1>1, <1>2, <1>11, <1>14, <2>1, <2>2, UnitsKept
<1>16. FreshIsUnused'
  <2>1. \A v \in Workers : req'[v].new = req[v].new /\ req'[v].todo = req[v].todo
    BY <1>8, <1>9
  <2>. QED
    BY <1>1, <1>2, <1>12, <1>14, <2>1 DEF FreshIsUnused
<1>17. ASSUME NEW s \in Seqs, s \notin spoiled'
       PROVE  /\ Cardinality(Live(s)') \in Int /\ Cardinality(Deleting(s)') \in Int
              /\ Cardinality(Live(s)') + Cardinality(Deleting(s)')
                 = Cardinality(Live(s)) + Cardinality(Deleting(s))
  <2>1. CASE s # n
    <3>1. Live(s)' = Live(s)
      BY <1>4, <1>7, <1>10, <2>1 DEF Live
    <3>2. Deleting(s)' = Deleting(s)
      BY <1>8, <1>9, <2>1 DEF Deleting
    <3>. QED
      BY <3>1, <3>2, PlacesFinite
  <2>2. CASE s = n
    <3>1. rows[d].state = "here"
      BY <1>2, <1>17, <2>2
    <3>2. Live(s)' = Live(s) \ {d} /\ d \in Live(s)
      <4>1. d \in Live(s) /\ d \notin Live(s)'
        BY <1>4, <1>7, <1>10, <2>2, <3>1 DEF Live
      <4>2. \A r \in Rows \ {d} : r \in Live(s)' <=> r \in Live(s)
        BY <1>10 DEF Live
      <4>3. Live(s) \subseteq Rows /\ Live(s)' \subseteq Rows
        BY DEF Live
      <4>. QED
        BY <4>1, <4>2, <4>3
    <3>3. Deleting(s)' = Deleting(s) \cup {w} /\ w \notin Deleting(s)
      <4>1. w \in Deleting(s)' /\ w \notin Deleting(s)
        BY <1>2, <1>8, <1>9, <2>2 DEF Deleting
      <4>2. \A v \in Workers \ {w} : v \in Deleting(s)' <=> v \in Deleting(s)
        BY <1>9 DEF Deleting
      <4>3. Deleting(s) \subseteq Workers /\ Deleting(s)' \subseteq Workers
        BY DEF Deleting
      <4>. QED
        BY <4>1, <4>2, <4>3
    <3>4. Cardinality(Live(s)') = Cardinality(Live(s)) - 1
      BY <3>2, PlacesFinite, FS_RemoveElement
    <3>5. Cardinality(Deleting(s)') = Cardinality(Deleting(s)) + 1
      BY <3>3, PlacesFinite, FS_AddElement
    <3>6. Cardinality(Live(s)) \in Nat /\ Cardinality(Deleting(s)) \in Nat
      BY PlacesFinite
    <3>. QED
      BY <3>4, <3>5, <3>6
  <2>. QED
    BY <2>1, <2>2
<1>18. SeqInOnePlace'
  <2>1. ASSUME NEW s \in Seqs, s \notin spoiled'
        PROVE  held[s] + Cardinality(Live(s)') + recycled[s] + Cardinality(Deleting(s)')
               = held[s] + Cardinality(Live(s)) + recycled[s] + Cardinality(Deleting(s))
    <3>1. /\ held[s] \in Nat /\ recycled[s] \in Nat
          /\ Cardinality(Live(s)) \in Nat /\ Cardinality(Deleting(s)) \in Nat
      BY <1>1, PlacesFinite DEF CatalogType
    <3>. QED
      BY <1>17, <2>1, <3>1
  <2>. QED
    BY <1>1, <1>2, <1>14, <2>1 DEF SeqInOnePlace
<1>. QED
  BY <1>11, <1>13, <1>15, <1>16, <1>18 DEF CatalogIInv

LEMMA RecycleStep ==
  ASSUME CatalogIInv, NEW w \in Workers, RecycleSeq(w)
  PROVE  CatalogIInv'
<1>. DEFINE n == req[w].seq
<1>1. /\ CatalogType /\ ItemInHand /\ DeleteInHand /\ ChangesApart
      /\ GotIsGain /\ NothingReceivedIsLost /\ FreshIsUnused /\ SeqInOnePlace
  BY DEF CatalogIInv
<1>2. /\ req[w].at = "recycle" /\ req' = [req EXCEPT ![w] = Idle] /\ rows' = rows
      /\ counter' = counter /\ held' = held /\ received' = received /\ doubled' = doubled
      /\ \/ recycled' = [recycled EXCEPT ![n] = @ + 1] /\ spoiled' = spoiled
         \/ spoiled' = spoiled \cup {n} /\ recycled' = recycled
  BY DEF RecycleSeq
<1>3. req[w].row \in Rows /\ n \in Seqs /\ rows[req[w].row].seq = n
  BY <1>1, <1>2 DEF DeleteInHand
<1>. HIDE DEF n
<1>4. req'[w] = Idle /\ \A v \in Workers \ {w} : req'[v] = req[v]
  BY <1>1, <1>2 DEF CatalogType
<1>5. /\ Idle.at = "idle" /\ DOMAIN Idle.todo = {}
      /\ \A r \in Rows : Idle.new[r] = NoRow
  BY IdleType
<1>6. /\ \A s \in Seqs \ {n} : recycled'[s] = recycled[s]
      /\ \/ recycled'[n] = recycled[n] + 1 /\ spoiled' = spoiled
         \/ n \in spoiled'
      /\ spoiled \subseteq spoiled'
  BY <1>1, <1>2, <1>3 DEF CatalogType
<1>7. CatalogType'
  <2>1. recycled' \in [Seqs -> Nat] /\ req' \in [Workers -> RequestType]
    BY <1>1, <1>2, <1>3, IdleType DEF CatalogType
  <2>. QED
    BY <1>1, <1>2, <2>1 DEF CatalogType
<1>8. ItemInHand' /\ DeleteInHand'
  BY <1>1, <1>2, <1>4, <1>5, HandsKept
<1>9. ChangesApart' /\ GotIsGain' /\ NothingReceivedIsLost'
  <2>1. SameUnits
    BY <1>2 DEF SameUnits
  <2>2. \A v \in Workers : SameChanges(v)
    BY <1>4, IdleType DEF SameChanges
  <2>. QED
    BY <1>1, <1>2, <1>6, <1>7, <2>1, <2>2, UnitsKept
<1>10. FreshIsUnused'
  <2>1. ASSUME NEW s \in Seqs, s \notin spoiled', s > counter
        PROVE  /\ held[s] = 0 /\ recycled'[s] = 0 /\ \A r \in Rows : rows[r].seq # s
               /\ \A v \in Workers : /\ \A r \in Rows : req'[v].new[r].seq # s
                                     /\ \A i \in DOMAIN req'[v].todo : req'[v].todo[i].seq # s
    <3>1. /\ held[s] = 0 /\ recycled[s] = 0 /\ \A r \in Rows : rows[r].seq # s
          /\ \A v \in Workers : /\ \A r \in Rows : req[v].new[r].seq # s
                                /\ \A i \in DOMAIN req[v].todo : req[v].todo[i].seq # s
      BY <1>1, <1>6, <2>1 DEF FreshIsUnused
    <3>2. s # n
      BY <1>3, <3>1
    <3>3. NoRow.seq # s
      BY DEF NoRow, Seqs
    <3>. QED
      BY <1>4, <1>5, <1>6, <3>1, <3>2, <3>3
  <2>. QED
    BY <1>2, <2>1 DEF FreshIsUnused
<1>11. ASSUME NEW s \in Seqs, s \notin spoiled'
       PROVE  recycled'[s] + Cardinality(Deleting(s)') = recycled[s] + Cardinality(Deleting(s))
  <2>1. CASE s # n
    <3>1. Deleting(s)' = Deleting(s)
      BY <1>2, <1>4, <1>5, <2>1 DEF Deleting, n
    <3>. QED
      BY <1>6, <2>1, <3>1
  <2>2. CASE s = n
    <3>1. Deleting(s)' = Deleting(s) \ {w} /\ w \in Deleting(s)
      <4>1. w \in Deleting(s) /\ w \notin Deleting(s)'
        BY <1>2, <1>4, <1>5, <2>2 DEF Deleting, n
      <4>2. \A v \in Workers \ {w} : v \in Deleting(s)' <=> v \in Deleting(s)
        BY <1>4 DEF Deleting
      <4>3. Deleting(s) \subseteq Workers /\ Deleting(s)' \subseteq Workers
        BY DEF Deleting
      <4>. QED
        BY <4>1, <4>2, <4>3
    <3>2. Cardinality(Deleting(s)') = Cardinality(Deleting(s)) - 1
      BY <3>1, PlacesFinite, FS_RemoveElement
    <3>3. Cardinality(Deleting(s)) \in Nat /\ recycled[s] \in Nat /\ recycled'[s] = recycled[s] + 1
      BY <1>1, <1>6, <1>11, <2>2, PlacesFinite DEF CatalogType
    <3>. QED
      BY <3>2, <3>3
  <2>. QED
    BY <2>1, <2>2
<1>12. SeqInOnePlace'
  <2>1. ASSUME NEW s \in Seqs, s \notin spoiled'
        PROVE  held[s] + Cardinality(Live(s)) + recycled'[s] + Cardinality(Deleting(s)')
               = held[s] + Cardinality(Live(s)) + recycled[s] + Cardinality(Deleting(s))
    <3>1. /\ held[s] \in Nat /\ recycled[s] \in Nat /\ recycled'[s] \in Nat
          /\ Cardinality(Live(s)) \in Nat /\ Cardinality(Deleting(s)) \in Nat
      BY <1>1, <1>7, PlacesFinite DEF CatalogType
    <3>2. Cardinality(Deleting(s)') \in Nat
      <4>1. Deleting(s)' \subseteq Workers
        BY DEF Deleting
      <4>2. IsFiniteSet(Deleting(s)')
        BY <4>1, CatalogAssumption, FS_Subset
      <4>. QED
        BY <4>2, FS_CardinalityType
    <3>. QED
      BY <1>11, <2>1, <3>1, <3>2
  <2>2. \A s : Live(s)' = Live(s)
    BY <1>2 DEF Live
  <2>. QED
    BY <1>1, <1>2, <1>6, <2>1, <2>2 DEF SeqInOnePlace
<1>. QED
  BY <1>7, <1>8, <1>9, <1>10, <1>12 DEF CatalogIInv

-----------------------------------------------------------------------------
(* An inbound commits. *)

\* The rows of a commit that works.
LEMMA CommittedRow ==
  ASSUME CatalogIInv, NEW w \in Workers, NEW r \in Rows, rows' = AfterCommit(w)
  PROVE  /\ rows'[r] \in RowType
         /\ rows[r] = NoRow => rows'[r] = req[w].new[r]
         /\ rows[r] # NoRow => /\ rows'[r] # NoRow /\ rows'[r].state = rows[r].state
                               /\ rows'[r].seq = rows[r].seq /\ rows'[r].status = rows[r].status
         /\ \A c \in Codes : QtyOf(rows'[r], c) = QtyOf(rows[r], c) + Gain(w, r, c)
<1>1. CatalogType /\ ChangesApart
  BY DEF CatalogIInv
<1>2. rows[r] \in RowType /\ req[w].new[r] \in RowType /\ req[w].adds[r] \in Nat
  BY <1>1 DEF CatalogType, RequestType
<1>. DEFINE a == req[w].adds[r]
            more == [rows[r] EXCEPT !.qty = @ + a]
<1>3. rows'[r] = IF req[w].new[r] # NoRow THEN req[w].new[r] ELSE more
  BY DEF AfterCommit
<1>4. CASE rows[r] = NoRow
  <2>1. a = 0
    BY <1>1, <1>4 DEF ChangesApart
  <2>2. more = NoRow
    <3>1. NoRow.qty = 0
      BY DEF NoRow
    <3>. HIDE DEF a
    <3>2. more = [NoRow EXCEPT !.qty = 0]
      BY <1>4, <2>1, <3>1
    <3>3. [NoRow EXCEPT !.qty = 0] \in [state : {"none"}, seq : {0}, status : {""}, qty : {0}]
      BY DEF NoRow
    <3>4. ASSUME NEW x \in [state : {"none"}, seq : {0}, status : {""}, qty : {0}] PROVE x = NoRow
      <4>1. x = [state |-> x.state, seq |-> x.seq, status |-> x.status, qty |-> x.qty]
        OBVIOUS
      <4>2. x.state = "none" /\ x.seq = 0 /\ x.status = "" /\ x.qty = 0
        OBVIOUS
      <4>. QED
        BY <4>1, <4>2 DEF NoRow
    <3>. QED
      BY <3>2, <3>3, <3>4
  <2>3. rows'[r] = req[w].new[r]
    BY <1>3, <2>2
  <2>4. ASSUME NEW c \in Codes PROVE QtyOf(rows'[r], c) = QtyOf(rows[r], c) + Gain(w, r, c)
    <3>1. QtyOf(rows[r], c) = 0 /\ QtyOf(req[w].new[r], c) \in Nat
      BY <1>2, <1>4, RowFacts
    <3>2. Gain(w, r, c) = QtyOf(req[w].new[r], c) + 0
      BY <2>1 DEF Gain
    <3>. QED
      BY <2>3, <3>1, <3>2
  <2>. QED
    BY <1>2, <1>4, <2>3, <2>4
<1>5. CASE rows[r] # NoRow
  <2>1. req[w].new[r] = NoRow /\ rows[r] \in RealRow
    BY <1>1, <1>2, <1>5 DEF ChangesApart, RowType
  <2>2. rows'[r] = more
    BY <1>3, <2>1
  <2>3. /\ more \in RealRow /\ more.state = rows[r].state /\ more.qty = rows[r].qty + a
        /\ more.seq = rows[r].seq /\ more.status = rows[r].status
    BY <1>2, <2>1 DEF RealRow
  <2>4. more.seq # NoRow.seq
    BY <2>3 DEF RealRow, Seqs, NoRow
  <2>. HIDE DEF more, a
  <2>5. ASSUME NEW c \in Codes PROVE QtyOf(more, c) = QtyOf(rows[r], c) + Gain(w, r, c)
    <3>1. QtyOf(req[w].new[r], c) = 0
      BY <1>2, <2>1, RowFacts
    <3>2. Gain(w, r, c) = 0 + (IF <<rows[r].seq, rows[r].status>> = c THEN a ELSE 0)
      BY <3>1 DEF Gain, a
    <3>3. QtyOf(more, c) = IF <<rows[r].seq, rows[r].status>> = c THEN rows[r].qty + a ELSE 0
      BY <2>3 DEF QtyOf
    <3>4. QtyOf(rows[r], c) = IF <<rows[r].seq, rows[r].status>> = c THEN rows[r].qty ELSE 0
      BY DEF QtyOf
    <3>5. rows[r].qty \in Nat /\ a \in Nat
      BY <1>2, <2>1 DEF RealRow, a
    <3>. QED
      BY <3>2, <3>3, <3>4, <3>5
  <2>. QED
    BY <1>5, <2>2, <2>3, <2>4, <2>5 DEF RowType
<1>. QED
  BY <1>4, <1>5

\* The rows that w inserted with the number s.
InsertedRows(w, s) == {r \in Rows : req[w].new[r].seq = s}

LEMMA InsertedFinite ==
  ASSUME NEW w, NEW s
  PROVE  IsFiniteSet(InsertedRows(w, s)) /\ Inserted(w, s) \in Nat
         /\ Inserted(w, s) = Cardinality(InsertedRows(w, s))
<1>1. InsertedRows(w, s) \subseteq Rows
  BY DEF InsertedRows
<1>2. IsFiniteSet(InsertedRows(w, s))
  BY <1>1, RowsFinite, FS_Subset
<1>3. Inserted(w, s) = Cardinality(InsertedRows(w, s))
  BY DEF Inserted, InsertedRows
<1>. QED
  BY <1>2, <1>3, FS_CardinalityType

\* Live rows after a commit, in both of its outcomes.
LEMMA CommittedLive ==
  ASSUME CatalogIInv, NEW w \in Workers, NEW s \in Seqs,
         \/ rows' = AfterCommit(w)
         \/ rows' = rows /\ Inserted(w, s) = 0
  PROVE  Cardinality(Live(s)') = Cardinality(Live(s)) + Inserted(w, s)
<1>1. CatalogType /\ ChangesApart
  BY DEF CatalogIInv
<1>2. CASE rows' = rows /\ Inserted(w, s) = 0
  <2>1. Live(s)' = Live(s) /\ Cardinality(Live(s)) \in Nat
    BY <1>2, PlacesFinite DEF Live
  <2>. QED
    BY <1>2, <2>1
<1>3. CASE rows' = AfterCommit(w)
  <2>. DEFINE N == InsertedRows(w, s)
  <2>1. s # NoRow.seq /\ NoRow.state # "here"
    BY DEF Seqs, NoRow
  <2>2. ASSUME NEW r \in Rows, rows[r] = NoRow
        PROVE  r \notin Live(s) /\ (r \in Live(s)' <=> r \in N)
    <3>1. rows'[r] = req[w].new[r]
      BY <1>3, <2>2, CommittedRow
    <3>2. req[w].new[r].seq = s => req[w].new[r].state = "here"
      BY <1>1, <2>1 DEF ChangesApart
    <3>. QED
      BY <2>1, <2>2, <3>1, <3>2 DEF Live, InsertedRows
  <2>3. ASSUME NEW r \in Rows, rows[r] # NoRow
        PROVE  r \notin N /\ (r \in Live(s)' <=> r \in Live(s))
    <3>1. rows'[r].state = rows[r].state /\ rows'[r].seq = rows[r].seq
      BY <1>3, <2>3, CommittedRow
    <3>2. req[w].new[r] = NoRow
      BY <1>1, <2>3 DEF ChangesApart
    <3>. QED
      BY <2>1, <3>1, <3>2 DEF Live, InsertedRows
  <2>4. Live(s) \subseteq Rows /\ Live(s)' \subseteq Rows /\ N \subseteq Rows
    BY DEF Live, InsertedRows
  <2>. HIDE DEF N
  <2>5. Live(s)' = Live(s) \cup N /\ Live(s) \cap N = {}
    BY <2>2, <2>3, <2>4
  <2>6. IsFiniteSet(N) /\ Inserted(w, s) \in Nat /\ Inserted(w, s) = Cardinality(N)
    BY InsertedFinite DEF N
  <2>7. Cardinality(Live(s) \cup N) = Cardinality(Live(s)) + Cardinality(N) - Cardinality(Live(s) \cap N)
    BY <2>6, PlacesFinite, FS_Union
  <2>8. Cardinality(Live(s) \cap N) = 0 /\ Cardinality(Live(s)) \in Nat
    BY <2>5, PlacesFinite, FS_EmptySet
  <2>. QED
    BY <2>5, <2>6, <2>7, <2>8
<1>. QED
  BY <1>2, <1>3

LEMMA CommitStep ==
  ASSUME CatalogIInv, NEW w \in Workers, CommitInbound(w)
  PROVE  CatalogIInv'
<1>1. /\ CatalogType /\ ItemInHand /\ DeleteInHand /\ ChangesApart
      /\ GotIsGain /\ NothingReceivedIsLost /\ FreshIsUnused /\ SeqInOnePlace
  BY DEF CatalogIInv
<1>2. /\ req[w].at = "commit" /\ req' = [req EXCEPT ![w] = Idle]
      /\ counter' = counter /\ recycled' = recycled
      /\ received' = [c \in Codes |-> received[c] + req[w].got[c]]
      /\ \A s \in Seqs : held'[s] = IF held[s] > Inserted(w, s) THEN held[s] - Inserted(w, s)
                                    ELSE IF Inserted(w, s) > 0 THEN 0 ELSE held[s]
      /\ DOMAIN held' = Seqs
      /\ \/ /\ rows' = AfterCommit(w) /\ spoiled' = spoiled
            /\ doubled' = doubled \cup {s \in Seqs : Inserted(w, s) > held[s]}
         \/ /\ rows' = rows /\ doubled' = doubled
            /\ spoiled' = spoiled \cup {s \in Seqs : \/ Inserted(w, s) > 0
                                                     \/ \E st \in Statuses : req[w].got[<<s, st>>] > 0}
  BY DEF CommitInbound
<1>3. req'[w] = Idle /\ \A v \in Workers \ {w} : req'[v] = req[v]
  BY <1>1, <1>2 DEF CatalogType
<1>4. /\ Idle.at = "idle" /\ DOMAIN Idle.todo = {} /\ Idle \in RequestType
      /\ \A r \in Rows : Idle.new[r] = NoRow /\ Idle.adds[r] = 0
      /\ \A c \in Codes : Idle.got[c] = 0
  BY IdleType
<1>5. /\ \A r \in Rows : /\ rows'[r] \in RowType
                         /\ rows[r] = NoRow => rows'[r] = NoRow \/ rows'[r] = req[w].new[r]
                         /\ rows[r] # NoRow => /\ rows'[r] # NoRow
                                               /\ rows'[r].seq = rows[r].seq
                                               /\ rows'[r].status = rows[r].status
      /\ DOMAIN rows' = Rows /\ rows' = [r \in Rows |-> rows'[r]]
  <2>1. CASE rows' = AfterCommit(w)
    BY <2>1, CommittedRow DEF AfterCommit
  <2>2. CASE rows' = rows
    BY <1>1, <2>2 DEF CatalogType
  <2>. QED
    BY <1>2, <2>1, <2>2
<1>6. \A s \in Seqs : /\ Inserted(w, s) \in Nat /\ held[s] \in Nat
                      /\ held[s] > Inserted(w, s) => held[s] - Inserted(w, s) \in Nat
  BY <1>1, InsertedFinite DEF CatalogType
<1>7. CatalogType'
  <2>1. rows' \in [Rows -> RowType]
    BY <1>5
  <2>2. req' \in [Workers -> RequestType]
    BY <1>1, <1>2, <1>4 DEF CatalogType
  <2>3. received' \in [Codes -> Nat]
    <3>1. \A c \in Codes : received[c] \in Nat /\ req[w].got[c] \in Nat
      BY <1>1 DEF CatalogType, RequestType
    <3>2. \A c \in Codes : received[c] + req[w].got[c] \in Nat
      BY <3>1
    <3>. QED
      BY <1>2, <3>2
  <2>4. held' \in [Seqs -> Nat]
    <3>1. held' = [s \in Seqs |-> held'[s]]
      BY DEF CommitInbound
    <3>2. \A s \in Seqs : held'[s] \in Nat
      BY <1>2, <1>6
    <3>. QED
      BY <3>1, <3>2
  <2>. QED
    BY <1>1, <1>2, <2>1, <2>2, <2>3, <2>4 DEF CatalogType
<1>8. ItemInHand' /\ DeleteInHand'
  BY <1>1, <1>3, <1>4, <1>5, HandsKept
<1>9. ASSUME NEW v \in Workers \ {w}, NEW r \in Rows
      PROVE  /\ rows'[r] = NoRow => req[v].adds[r] = 0
             /\ req[v].new[r] # NoRow =>
                  /\ rows'[r] = NoRow /\ req[v].new[r].state = "here"
                  /\ \A u \in Workers \ {v} : req'[u].new[r] = NoRow
  <2>1. rows'[r] = NoRow => req[v].adds[r] = 0
    BY <1>1, <1>5 DEF ChangesApart
  <2>2. ASSUME req[v].new[r] # NoRow
        PROVE  /\ rows'[r] = NoRow /\ req[v].new[r].state = "here"
               /\ \A u \in Workers \ {v} : req'[u].new[r] = NoRow
    <3>1. /\ rows[r] = NoRow /\ req[v].new[r].state = "here"
          /\ \A u \in Workers \ {v} : req[u].new[r] = NoRow
      BY <1>1, <2>2 DEF ChangesApart
    <3>2. rows'[r] = NoRow
      BY <1>5, <3>1
    <3>. QED
      BY <1>3, <1>4, <3>1, <3>2
  <2>. QED
    BY <2>1, <2>2
<1>10. ChangesApart'
  BY <1>3, <1>4, <1>9 DEF ChangesApart
<1>11. GotIsGain'
  <2>1. ASSUME NEW c \in Codes PROVE req'[w].got[c] = Total([r \in Rows |-> Gain(w, r, c)'])
    <3>1. NoRow \in RowType
      BY DEF RowType
    <3>2. QtyOf(NoRow, c) = 0
      BY <3>1, RowFacts
    <3>3. \A r \in Rows : Gain(w, r, c)' = 0
      BY <1>3, <1>4, <3>2 DEF Gain
    <3>4. [r \in Rows |-> Gain(w, r, c)'] \in [Rows -> Nat]
      BY <3>3
    <3>5. Total([r \in Rows |-> Gain(w, r, c)']) = 0
      BY <3>3, <3>4, TotalOfNone
    <3>. QED
      BY <1>3, <1>4, <3>5
  <2>2. ASSUME NEW v \in Workers \ {w}, NEW c \in Codes, c[1] \notin spoiled'
        PROVE  req'[v].got[c] = Total([r \in Rows |-> Gain(v, r, c)'])
    <3>1. ASSUME NEW r \in Rows PROVE Gain(v, r, c)' = Gain(v, r, c)
      <4>1. CASE rows[r] = NoRow
        <5>1. req[v].adds[r] = 0
          BY <1>1, <4>1 DEF ChangesApart
        <5>. QED
          BY <1>3, <2>2, <5>1 DEF Gain
      <4>2. CASE rows[r] # NoRow
        BY <1>3, <1>5, <2>2, <4>2 DEF Gain
      <4>. QED
        BY <4>1, <4>2
    <3>2. [r \in Rows |-> Gain(v, r, c)'] = [r \in Rows |-> Gain(v, r, c)]
      BY <3>1
    <3>3. req[v].got[c] = Total([r \in Rows |-> Gain(v, r, c)])
      BY <1>1, <1>2, <2>2 DEF GotIsGain
    <3>. QED
      BY <1>3, <3>2, <3>3
  <2>. QED
    BY <2>1, <2>2 DEF GotIsGain
<1>12. ASSUME NEW c \in Codes, c[1] \notin spoiled'
       PROVE  received'[c] = Total([r \in Rows |-> QtyOf(rows'[r], c)])
  <2>. DEFINE old == [r \in Rows |-> QtyOf(rows[r], c)]
              gain == [r \in Rows |-> Gain(w, r, c)]
              now == [r \in Rows |-> QtyOf(rows'[r], c)]
  <2>1. received[c] = Total(old) /\ received'[c] = received[c] + req[w].got[c]
    BY <1>1, <1>2, <1>12 DEF NothingReceivedIsLost
  <2>2. req[w].got[c] \in Nat /\ received[c] \in Nat
    BY <1>1 DEF CatalogType, RequestType
  <2>3. CASE rows' = AfterCommit(w)
    <3>1. \A r \in Rows : QtyOf(rows'[r], c) = QtyOf(rows[r], c) + Gain(w, r, c)
      BY <2>3, CommittedRow
    <3>2. \A r \in Rows : rows[r] \in RowType
      BY <1>1 DEF CatalogType
    <3>3. \A r \in Rows : QtyOf(rows[r], c) \in Nat /\ QtyOf(rows'[r], c) \in Nat /\ Gain(w, r, c) \in Nat
      BY <1>1, <1>5, <3>2, GainType, RowFacts
    <3>4. old \in [Rows -> Nat] /\ gain \in [Rows -> Nat] /\ now \in [Rows -> Nat]
      BY <3>3
    <3>5. \A r \in Rows : now[r] = old[r] + gain[r]
      BY <3>1
    <3>. HIDE DEF old, now
    <3>6. Total(now) = Total(old) + Total(gain)
      BY <3>4, <3>5, RowsFinite, TotalPlus
    <3>7. req[w].got[c] = Total(gain)
      BY <1>1, <1>2, <1>12 DEF GotIsGain
    <3>. QED
      BY <2>1, <3>6, <3>7 DEF now
  <2>4. CASE /\ rows' = rows
             /\ spoiled' = spoiled \cup {s \in Seqs : \/ Inserted(w, s) > 0
                                                      \/ \E st \in Statuses : req[w].got[<<s, st>>] > 0}
    <3>1. c[1] \in Seqs /\ c[2] \in Statuses /\ c = <<c[1], c[2]>>
      BY DEF Codes
    <3>2. ~(req[w].got[c] > 0)
      BY <1>12, <2>4, <3>1
    <3>3. received'[c] = received[c]
      BY <2>1, <2>2, <3>2
    <3>. QED
      BY <2>1, <2>4, <3>3
  <2>. QED
    BY <1>2, <2>3, <2>4
<1>13. NothingReceivedIsLost'
  BY <1>12 DEF NothingReceivedIsLost
<1>14. FreshIsUnused'
  <2>1. ASSUME NEW s \in Seqs, s \notin spoiled', s > counter
        PROVE  /\ held'[s] = 0 /\ recycled[s] = 0 /\ \A r \in Rows : rows'[r].seq # s
               /\ \A v \in Workers : /\ \A r \in Rows : req'[v].new[r].seq # s
                                     /\ \A i \in DOMAIN req'[v].todo : req'[v].todo[i].seq # s
    <3>1. /\ held[s] = 0 /\ recycled[s] = 0 /\ \A r \in Rows : rows[r].seq # s
          /\ \A v \in Workers : /\ \A r \in Rows : req[v].new[r].seq # s
                                /\ \A i \in DOMAIN req[v].todo : req[v].todo[i].seq # s
      BY <1>1, <1>2, <2>1 DEF FreshIsUnused
    <3>2. NoRow.seq # s
      BY DEF NoRow, Seqs
    <3>3. held'[s] = 0
      BY <1>2, <1>6, <3>1
    <3>4. \A r \in Rows : rows'[r].seq # s
      BY <1>5, <3>1, <3>2
    <3>5. \A v \in Workers : /\ \A r \in Rows : req'[v].new[r].seq # s
                             /\ \A i \in DOMAIN req'[v].todo : req'[v].todo[i].seq # s
      BY <1>3, <1>4, <3>1, <3>2
    <3>. QED
      BY <3>1, <3>3, <3>4, <3>5
  <2>. QED
    BY <1>2, <2>1 DEF FreshIsUnused
<1>15. \A s : Deleting(s)' = Deleting(s)
  BY <1>2, <1>3, <1>4 DEF Deleting
<1>16. ASSUME NEW s \in Seqs, s \notin spoiled'
       PROVE  LET places == held'[s] + Cardinality(Live(s)') + recycled[s] + Cardinality(Deleting(s))
              IN (s <= counter => places >= 1) /\ (s \notin doubled' => places <= 1)
  <2>. DEFINE k == Inserted(w, s)
              l == Cardinality(Live(s))
              d == Cardinality(Deleting(s))
  <2>1. held[s] \in Nat /\ recycled[s] \in Nat /\ l \in Nat /\ d \in Nat /\ k \in Nat
    BY <1>1, <1>6, PlacesFinite DEF CatalogType
  <2>2. Cardinality(Live(s)') = l + k
    BY <1>2, <1>6, <1>16, CommittedLive
  <2>3. /\ s <= counter => held[s] + l + recycled[s] + d >= 1
        /\ s \notin doubled => held[s] + l + recycled[s] + d <= 1
    BY <1>1, <1>2, <1>16 DEF SeqInOnePlace
  <2>4. held'[s] = IF held[s] > k THEN held[s] - k ELSE IF k > 0 THEN 0 ELSE held[s]
    BY <1>2
  <2>5. s \notin doubled' => s \notin doubled /\ ~(k > held[s])
    BY <1>2, <1>6, <1>16
  <2>. HIDE DEF k, l, d
  <2>6. held'[s] >= 0 /\ held'[s] + k >= held[s] /\ held'[s] \in Nat
    BY <2>1, <2>4
  <2>7. ~(k > held[s]) => held'[s] + k = held[s]
    BY <2>1, <2>4
  <2>8. s <= counter => held'[s] + (l + k) + recycled[s] + d >= 1
    BY <2>1, <2>3, <2>6
  <2>9. s \notin doubled' => held'[s] + (l + k) + recycled[s] + d <= 1
    BY <2>1, <2>3, <2>5, <2>6, <2>7
  <2>. QED
    BY <2>2, <2>8, <2>9 DEF d
<1>17. SeqInOnePlace'
  BY <1>2, <1>15, <1>16 DEF SeqInOnePlace
<1>. QED
  BY <1>7, <1>8, <1>10, <1>11, <1>13, <1>14, <1>17 DEF CatalogIInv

-----------------------------------------------------------------------------
(* The theorems. *)

LEMMA CatalogInit_IInv == CatalogInit => CatalogIInv
<1>. SUFFICES ASSUME CatalogInit PROVE CatalogIInv
  OBVIOUS
<1>1. /\ rows = [r \in Rows |-> NoRow] /\ counter = 0 /\ recycled = [s \in Seqs |-> 0]
      /\ held = [s \in Seqs |-> 0] /\ req = [w \in Workers |-> Idle]
      /\ received = [c \in Codes |-> 0] /\ spoiled = {} /\ doubled = {}
  BY DEF CatalogInit
<1>2. NoRow \in RowType /\ NoRow.seq = 0 /\ NoRow.state # "here"
  BY DEF RowType, NoRow
<1>3. CatalogType
  BY <1>1, <1>2, IdleType DEF CatalogType
<1>4. /\ \A w \in Workers : /\ req[w] = Idle /\ req[w].at = "idle" /\ DOMAIN req[w].todo = {}
                            /\ \A r \in Rows : req[w].new[r] = NoRow /\ req[w].adds[r] = 0
                            /\ \A c \in Codes : req[w].got[c] = 0
      /\ \A r \in Rows : rows[r] = NoRow
  BY <1>1, IdleType
<1>5. ItemInHand /\ DeleteInHand /\ ChangesApart
  BY <1>4 DEF ItemInHand, DeleteInHand, ChangesApart
<1>6. GotIsGain
  BY <1>3, <1>4, NoGain DEF GotIsGain
<1>7. NothingReceivedIsLost
  <2>1. ASSUME NEW c \in Codes PROVE received[c] = Total([r \in Rows |-> QtyOf(rows[r], c)])
    <3>1. \A r \in Rows : QtyOf(rows[r], c) = 0
      BY <1>2, <1>4, RowFacts
    <3>2. [r \in Rows |-> QtyOf(rows[r], c)] \in [Rows -> Nat]
      BY <3>1
    <3>3. Total([r \in Rows |-> QtyOf(rows[r], c)]) = 0
      BY <3>1, <3>2, TotalOfNone
    <3>. QED
      BY <1>1, <3>3
  <2>. QED
    BY <2>1 DEF NothingReceivedIsLost
<1>8. FreshIsUnused
  BY <1>1, <1>2, <1>4 DEF FreshIsUnused, Seqs
<1>9. SeqInOnePlace
  <2>1. ASSUME NEW s \in Seqs
        PROVE  /\ ~(s <= counter)
               /\ held[s] + Cardinality(Live(s)) + recycled[s] + Cardinality(Deleting(s)) = 0
    <3>1. s > counter /\ s \notin spoiled
      BY <1>1 DEF Seqs
    <3>2. /\ held[s] = 0 /\ recycled[s] = 0
          /\ Cardinality(Live(s)) = 0 /\ Cardinality(Deleting(s)) = 0
      BY <1>3, <1>5, <1>8, <3>1, FreshIsNowhere
    <3>. QED
      BY <1>1, <3>1, <3>2 DEF Seqs
  <2>. QED
    BY <2>1 DEF SeqInOnePlace
<1>. QED
  BY <1>3, <1>5, <1>6, <1>7, <1>8, <1>9 DEF CatalogIInv

LEMMA CatalogNext_IInv == CatalogIInv /\ [CatalogNext]_catalogVars => CatalogIInv'
<1>. SUFFICES ASSUME CatalogIInv, [CatalogNext]_catalogVars PROVE CatalogIInv'
  OBVIOUS
<1>1. CASE AllocateSeq \/ AllocateFromCounter \/ AllocateLostCommit
  BY <1>1, AllocationSteps
<1>2. ASSUME NEW s \in Seqs, NEW st \in Statuses, CreateProduct(s, st) PROVE CatalogIInv'
  BY <1>2, CreateStep
<1>3. ASSUME NEW w \in Workers,
             \/ \E items \in Batches : BeginInbound(w, items)
             \/ \E r \in Rows : BeginDelete(w, r)
             \/ Step(w) \/ Abort(w)
      PROVE  CatalogIInv'
  <2>1. ASSUME NEW items \in Batches, BeginInbound(w, items) PROVE CatalogIInv'
    BY <2>1, BeginInboundStep
  <2>2. ASSUME NEW r \in Rows, BeginDelete(w, r) PROVE CatalogIInv'
    BY <2>2, BeginDeleteStep
  <2>3. CASE FindProductByCode(w)
    BY <2>3, FindStep
  <2>4. CASE WriteItem(w)
    BY <2>4, WriteStep
  <2>5. CASE CommitInbound(w)
    BY <2>5, CommitStep
  <2>6. CASE BeginTx(w)
    BY <2>6, BeginTxStep
  <2>7. CASE DeleteRow(w)
    BY <2>7, DeleteRowStep
  <2>8. CASE RecycleSeq(w)
    BY <2>8, RecycleStep
  <2>9. CASE InsertFails(w) \/ Abort(w) \/ BreakDeadlock(w)
    BY <2>9, EndStep DEF InsertFails, Abort, BreakDeadlock
  <2>. QED
    BY <1>3, <2>1, <2>2, <2>3, <2>4, <2>5, <2>6, <2>7, <2>8, <2>9 DEF Step
<1>4. CASE UNCHANGED catalogVars
  <2>1. /\ rows' = rows /\ counter' = counter /\ recycled' = recycled /\ held' = held
        /\ req' = req /\ received' = received /\ spoiled' = spoiled /\ doubled' = doubled
    BY <1>4 DEF catalogVars
  <2>2. /\ CatalogType /\ ItemInHand /\ DeleteInHand /\ ChangesApart
        /\ GotIsGain /\ NothingReceivedIsLost /\ FreshIsUnused /\ SeqInOnePlace
    BY DEF CatalogIInv
  <2>3. CatalogType' /\ ItemInHand' /\ DeleteInHand' /\ FreshIsUnused'
    BY <2>1, <2>2 DEF CatalogType, ItemInHand, DeleteInHand, FreshIsUnused
  <2>4. SameUnits /\ \A w \in Workers : SameChanges(w)
    BY <2>1 DEF SameUnits, SameChanges
  <2>5. ChangesApart' /\ GotIsGain' /\ NothingReceivedIsLost'
    BY <2>1, <2>2, <2>3, <2>4, UnitsKept
  <2>6. \A s : Live(s)' = Live(s) /\ Deleting(s)' = Deleting(s)
    BY <2>1 DEF Live, Deleting
  <2>7. SeqInOnePlace'
    BY <2>1, <2>2, <2>6, PlacesKept
  <2>. QED
    BY <2>3, <2>5, <2>7 DEF CatalogIInv
<1>. QED
  BY <1>1, <1>2, <1>3, <1>4 DEF CatalogNext

LEMMA CatalogInvariance == CatalogSpec => []CatalogIInv
BY CatalogInit_IInv, CatalogNext_IInv, PTL DEF CatalogSpec

\* What clients were told is in stock is in stock, unit for unit: concurrent inbounds
\* of the same code, batches that name a code twice, rollbacks and deletes lose and
\* invent nothing, as long as no commit is lost and no inbound races with a delete.
THEOREM NothingReceivedIsLostTheorem == CatalogSpec => []NothingReceivedIsLost
<1>1. CatalogIInv => NothingReceivedIsLost
  BY DEF CatalogIInv
<1>. QED
  BY <1>1, CatalogInvariance, PTL

\* AllocateSeq, CreateProduct, the inbounds and DeleteProduct, in any number and
\* order, neither lose a number nor hand one out twice, but for the cases that the
\* histories record.
THEOREM SeqInOnePlaceTheorem == CatalogSpec => []SeqInOnePlace
<1>1. CatalogIInv => SeqInOnePlace
  BY DEF CatalogIInv
<1>. QED
  BY <1>1, CatalogInvariance, PTL
=============================================================================
