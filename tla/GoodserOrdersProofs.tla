------------------------ MODULE GoodserOrdersProofs ------------------------
(***************************************************************************)
(* For any workers, products and item lists: the transactions of the order *)
(* service implement the stock ledger, as long as no client uses           *)
(* UpdateProduct or DeleteProduct, which write outside a transaction; and  *)
(* with them a reservation count is spoilt only by an edit that a commit   *)
(* overtook.                                                               *)
(***************************************************************************)
EXTENDS GoodserOrders, FunctionTheorems, FiniteSetTheorems, TLAPS

\* The operations that are transactions.
NoEdits == Ops \cap {"edit", "delete"} = {}

Item == [product : Products, quantity : Nat]

Tx == [op : AllOps \cup {"none"}, at : {"idle", "reserve", "import", "order", "settle"},
       todo : Seq(Item), dq : [Products -> Int], dr : [Products -> Int],
       order : Nat, kind : {"outbound", "reserve"} \X OpenStatus, items : Seq(Item),
       row : {NoOne}, copy : [quantity : Int, reserved : Int], late : {FALSE}]

OrderRow == [type : {"outbound", "reserve"},
             status : OpenStatus \cup {"none", "confirmed", "cancelled"}, items : Seq(Item)]

\* A request's list asks for at most MaxUnits of a product.
Claims(items) == \A p \in Products : Units(items, p) <= MaxUnits

TypeOK ==
  /\ product \in [Products -> [here : {TRUE}, quantity : Int, reserved : Int]]
  /\ orders \in [OrderIds -> OrderRow]
  /\ \A o \in OrderIds : Claims(orders[o].items)
  /\ lock \in [Products \cup OrderIds -> Workers \cup {NoOne}]
  /\ tx \in [Workers -> Tx]

\* A row that a transaction has changed is locked by it.
TouchedIsLocked ==
  \A w \in Workers, p \in Products : tx[w].dq[p] # 0 \/ tx[w].dr[p] # 0 => lock[p] = w

\* The committed tables never show more reserved than there is, nor would the
\* commit of a transaction that is reserving.
Covered ==
  /\ \A p \in Products : product[p].reserved <= product[p].quantity
  /\ \A w \in Workers : tx[w].at = "reserve" =>
       \A p \in Products : product[p].reserved + tx[w].dr[p] <= product[p].quantity
  /\ \A w \in Workers : tx[w].at = "import" =>
       \A p \in Products : tx[w].dq[p] > 0 => product[p].quantity + tx[w].dq[p] <= MaxStock

\* w holds the order it works on, and the order still is what w found.
HoldsOrder(w) ==
  /\ tx[w].order \in OrderIds /\ lock[tx[w].order] = w
  /\ orders[tx[w].order].status \in OpenStatus
  /\ tx[w].op = "convert" => orders[tx[w].order].type = "reserve"

\* What a transaction has changed so far is what its items, up to the ones still
\* to do, ask for.
Ordering(w) ==
  tx[w].at = "order" =>
    /\ tx[w].op \in OrderOps /\ tx[w].order \in OrderIds /\ Claims(tx[w].items)
    /\ \A p \in Products : tx[w].dq[p] = 0 /\ tx[w].dr[p] = 0

Importing(w) ==
  tx[w].at = "import" =>
    /\ tx[w].op = "import"
    /\ \A p \in Products : /\ tx[w].dr[p] = 0 /\ tx[w].dq[p] >= 0
                           /\ tx[w].dq[p] + Units(tx[w].todo, p) <= MaxUnits

Settling(w) ==
  tx[w].at = "settle" =>
    /\ tx[w].op \in OrderOps /\ HoldsOrder(w) /\ Claims(tx[w].items)
    /\ \A p \in Products :
         LET done == Units(orders[tx[w].order].items, p) - Units(tx[w].todo, p)
         IN tx[w].dr[p] = 0 - done /\ tx[w].dq[p] = IF tx[w].op = "confirm" THEN 0 - done ELSE 0

Reserving(w) ==
  tx[w].at = "reserve" =>
    /\ tx[w].op \in {"create", "convert"} /\ Claims(tx[w].items)
    /\ tx[w].op = "convert" => HoldsOrder(w)
    /\ \A p \in Products :
         LET done == Units(tx[w].items, p) - Units(tx[w].todo, p)
             back == IF tx[w].op = "convert" THEN Units(orders[tx[w].order].items, p) ELSE 0
         IN tx[w].dr[p] = done - back /\ tx[w].dq[p] = 0

Progress(w) ==
  /\ tx[w].at = "idle" => tx[w] = Idle
  /\ Ordering(w) /\ Importing(w) /\ Settling(w) /\ Reserving(w)

\* There is a fresh id for every transaction that will insert an order.
FreshIds == IsFiniteSet(Inserting) /\ Cardinality(Inserting) <= Cardinality(Fresh)

IInv ==
  /\ TypeOK
  /\ TouchedIsLocked
  /\ Covered
  /\ \A w \in Workers : Progress(w)
  /\ FreshIds

-----------------------------------------------------------------------------
(* Units of an item list. *)

\* The units of one item.
LEMMA BlockSize ==
  ASSUME NEW x, NEW n \in Nat
  PROVE  IsFiniteSet({x} \X (1 .. n)) /\ Cardinality({x} \X (1 .. n)) = n
<1>1. IsFiniteSet({x}) /\ Cardinality({x}) = 1
  BY FS_Singleton
<1>2. IsFiniteSet(1 .. n) /\ Cardinality(1 .. n) = n
  BY FS_Interval
<1>3. \A S, T : IsFiniteSet(S) /\ IsFiniteSet(T) =>
        IsFiniteSet(S \X T) /\ Cardinality(S \X T) = Cardinality(S) * Cardinality(T)
  BY FS_Product
<1>4. /\ IsFiniteSet({x} \X (1 .. n))
      /\ Cardinality({x} \X (1 .. n)) = Cardinality({x}) * Cardinality(1 .. n)
  BY <1>1, <1>2, <1>3, Zenon
<1>5. Cardinality({x} \X (1 .. n)) = 1 * n
  BY <1>1, <1>2, <1>4, Zenon
<1>. QED
  BY <1>4, <1>5

\* An item list has finitely many units.
LEMMA UnitsFinite ==
  ASSUME NEW s \in Seq(Item), NEW p
  PROVE  IsFiniteSet(UnitsOf(s, p)) /\ Units(s, p) \in Nat
<1>. DEFINE I == {j \in DOMAIN s : s[j].product = p}
            f == [i \in I |-> {i} \X (1 .. s[i].quantity)]
            B == {f[i] : i \in I}
<1>1. IsFiniteSet(I)
  <2>1. DOMAIN s = 1 .. Len(s) /\ Len(s) \in Nat
    OBVIOUS
  <2>2. IsFiniteSet(1 .. Len(s))
    BY <2>1, FS_Interval
  <2>3. I \in SUBSET (1 .. Len(s))
    BY <2>1
  <2>. QED
    BY <2>2, <2>3, FS_Subset
<1>2. f \in Surjection(I, B)
  BY Fun_IsSurj
<1>3. IsFiniteSet(B)
  <2>. HIDE DEF I, f, B
  <2>. QED
    BY <1>1, <1>2, FS_Surjection
<1>4. \A T \in B : IsFiniteSet(T)
  <2>. SUFFICES ASSUME NEW i \in I PROVE IsFiniteSet({i} \X (1 .. s[i].quantity))
    OBVIOUS
  <2>1. s[i] \in Item
    OBVIOUS
  <2>2. s[i].quantity \in Nat
    BY <2>1 DEF Item
  <2>. QED
    BY <2>2, BlockSize
<1>5. UnitsOf(s, p) = UNION B
  BY DEF UnitsOf
<1>. HIDE DEF B
<1>6. IsFiniteSet(UnitsOf(s, p))
  BY <1>3, <1>4, <1>5, FS_UNION
<1>. QED
  BY <1>6, FS_CardinalityType DEF Units

\* The empty list has none.
LEMMA UnitsEmpty == \A p : Units(<<>>, p) = 0
<1>1. \A p : UnitsOf(<<>>, p) = {}
  BY DEF UnitsOf
<1>. QED
  BY <1>1, FS_EmptySet DEF Units

\* The units of the first item, and those of the rest with their items renumbered.
LEMMA UnitsTail ==
  ASSUME NEW s \in Seq(Item), s # <<>>, NEW p
  PROVE  /\ Tail(s) \in Seq(Item) /\ Head(s) \in Item
         /\ Units(s, p) = Units(Tail(s), p) + (IF Head(s).product = p THEN Head(s).quantity ELSE 0)
<1>1. /\ Head(s) \in Item /\ Tail(s) \in Seq(Item)
      /\ 1 \in DOMAIN s /\ s[1] = Head(s)
      /\ \A i \in DOMAIN Tail(s) : i \in Nat \ {0} /\ i + 1 \in DOMAIN s /\ Tail(s)[i] = s[i + 1]
      /\ \A i \in DOMAIN s : i # 1 => i - 1 \in DOMAIN Tail(s) /\ Tail(s)[i - 1] = s[i]
      /\ \A i \in DOMAIN s : i \in Nat
  OBVIOUS
<1>. DEFINE R == UnitsOf(Tail(s), p)
            S == {u \in UnitsOf(s, p) : u[1] # 1}
            B == IF Head(s).product = p THEN {1} \X (1 .. Head(s).quantity) ELSE {}
            f == [u \in R |-> <<u[1] + 1, u[2]>>]
<1>2. \A u : u \in R <=> \E i \in DOMAIN Tail(s) : /\ Tail(s)[i].product = p
                                               /\ \E k \in 1 .. Tail(s)[i].quantity : u = <<i, k>>
  BY DEF UnitsOf
<1>3. \A u : u \in UnitsOf(s, p) <=> \E i \in DOMAIN s : /\ s[i].product = p
                                                   /\ \E k \in 1 .. s[i].quantity : u = <<i, k>>
  BY DEF UnitsOf
<1>4. f \in Bijection(R, S)
  <2>1. ASSUME NEW u \in R PROVE f[u] \in S
    <3>1. PICK i \in DOMAIN Tail(s) : /\ Tail(s)[i].product = p
                                      /\ \E k \in 1 .. Tail(s)[i].quantity : u = <<i, k>>
      BY <1>2
    <3>2. PICK k \in 1 .. Tail(s)[i].quantity : u = <<i, k>>
      BY <3>1
    <3>3. f[u] = <<i + 1, k>>
      BY <3>2
    <3>4. i + 1 \in DOMAIN s /\ Tail(s)[i] = s[i + 1] /\ i + 1 # 1
      BY <1>1
    <3>5. <<i + 1, k>> \in UnitsOf(s, p)
      BY <1>3, <3>1, <3>4
    <3>. QED
      BY <3>3, <3>4, <3>5
  <2>2. f \in [R -> S]
    BY <2>1
  <2>3. ASSUME NEW u \in R, NEW v \in R, f[u] = f[v] PROVE u = v
    <3>1. PICK i \in DOMAIN Tail(s), k \in Nat : u = <<i, k>>
      BY <1>1, <1>2 DEF Item
    <3>2. PICK j \in DOMAIN Tail(s), l \in Nat : v = <<j, l>>
      BY <1>1, <1>2 DEF Item
    <3>3. i + 1 = j + 1 /\ k = l
      BY <2>3, <3>1, <3>2
    <3>. QED
      BY <1>1, <3>1, <3>2, <3>3
  <2>4. ASSUME NEW v \in S PROVE \E u \in R : f[u] = v
    <3>1. PICK i \in DOMAIN s : s[i].product = p /\ \E k \in 1 .. s[i].quantity : v = <<i, k>>
      BY <1>3
    <3>2. PICK k \in 1 .. s[i].quantity : v = <<i, k>>
      BY <3>1
    <3>3. i # 1
      BY <3>2
    <3>4. i - 1 \in DOMAIN Tail(s) /\ Tail(s)[i - 1] = s[i] /\ i \in Nat
      BY <1>1, <3>3
    <3>5. <<i - 1, k>> \in R
      BY <1>2, <3>1, <3>4
    <3>6. f[<<i - 1, k>>] = <<(i - 1) + 1, k>>
      BY <3>5
    <3>. QED
      BY <3>2, <3>4, <3>5, <3>6
  <2>. HIDE DEF R, S, f
  <2>5. f \in Injection(R, S)
    BY <2>2, <2>3, Fun_IsInj
  <2>6. f \in Surjection(R, S)
    BY <2>2, <2>4, Fun_IsSurj
  <2>. QED
    BY <2>5, <2>6 DEF Bijection
<1>5. IsFiniteSet(S) /\ Cardinality(S) = Units(Tail(s), p)
  <2>1. IsFiniteSet(R)
    BY <1>1, UnitsFinite
  <2>2. ExistsBijection(R, S)
    <3>. HIDE DEF R, S, f
    <3>. QED
      BY <1>4 DEF ExistsBijection
  <2>3. IsFiniteSet(S) /\ Cardinality(S) = Cardinality(R)
    <3>. HIDE DEF R, S
    <3>. QED
      BY <2>1, <2>2, FS_Bijection
  <2>. QED
    BY <2>3 DEF Units
<1>6. UnitsOf(s, p) = S \cup B /\ S \cap B = {}
  <2>1. ASSUME NEW u \in UnitsOf(s, p) PROVE u \in S \cup B
    <3>1. PICK i \in DOMAIN s : s[i].product = p /\ \E k \in 1 .. s[i].quantity : u = <<i, k>>
      BY <1>3
    <3>. QED
      BY <1>1, <3>1
  <2>2. ASSUME NEW u \in B PROVE u \in UnitsOf(s, p) /\ u \notin S
    <3>1. Head(s).product = p /\ \E k \in 1 .. Head(s).quantity : u = <<1, k>>
      OBVIOUS
    <3>. QED
      BY <1>1, <1>3, <3>1
  <2>. QED
    BY <2>1, <2>2
<1>7. /\ IsFiniteSet(B)
      /\ Cardinality(B) = IF Head(s).product = p THEN Head(s).quantity ELSE 0
  <2>1. Head(s).quantity \in Nat
    BY <1>1 DEF Item
  <2>. QED
    BY <2>1, BlockSize, FS_EmptySet
<1>8. Cardinality(UnitsOf(s, p)) = Cardinality(S) + Cardinality(B) - 0
  <2>. HIDE DEF S, B
  <2>1. Cardinality(S \cap B) = 0
    BY <1>6, FS_EmptySet, Zenon
  <2>2. Cardinality(S \cup B) = Cardinality(S) + Cardinality(B) - Cardinality(S \cap B)
    BY <1>5, <1>7, FS_Union
  <2>. QED
    BY <1>6, <2>1, <2>2, Zenon
<1>9. Units(Tail(s), p) \in Nat /\ Head(s).quantity \in Nat
  BY <1>1, UnitsFinite DEF Item
<1>. HIDE DEF S, B
<1>10. Units(s, p) = Units(Tail(s), p) + Cardinality(B) - 0
  BY <1>5, <1>8, Zenon DEF Units
<1>11. Units(s, p) = Units(Tail(s), p) + (IF Head(s).product = p THEN Head(s).quantity ELSE 0)
  BY <1>7, <1>9, <1>10
<1>. QED
  BY <1>1, <1>11

-----------------------------------------------------------------------------
(* The inductive invariant. *)

\* The table of orders is finite.
LEMMA OrderIdsFinite == IsFiniteSet(OrderIds) /\ IsFiniteSet(Fresh) /\ Cardinality(Fresh) \in Nat
<1>1. IsFiniteSet(OrderIds)
  BY OrdersAssumption, FS_Interval DEF OrderIds
<1>2. Fresh \in SUBSET OrderIds
  BY DEF Fresh
<1>. QED
  BY <1>1, <1>2, FS_Subset, FS_CardinalityType

\* A worker at rest.
LEMMA IdleTx == /\ Idle \in Tx
                /\ Idle.op = "none" /\ Idle.at = "idle" /\ Idle.todo = <<>> /\ Idle.items = <<>>
                /\ Idle.dq = Zero /\ Idle.dr = Zero
                /\ \A p \in Products : Zero[p] = 0
BY DEF Idle, Tx, Zero, AllOps, OpenStatus, Item

\* Nothing is reserved, locked or under way at the start.
LEMMA InitIInv == Init => IInv
<1>. SUFFICES ASSUME Init PROVE IInv
  OBVIOUS
<1>1. TypeOK
  <2>1. product \in [Products -> [here : {TRUE}, quantity : Int, reserved : Int]]
    BY OrdersAssumption DEF Init
  <2>2. orders \in [OrderIds -> OrderRow] /\ \A o \in OrderIds : Claims(orders[o].items)
    <3>1. NoOrder \in OrderRow /\ NoOrder.items = <<>>
      BY DEF NoOrder, OrderRow, Item
    <3>2. Claims(<<>>)
      BY UnitsEmpty, OrdersAssumption DEF Claims
    <3>. QED
      BY <3>1, <3>2 DEF Init
  <2>3. tx \in [Workers -> Tx]
    BY IdleTx DEF Init
  <2>4. lock \in [Products \cup OrderIds -> Workers \cup {NoOne}]
    BY DEF Init
  <2>. QED
    BY <2>1, <2>2, <2>3, <2>4 DEF TypeOK
<1>2. \A w \in Workers : tx[w] = Idle
  BY DEF Init
<1>3. TouchedIsLocked
  BY <1>2, IdleTx DEF TouchedIsLocked
<1>4. Covered
  BY <1>2, IdleTx, OrdersAssumption DEF Init, Covered
<1>5. \A w \in Workers : Progress(w)
  BY <1>2, IdleTx DEF Progress, Ordering, Importing, Settling, Reserving
<1>6. FreshIds
  <2>1. Inserting = {}
    BY <1>2, IdleTx DEF Inserting
  <2>. QED
    BY <2>1, OrderIdsFinite, FS_EmptySet DEF FreshIds
<1>. QED
  BY <1>1, <1>3, <1>4, <1>5, <1>6 DEF IInv

\* A step of w that commits nothing and takes no lock from another worker keeps
\* what the invariant says of the others.
LEMMA FrameIInv ==
  ASSUME IInv, NEW w \in Workers, NEW t \in Tx,
         tx' = [tx EXCEPT ![w] = t], product' = product, orders' = orders,
         lock' \in [Products \cup OrderIds -> Workers \cup {NoOne}],
         \A r \in Products \cup OrderIds : lock[r] \in Workers \ {w} => lock'[r] = lock[r],
         \A p \in Products : t.dq[p] # 0 \/ t.dr[p] # 0 => lock'[p] = w,
         t.at = "reserve" => \A p \in Products : product[p].reserved + t.dr[p] <= product[p].quantity,
         t.at = "import" =>
           \A p \in Products : t.dq[p] > 0 => product[p].quantity + t.dq[p] <= MaxStock,
         Progress(w)', FreshIds'
  PROVE  IInv'
<1>1. tx'[w] = t /\ \A v \in Workers \ {w} : tx'[v] = tx[v]
  BY DEF IInv, TypeOK
<1>2. TypeOK'
  BY DEF IInv, TypeOK
<1>3. TouchedIsLocked'
  BY <1>1 DEF IInv, TypeOK, TouchedIsLocked
<1>4. Covered'
  BY <1>1 DEF IInv, Covered
<1>5. ASSUME NEW v \in Workers \ {w} PROVE Progress(v)'
  <2>1. Progress(v)
    BY DEF IInv
  <2>2. ASSUME HoldsOrder(v) PROVE HoldsOrder(v)'
    BY <1>1, <2>2 DEF HoldsOrder
  <2>. QED
    BY <1>1, <2>1, <2>2 DEF Progress, Ordering, Importing, Settling, Reserving
<1>. QED
  BY <1>2, <1>3, <1>4, <1>5 DEF IInv

\* The types of what the invariant speaks of.
LEMMA Rows ==
  ASSUME IInv
  PROVE  /\ \A p \in Products : /\ product[p].here /\ product[p].quantity \in Int
                                /\ product[p].reserved \in Int
                                /\ product[p].reserved <= product[p].quantity
         /\ \A w \in Workers : /\ tx[w] \in Tx /\ tx[w].todo \in Seq(Item) /\ tx[w].items \in Seq(Item)
                               /\ tx[w].dq \in [Products -> Int] /\ tx[w].dr \in [Products -> Int]
                               /\ tx[w].kind \in {"outbound", "reserve"} \X OpenStatus
         /\ orders \in [OrderIds -> OrderRow]
         /\ \A o \in OrderIds : /\ orders[o] \in OrderRow /\ orders[o].items \in Seq(Item)
                                /\ Claims(orders[o].items)
<1>1. ASSUME NEW w \in Workers PROVE tx[w] \in Tx
  BY DEF IInv, TypeOK
<1>2. ASSUME NEW w \in Workers
      PROVE /\ tx[w].todo \in Seq(Item) /\ tx[w].items \in Seq(Item)
            /\ tx[w].dq \in [Products -> Int] /\ tx[w].dr \in [Products -> Int]
            /\ tx[w].kind \in {"outbound", "reserve"} \X OpenStatus
  BY <1>1 DEF Tx
<1>3. ASSUME NEW p \in Products
      PROVE product[p].here /\ product[p].quantity \in Int /\ product[p].reserved \in Int
  BY DEF IInv, TypeOK
<1>4. ASSUME NEW o \in OrderIds PROVE orders[o] \in OrderRow /\ Claims(orders[o].items)
  BY DEF IInv, TypeOK
<1>5. ASSUME NEW o \in OrderIds PROVE orders[o].items \in Seq(Item)
  BY <1>4 DEF OrderRow
<1>6. \A p \in Products : product[p].reserved <= product[p].quantity
  BY DEF IInv, Covered
<1>7. orders \in [OrderIds -> OrderRow]
  BY DEF IInv, TypeOK
<1>. QED
  BY <1>1, <1>2, <1>3, <1>4, <1>5, <1>6, <1>7

\* A change of one column.
LEMMA AddTo ==
  ASSUME NEW f \in [Products -> Int], NEW p \in Products, NEW d \in Int
  PROVE  LET g == [f EXCEPT ![p] = @ + d]
         IN /\ g \in [Products -> Int] /\ g[p] = f[p] + d
            /\ \A x \in Products \ {p} : g[x] = f[x]
OBVIOUS

\* The locks of a worker that ends its transaction.
LEMMA ReleaseLocks ==
  ASSUME IInv, NEW w \in Workers
  PROVE  /\ Release(w) \in [Products \cup OrderIds -> Workers \cup {NoOne}]
         /\ \A r \in Products \cup OrderIds : lock[r] \in Workers \ {w} => Release(w)[r] = lock[r]
BY DEF IInv, TypeOK, Release

\* A request that inserts nothing more leaves enough ids.
LEMMA FewerInserts ==
  ASSUME FreshIds, orders' = orders, Inserting' \subseteq Inserting
  PROVE  FreshIds'
<1>1. Fresh' = Fresh
  BY DEF Fresh
<1>2. IsFiniteSet(Inserting') /\ Cardinality(Inserting') <= Cardinality(Inserting)
  BY FS_Subset DEF FreshIds
<1>3. Cardinality(Inserting) \in Nat /\ Cardinality(Inserting') \in Nat /\ Cardinality(Fresh) \in Nat
  BY <1>2, OrderIdsFinite, FS_CardinalityType DEF FreshIds
<1>. QED
  BY <1>1, <1>2, <1>3 DEF FreshIds

\* The error paths, a lost commit, an ended context and the victim of a deadlock.
LEMMA RollbackIInv ==
  ASSUME IInv, NEW w \in Workers, lock' = Release(w), tx' = [tx EXCEPT ![w] = Idle],
         product' = product, orders' = orders
  PROVE  IInv'
<1>1. tx'[w] = Idle /\ \A v \in Workers \ {w} : tx'[v] = tx[v]
  BY DEF IInv, TypeOK
<1>2. Progress(w)'
  BY <1>1, IdleTx DEF Progress, Ordering, Importing, Settling, Reserving
<1>3. Inserting' \subseteq Inserting
  BY <1>1, IdleTx DEF Inserting
<1>4. FreshIds'
  BY <1>3, FewerInserts DEF IInv
<1>5. \A p \in Products : ~(Idle.dq[p] # 0 \/ Idle.dr[p] # 0)
  BY IdleTx
<1>. QED
  BY <1>2, <1>4, <1>5, IdleTx, ReleaseLocks, FrameIInv

\* A request that arrives.
LEMMA BeginIInv ==
  ASSUME IInv, NEW w \in Workers, NEW t \in Tx, Begin(w, t), t.dq = Zero, t.dr = Zero,
         \/ t.at = "reserve" /\ t.op = "create" /\ Claims(t.items) /\ t.todo = t.items
         \/ t.at = "import" /\ t.op = "import" /\ Claims(t.todo)
         \/ t.at = "order" /\ t.op \in OrderOps /\ t.order \in OrderIds /\ Claims(t.items)
  PROVE  IInv'
<1>1. tx'[w] = t /\ \A v \in Workers \ {w} : tx'[v] = tx[v]
  BY DEF IInv, TypeOK, Begin
<1>2. /\ product' = product /\ orders' = orders /\ lock' = lock
      /\ tx' = [tx EXCEPT ![w] = t] /\ tx[w] = Idle
      /\ t.op \in {"create", "convert"} => Cardinality(Inserting) < Cardinality(Fresh)
  BY DEF Begin
<1>3. \A p \in Products : t.dq[p] = 0 /\ t.dr[p] = 0
  BY IdleTx
<1>4. \A p \in Products : Units(t.items, p) \in Nat /\ Units(t.todo, p) \in Nat
  BY UnitsFinite DEF Tx
<1>5. Progress(w)'
  <2>1. Ordering(w)'
    BY <1>1, <1>3 DEF Ordering
  <2>2. Importing(w)'
    BY <1>1, <1>3, <1>4 DEF Importing, Claims
  <2>3. Settling(w)'
    BY <1>1 DEF Settling
  <2>4. Reserving(w)'
    BY <1>1, <1>3, <1>4 DEF Reserving
  <2>. QED
    BY <1>1, <2>1, <2>2, <2>3, <2>4 DEF Progress
<1>6. FreshIds'
  <2>1. CASE t.op \notin {"create", "convert"}
    <3>1. Inserting' \subseteq Inserting
      BY <1>1, <2>1 DEF Inserting
    <3>. QED
      BY <1>2, <3>1, FewerInserts DEF IInv
  <2>2. CASE t.op \in {"create", "convert"}
    <3>1. Inserting' = Inserting \cup {w} /\ w \notin Inserting
      BY <1>1, <1>2, <2>2, IdleTx DEF Inserting
    <3>2. IsFiniteSet(Inserting) /\ Cardinality(Inserting) \in Nat
      BY FS_CardinalityType DEF IInv, FreshIds
    <3>3. IsFiniteSet(Inserting') /\ Cardinality(Inserting') = Cardinality(Inserting) + 1
      BY <3>1, <3>2, FS_AddElement
    <3>4. Fresh' = Fresh
      BY <1>2 DEF Fresh
    <3>5. Cardinality(Inserting) < Cardinality(Fresh) /\ Cardinality(Fresh) \in Nat
      BY <1>2, <2>2, OrderIdsFinite
    <3>. QED
      BY <3>2, <3>3, <3>4, <3>5 DEF FreshIds
  <2>. QED
    BY <2>1, <2>2
<1>7. /\ lock' \in [Products \cup OrderIds -> Workers \cup {NoOne}]
      /\ \A r \in Products \cup OrderIds : lock[r] \in Workers \ {w} => lock'[r] = lock[r]
  BY <1>2 DEF IInv, TypeOK
<1>8. \A p \in Products : /\ product[p].reserved + t.dr[p] <= product[p].quantity
                          /\ ~(t.dq[p] > 0) /\ ~(t.dq[p] # 0 \/ t.dr[p] # 0)
  BY <1>3, Rows
<1>. QED
  BY <1>2, <1>5, <1>6, <1>7, <1>8, FrameIInv

\* One item: its row is locked and changed, and the list gets shorter.
LEMMA ItemDone ==
  ASSUME IInv, NEW w \in Workers, tx[w].todo # <<>>, NEW dq \in Int, NEW dr \in Int,
         Grants(w, Head(tx[w].todo).product), ChangeRow(w, Head(tx[w].todo).product, dq, dr)
  PROVE  LET p == Head(tx[w].todo).product
             q == Head(tx[w].todo).quantity
         IN /\ p \in Products /\ q \in Nat
            /\ tx'[w] \in Tx /\ tx' = [tx EXCEPT ![w] = tx'[w]]
            /\ product' = product /\ orders' = orders
            /\ tx'[w].op = tx[w].op /\ tx'[w].at = tx[w].at
            /\ tx'[w].order = tx[w].order /\ tx'[w].items = tx[w].items
            /\ \A x \in Products :
                 /\ tx'[w].dq[x] = tx[w].dq[x] + (IF x = p THEN dq ELSE 0)
                 /\ tx'[w].dr[x] = tx[w].dr[x] + (IF x = p THEN dr ELSE 0)
                 /\ Units(tx[w].todo, x) = Units(tx'[w].todo, x) + (IF x = p THEN q ELSE 0)
                 /\ Units(tx'[w].todo, x) \in Nat
            /\ lock' \in [Products \cup OrderIds -> Workers \cup {NoOne}]
            /\ \A r \in Products \cup OrderIds : lock[r] \in Workers \ {w} => lock'[r] = lock[r]
            /\ \A x \in Products : tx'[w].dq[x] # 0 \/ tx'[w].dr[x] # 0 => lock'[x] = w
            /\ HoldsOrder(w) => HoldsOrder(w)'
            /\ FreshIds'
<1>. DEFINE p == Head(tx[w].todo).product
            q == Head(tx[w].todo).quantity
            Q == [tx[w].dq EXCEPT ![p] = @ + dq]
            D == [tx[w].dr EXCEPT ![p] = @ + dr]
            s == Tail(tx[w].todo)
            t == [tx[w] EXCEPT !.dq = Q, !.dr = D, !.todo = s]
<1>1. tx[w] \in Tx /\ tx[w].todo \in Seq(Item)
  BY Rows
<1>2. p \in Products /\ q \in Nat /\ s \in Seq(Item)
  BY <1>1, UnitsTail DEF Item
<1>3. tx[w].dq \in [Products -> Int] /\ tx[w].dr \in [Products -> Int]
  BY Rows
<1>4. /\ \A x \in Products \ {p} : Units(tx[w].todo, x) = Units(s, x) + 0
      /\ Units(tx[w].todo, p) = Units(s, p) + q
  BY <1>1, UnitsTail
<1>5. \A x \in Products : Units(s, x) \in Nat
  BY <1>2, UnitsFinite
<1>6. lock' = [lock EXCEPT ![p] = w] /\ tx' = [tx EXCEPT ![w] = t]
      /\ product' = product /\ orders' = orders
  BY DEF ChangeRow
<1>7. lock[p] \in {w, NoOne}
  BY DEF Grants
<1>. HIDE DEF p, q, s
<1>8. Q \in [Products -> Int] /\ Q[p] = tx[w].dq[p] + dq /\ \A x \in Products \ {p} : Q[x] = tx[w].dq[x]
  BY <1>2, <1>3, AddTo
<1>9. D \in [Products -> Int] /\ D[p] = tx[w].dr[p] + dr /\ \A x \in Products \ {p} : D[x] = tx[w].dr[x]
  BY <1>2, <1>3, AddTo
<1>. HIDE DEF Q, D
<1>10. /\ t \in Tx /\ t.op = tx[w].op /\ t.at = tx[w].at /\ t.todo = s /\ t.dq = Q /\ t.dr = D
       /\ t.order = tx[w].order /\ t.items = tx[w].items
  <2>. DEFINE r == tx[w]
  <2>1. r \in Tx /\ r = tx[w]
    BY <1>1
  <2>. HIDE DEF r
  <2>2. LET n == [r EXCEPT !.dq = Q, !.dr = D, !.todo = s]
        IN n \in Tx /\ n.op = r.op /\ n.at = r.at /\ n.todo = s /\ n.dq = Q /\ n.dr = D
           /\ n.order = r.order /\ n.items = r.items
    BY <1>2, <1>8, <1>9, <2>1 DEF Tx
  <2>. QED
    BY <2>1, <2>2
<1>. HIDE DEF t
<1>11. tx'[w] = t /\ \A v \in Workers \ {w} : tx'[v] = tx[v]
  BY <1>6 DEF IInv, TypeOK
<1>12. /\ lock' \in [Products \cup OrderIds -> Workers \cup {NoOne}] /\ lock'[p] = w
       /\ \A r \in Products \cup OrderIds : r # p => lock'[r] = lock[r]
  BY <1>2, <1>6 DEF IInv, TypeOK
<1>13. \A r \in Products \cup OrderIds : lock[r] \in Workers \ {w} => lock'[r] = lock[r]
  BY <1>7, <1>12, OrdersAssumption
<1>14. \A x \in Products : Q[x] # 0 \/ D[x] # 0 => lock'[x] = w
  BY <1>8, <1>9, <1>12 DEF IInv, TouchedIsLocked
<1>15. HoldsOrder(w) => HoldsOrder(w)'
  BY <1>6, <1>10, <1>11, <1>12 DEF HoldsOrder
<1>16. FreshIds'
  <2>1. Inserting' \subseteq Inserting
    BY <1>10, <1>11 DEF Inserting
  <2>. QED
    BY <1>6, <2>1, FewerInserts DEF IInv
<1>17. ASSUME NEW x \in Products
       PROVE /\ Q[x] = tx[w].dq[x] + (IF x = p THEN dq ELSE 0)
             /\ D[x] = tx[w].dr[x] + (IF x = p THEN dr ELSE 0)
             /\ Units(tx[w].todo, x) = Units(s, x) + (IF x = p THEN q ELSE 0)
  <2>1. tx[w].dq[x] \in Int /\ tx[w].dr[x] \in Int
    BY <1>3
  <2>2. CASE x = p
    BY <1>4, <1>8, <1>9, <2>2
  <2>3. CASE x # p
    BY <1>4, <1>8, <1>9, <2>1, <2>3
  <2>. QED
    BY <2>2, <2>3
<1>18. /\ tx'[w] \in Tx /\ tx' = [tx EXCEPT ![w] = tx'[w]]
       /\ tx'[w].op = tx[w].op /\ tx'[w].at = tx[w].at
       /\ tx'[w].order = tx[w].order /\ tx'[w].items = tx[w].items
  BY <1>6, <1>10, <1>11
<1>19. \A x \in Products :
         /\ tx'[w].dq[x] = tx[w].dq[x] + (IF x = p THEN dq ELSE 0)
         /\ tx'[w].dr[x] = tx[w].dr[x] + (IF x = p THEN dr ELSE 0)
         /\ Units(tx[w].todo, x) = Units(tx'[w].todo, x) + (IF x = p THEN q ELSE 0)
         /\ Units(tx'[w].todo, x) \in Nat
         /\ tx'[w].dq[x] # 0 \/ tx'[w].dr[x] # 0 => lock'[x] = w
  BY <1>5, <1>10, <1>11, <1>14, <1>17
<1>. QED
  BY <1>2, <1>6, <1>12, <1>13, <1>15, <1>16, <1>18, <1>19 DEF p, q

\* CreateOutboundOrder and ReserveToOutbound take stock for one item.
LEMMA ReserveItemIInv == ASSUME IInv, NEW w \in Workers, ReserveItem(w) PROVE IInv'
<1>. DEFINE p == Head(tx[w].todo).product
            q == Head(tx[w].todo).quantity
            back(x) == IF tx[w].op = "convert" THEN Units(orders[tx[w].order].items, x) ELSE 0
<1>1. tx[w].at = "reserve" /\ tx[w].todo # <<>> /\ Grants(w, p)
  BY DEF ReserveItem
<1>2. CASE Rollback(w)
  BY <1>2, RollbackIInv DEF Rollback
<1>3. CASE Available(w, p) >= q /\ ChangeRow(w, p, 0, q)
  <2>0. p \in Products /\ q \in Nat
    BY <1>1, Rows, UnitsTail DEF Item
  <2>1. p \in Products /\ q \in Nat /\ q \in Int /\ 0 \in Int
    BY <2>0
  <2>2. /\ tx'[w] \in Tx /\ tx' = [tx EXCEPT ![w] = tx'[w]]
        /\ product' = product /\ orders' = orders
        /\ tx'[w].op = tx[w].op /\ tx'[w].at = tx[w].at
        /\ tx'[w].order = tx[w].order /\ tx'[w].items = tx[w].items
        /\ lock' \in [Products \cup OrderIds -> Workers \cup {NoOne}]
        /\ \A r \in Products \cup OrderIds : lock[r] \in Workers \ {w} => lock'[r] = lock[r]
        /\ \A x \in Products : tx'[w].dq[x] # 0 \/ tx'[w].dr[x] # 0 => lock'[x] = w
        /\ HoldsOrder(w) => HoldsOrder(w)'
        /\ FreshIds'
    BY <1>1, <1>3, <2>1, ItemDone
  <2>3. \A x \in Products :
          /\ tx'[w].dq[x] = tx[w].dq[x] + 0
          /\ tx'[w].dr[x] = tx[w].dr[x] + (IF x = p THEN q ELSE 0)
          /\ Units(tx[w].todo, x) = Units(tx'[w].todo, x) + (IF x = p THEN q ELSE 0)
          /\ Units(tx'[w].todo, x) \in Nat
    <3>1. \A x \in Products :
            /\ tx'[w].dq[x] = tx[w].dq[x] + (IF x = p THEN 0 ELSE 0)
            /\ tx'[w].dr[x] = tx[w].dr[x] + (IF x = p THEN q ELSE 0)
            /\ Units(tx[w].todo, x) = Units(tx'[w].todo, x) + (IF x = p THEN q ELSE 0)
            /\ Units(tx'[w].todo, x) \in Nat
      BY <1>1, <1>3, <2>1, ItemDone, Zenon
    <3>. HIDE DEF p, q
    <3>. QED
      BY <3>1
  <2>4. /\ tx[w].op \in {"create", "convert"} /\ Claims(tx[w].items)
        /\ tx[w].op = "convert" => HoldsOrder(w)
        /\ \A x \in Products :
             /\ tx[w].dr[x] = (Units(tx[w].items, x) - Units(tx[w].todo, x)) - back(x)
             /\ tx[w].dq[x] = 0
    BY <1>1 DEF IInv, Progress, Reserving
  <2>5. \A x \in Products : back(x) \in Nat /\ Units(tx[w].items, x) \in Nat
    BY <2>4, Rows, UnitsFinite DEF HoldsOrder
  <2>6. \A x \in Products : product[x].reserved + tx[w].dr[x] <= product[x].quantity
    BY <1>1 DEF IInv, Covered
  <2>7. product[p].quantity + tx[w].dq[p] - (product[p].reserved + tx[w].dr[p]) >= q
    BY <1>3 DEF Available
  <2>. HIDE DEF p, q, back
  <2>8. ASSUME NEW x \in Products PROVE product[x].reserved + tx'[w].dr[x] <= product[x].quantity
    <3>1. product[x].quantity \in Int /\ product[x].reserved \in Int /\ tx[w].dr[x] \in Int
      BY Rows
    <3>2. tx'[w].dr[x] = tx[w].dr[x] + (IF x = p THEN q ELSE 0)
      BY <2>3
    <3>3. CASE x = p
      <4>1. product[x].quantity + 0 - (product[x].reserved + tx[w].dr[x]) >= q
        BY <2>4, <2>7, <3>3
      <4>. QED
        BY <2>1, <3>1, <3>2, <3>3, <4>1
    <3>4. CASE x # p
      <4>1. product[x].reserved + tx[w].dr[x] <= product[x].quantity
        BY <2>6
      <4>. QED
        BY <3>1, <3>2, <3>4, <4>1
    <3>. QED
      BY <3>3, <3>4
  <2>9. ASSUME NEW x \in Products
        PROVE /\ tx'[w].dr[x] = (Units(tx[w].items, x) - Units(tx'[w].todo, x)) - back(x)
              /\ tx'[w].dq[x] = 0
    <3>1. back(x) \in Nat /\ Units(tx[w].items, x) \in Nat /\ Units(tx'[w].todo, x) \in Nat
      BY <2>3, <2>5
    <3>2. /\ tx'[w].dq[x] = 0 + 0
          /\ tx'[w].dr[x] = tx[w].dr[x] + (IF x = p THEN q ELSE 0)
          /\ Units(tx[w].todo, x) = Units(tx'[w].todo, x) + (IF x = p THEN q ELSE 0)
          /\ tx[w].dr[x] = (Units(tx[w].items, x) - Units(tx[w].todo, x)) - back(x)
      BY <2>3, <2>4
    <3>. QED
      BY <2>1, <3>1, <3>2
  <2>10. Reserving(w)'
    BY <2>2, <2>4, <2>9 DEF Reserving, back
  <2>11. Progress(w)'
    BY <1>1, <2>2, <2>10 DEF Progress, Ordering, Importing, Settling
  <2>. QED
    BY <1>1, <2>2, <2>8, <2>11, FrameIInv
<1>. QED
  BY <1>2, <1>3 DEF ReserveItem

\* InboundSearchImport adds one item.
LEMMA ImportItemIInv == ASSUME IInv, NEW w \in Workers, ImportItem(w) PROVE IInv'
<1>. DEFINE p == Head(tx[w].todo).product
            q == Head(tx[w].todo).quantity
<1>1. tx[w].at = "import" /\ tx[w].todo # <<>> /\ Grants(w, p)
  BY DEF ImportItem
<1>2. CASE Rollback(w)
  BY <1>2, RollbackIInv DEF Rollback
<1>3. CASE product[p].quantity + tx[w].dq[p] + q <= MaxStock /\ ChangeRow(w, p, q, 0)
  <2>0. p \in Products /\ q \in Nat
    BY <1>1, Rows, UnitsTail DEF Item
  <2>1. p \in Products /\ q \in Nat /\ q \in Int /\ 0 \in Int
    BY <2>0
  <2>2. /\ tx'[w] \in Tx /\ tx' = [tx EXCEPT ![w] = tx'[w]]
        /\ product' = product /\ orders' = orders
        /\ tx'[w].op = tx[w].op /\ tx'[w].at = tx[w].at
        /\ lock' \in [Products \cup OrderIds -> Workers \cup {NoOne}]
        /\ \A r \in Products \cup OrderIds : lock[r] \in Workers \ {w} => lock'[r] = lock[r]
        /\ \A x \in Products : tx'[w].dq[x] # 0 \/ tx'[w].dr[x] # 0 => lock'[x] = w
        /\ FreshIds'
    BY <1>1, <1>3, <2>1, ItemDone
  <2>3. \A x \in Products :
          /\ tx'[w].dq[x] = tx[w].dq[x] + (IF x = p THEN q ELSE 0)
          /\ tx'[w].dr[x] = tx[w].dr[x] + 0
          /\ Units(tx[w].todo, x) = Units(tx'[w].todo, x) + (IF x = p THEN q ELSE 0)
          /\ Units(tx'[w].todo, x) \in Nat
    <3>1. \A x \in Products :
            /\ tx'[w].dq[x] = tx[w].dq[x] + (IF x = p THEN q ELSE 0)
            /\ tx'[w].dr[x] = tx[w].dr[x] + (IF x = p THEN 0 ELSE 0)
            /\ Units(tx[w].todo, x) = Units(tx'[w].todo, x) + (IF x = p THEN q ELSE 0)
            /\ Units(tx'[w].todo, x) \in Nat
      BY <1>1, <1>3, <2>1, ItemDone, Zenon
    <3>. HIDE DEF p, q
    <3>. QED
      BY <3>1
  <2>4. /\ tx[w].op = "import"
        /\ \A x \in Products : /\ tx[w].dr[x] = 0 /\ tx[w].dq[x] >= 0
                               /\ tx[w].dq[x] + Units(tx[w].todo, x) <= MaxUnits
    BY <1>1 DEF IInv, Progress, Importing
  <2>5. \A x \in Products : tx[w].dq[x] > 0 => product[x].quantity + tx[w].dq[x] <= MaxStock
    BY <1>1 DEF IInv, Covered
  <2>. HIDE DEF p, q
  <2>6. ASSUME NEW x \in Products, tx'[w].dq[x] > 0
        PROVE product[x].quantity + tx'[w].dq[x] <= MaxStock
    <3>1. product[x].quantity \in Int /\ tx[w].dq[x] \in Int /\ MaxStock \in Int
      BY Rows, OrdersAssumption
    <3>2. tx'[w].dq[x] = tx[w].dq[x] + (IF x = p THEN q ELSE 0)
      BY <2>3
    <3>3. CASE x = p
      BY <1>3, <2>1, <3>1, <3>2, <3>3
    <3>4. CASE x # p
      <4>1. tx'[w].dq[x] = tx[w].dq[x]
        BY <3>1, <3>2, <3>4
      <4>. QED
        BY <2>5, <2>6, <4>1
    <3>. QED
      BY <3>3, <3>4
  <2>7. ASSUME NEW x \in Products
        PROVE /\ tx'[w].dr[x] = 0 /\ tx'[w].dq[x] >= 0
              /\ tx'[w].dq[x] + Units(tx'[w].todo, x) <= MaxUnits
    <3>1. tx[w].dq[x] \in Int /\ MaxUnits \in Int /\ Units(tx'[w].todo, x) \in Nat
      BY <2>3, Rows, OrdersAssumption
    <3>2. /\ tx'[w].dq[x] = tx[w].dq[x] + (IF x = p THEN q ELSE 0)
          /\ tx'[w].dr[x] = 0 + 0
          /\ Units(tx[w].todo, x) = Units(tx'[w].todo, x) + (IF x = p THEN q ELSE 0)
          /\ tx[w].dq[x] >= 0 /\ tx[w].dq[x] + Units(tx[w].todo, x) <= MaxUnits
      BY <2>3, <2>4
    <3>. QED
      BY <2>1, <3>1, <3>2
  <2>8. Importing(w)'
    BY <2>2, <2>4, <2>7 DEF Importing
  <2>9. Progress(w)'
    BY <1>1, <2>2, <2>8 DEF Progress, Ordering, Settling, Reserving
  <2>. QED
    BY <1>1, <2>2, <2>6, <2>9, FrameIInv
<1>. QED
  BY <1>2, <1>3 DEF ImportItem

\* UpdateProductReservedTx gives one item of the locked order back.
LEMMA SettleItemIInv == ASSUME IInv, NEW w \in Workers, SettleItem(w) PROVE IInv'
<1>. DEFINE p == Head(tx[w].todo).product
            q == Head(tx[w].todo).quantity
            c == IF tx[w].op = "confirm" THEN 0 - q ELSE 0
            all(x) == Units(orders[tx[w].order].items, x)
<1>1. tx[w].at = "settle" /\ tx[w].todo # <<>> /\ Grants(w, p)
  BY DEF SettleItem
<1>2. p \in Products /\ q \in Nat
  BY <1>1, Rows, UnitsTail DEF Item
<1>3. ChangeRow(w, p, c, 0 - q)
  <2>1. product[p].here
    BY <1>2, Rows
  <2>. QED
    BY <2>1 DEF SettleItem
<1>4. c \in Int /\ 0 - q \in Int
  BY <1>2
<1>5. /\ tx'[w] \in Tx /\ tx' = [tx EXCEPT ![w] = tx'[w]]
      /\ product' = product /\ orders' = orders
      /\ tx'[w].op = tx[w].op /\ tx'[w].at = tx[w].at
      /\ tx'[w].order = tx[w].order /\ tx'[w].items = tx[w].items
      /\ lock' \in [Products \cup OrderIds -> Workers \cup {NoOne}]
      /\ \A r \in Products \cup OrderIds : lock[r] \in Workers \ {w} => lock'[r] = lock[r]
      /\ \A x \in Products : tx'[w].dq[x] # 0 \/ tx'[w].dr[x] # 0 => lock'[x] = w
      /\ HoldsOrder(w) => HoldsOrder(w)'
      /\ FreshIds'
  BY <1>1, <1>3, <1>4, ItemDone
<1>6. \A x \in Products :
        /\ tx'[w].dq[x] = tx[w].dq[x] + (IF x = p THEN c ELSE 0)
        /\ tx'[w].dr[x] = tx[w].dr[x] + (IF x = p THEN 0 - q ELSE 0)
        /\ Units(tx[w].todo, x) = Units(tx'[w].todo, x) + (IF x = p THEN q ELSE 0)
        /\ Units(tx'[w].todo, x) \in Nat
  BY <1>1, <1>3, <1>4, ItemDone
<1>7. /\ tx[w].op \in OrderOps /\ HoldsOrder(w) /\ Claims(tx[w].items)
      /\ \A x \in Products :
           /\ tx[w].dr[x] = 0 - (all(x) - Units(tx[w].todo, x))
           /\ tx[w].dq[x] = IF tx[w].op = "confirm" THEN 0 - (all(x) - Units(tx[w].todo, x)) ELSE 0
  BY <1>1 DEF IInv, Progress, Settling
<1>8. \A x \in Products : all(x) \in Nat
  BY <1>7, Rows, UnitsFinite DEF HoldsOrder
<1>9. c = IF tx[w].op = "confirm" THEN 0 - q ELSE 0
  OBVIOUS
<1>. HIDE DEF p, q, c, all
<1>10. ASSUME NEW x \in Products
       PROVE /\ tx'[w].dr[x] = 0 - (all(x) - Units(tx'[w].todo, x))
             /\ tx'[w].dq[x] = IF tx[w].op = "confirm" THEN 0 - (all(x) - Units(tx'[w].todo, x)) ELSE 0
  <2>1. all(x) \in Nat /\ Units(tx'[w].todo, x) \in Nat
    BY <1>6, <1>8
  <2>2. /\ tx'[w].dq[x] = tx[w].dq[x] + (IF x = p THEN c ELSE 0)
        /\ tx'[w].dr[x] = tx[w].dr[x] + (IF x = p THEN 0 - q ELSE 0)
        /\ Units(tx[w].todo, x) = Units(tx'[w].todo, x) + (IF x = p THEN q ELSE 0)
        /\ tx[w].dr[x] = 0 - (all(x) - Units(tx[w].todo, x))
        /\ tx[w].dq[x] = IF tx[w].op = "confirm" THEN 0 - (all(x) - Units(tx[w].todo, x)) ELSE 0
    BY <1>6, <1>7
  <2>. QED
    BY <1>2, <1>9, <2>1, <2>2
<1>11. Settling(w)'
  BY <1>5, <1>7, <1>10 DEF Settling, all
<1>12. Progress(w)'
  BY <1>1, <1>5, <1>11 DEF Progress, Ordering, Importing, Reserving
<1>. QED
  BY <1>1, <1>5, <1>12, FrameIInv

\* The next part of a transaction: nothing is changed yet, and no lock is lost.
LEMMA MoveIInv ==
  ASSUME IInv, NEW w \in Workers, NEW s \in Seq(Item), NEW a \in {"reserve", "settle"},
         tx' = [tx EXCEPT ![w] = [@ EXCEPT !.at = a, !.todo = s]],
         product' = product, orders' = orders,
         lock' \in [Products \cup OrderIds -> Workers \cup {NoOne}],
         \A r \in Products \cup OrderIds : lock[r] \in Workers => lock'[r] = lock[r],
         HoldsOrder(w)', tx[w].op \in OrderOps, Claims(tx[w].items),
         a = "settle" => /\ s = orders[tx[w].order].items
                         /\ \A p \in Products : tx[w].dq[p] = 0 /\ tx[w].dr[p] = 0,
         a = "reserve" => /\ tx[w].op = "convert" /\ s = tx[w].items
                          /\ \A p \in Products :
                               /\ tx[w].dr[p] = 0 - Units(orders[tx[w].order].items, p)
                               /\ tx[w].dq[p] = 0
  PROVE  IInv'
<1>. DEFINE r == tx[w]
            t == [r EXCEPT !.at = a, !.todo = s]
<1>1. tx[w] \in Tx /\ tx' = [tx EXCEPT ![w] = t]
  BY Rows
<1>2. r \in Tx /\ r = tx[w]
  BY Rows
<1>. HIDE DEF r
<1>3. /\ t \in Tx /\ t.op = r.op /\ t.at = a /\ t.todo = s /\ t.dq = r.dq /\ t.dr = r.dr
      /\ t.order = r.order /\ t.items = r.items
  BY <1>2 DEF Tx
<1>. HIDE DEF t
<1>4. tx'[w] = t /\ \A v \in Workers \ {w} : tx'[v] = tx[v]
  BY <1>1 DEF IInv, TypeOK
<1>5. r.order \in OrderIds
  BY <1>3, <1>4 DEF HoldsOrder
<1>6. orders[r.order].items \in Seq(Item)
  BY <1>5, Rows
<1>7. \A p \in Products : Units(orders[r.order].items, p) \in Nat /\ Units(s, p) \in Nat
  BY <1>6, UnitsFinite
<1>8. \A p \in Products : t.dq[p] # 0 \/ t.dr[p] # 0 => lock'[p] = w
  BY <1>2, <1>3 DEF IInv, TouchedIsLocked
<1>9. ASSUME a = "reserve", NEW p \in Products PROVE product[p].reserved + t.dr[p] <= product[p].quantity
  <2>1. t.dr[p] = 0 - Units(orders[r.order].items, p)
    BY <1>2, <1>3, <1>9
  <2>2. product[p].reserved \in Int /\ product[p].quantity \in Int /\ product[p].reserved <= product[p].quantity
    BY Rows
  <2>3. Units(orders[r.order].items, p) \in Nat
    BY <1>7
  <2>. QED
    BY <2>1, <2>2, <2>3
<1>10. ASSUME a = "settle" PROVE Settling(w)'
  <2>1. s = orders[r.order].items /\ \A p \in Products : t.dq[p] = 0 /\ t.dr[p] = 0
    BY <1>2, <1>3, <1>10
  <2>2. \A p \in Products : 0 - (Units(orders[r.order].items, p) - Units(s, p)) = 0
    BY <1>7, <2>1
  <2>. QED
    BY <1>2, <1>3, <1>4, <2>1, <2>2 DEF Settling
<1>11. ASSUME a = "reserve" PROVE Reserving(w)'
  <2>1. /\ r.op = "convert" /\ s = r.items
        /\ \A p \in Products : t.dr[p] = 0 - Units(orders[r.order].items, p) /\ t.dq[p] = 0
    BY <1>2, <1>3, <1>11
  <2>2. ASSUME NEW p \in Products
        PROVE t.dr[p] = (Units(s, p) - Units(s, p)) - Units(orders[r.order].items, p)
    <3>1. Units(orders[r.order].items, p) \in Nat /\ Units(s, p) \in Nat
      BY <1>7
    <3>. QED
      BY <2>1, <3>1
  <2>. QED
    BY <1>2, <1>3, <1>4, <2>1, <2>2 DEF Reserving
<1>12. Progress(w)'
  BY <1>3, <1>4, <1>10, <1>11 DEF Progress, Ordering, Importing, Settling, Reserving
<1>13. FreshIds'
  <2>1. Inserting' \subseteq Inserting
    BY <1>2, <1>3, <1>4 DEF Inserting
  <2>. QED
    BY <2>1, FewerInserts DEF IInv
<1>. QED
  BY <1>1, <1>3, <1>8, <1>9, <1>12, <1>13, FrameIInv, ZenonT(60)

\* GetOutboundOrderForUpdateTx locks the order.
LEMMA LockOrderIInv == ASSUME IInv, NEW w \in Workers, LockOrder(w) PROVE IInv'
<1>. DEFINE o == tx[w].order
<1>1. tx[w].at = "order" /\ Grants(w, o)
  BY DEF LockOrder
<1>2. CASE Rollback(w)
  BY <1>2, RollbackIInv DEF Rollback
<1>3. CASE /\ Accepts(w) /\ lock' = [lock EXCEPT ![o] = w]
           /\ tx' = [tx EXCEPT ![w] = [@ EXCEPT !.at = "settle", !.todo = orders[o].items]]
           /\ UNCHANGED <<product, orders, raced>>
  <2>1. /\ tx[w].op \in OrderOps /\ o \in OrderIds /\ Claims(tx[w].items)
        /\ \A p \in Products : tx[w].dq[p] = 0 /\ tx[w].dr[p] = 0
    BY <1>1 DEF IInv, Progress, Ordering
  <2>2. /\ lock' \in [Products \cup OrderIds -> Workers \cup {NoOne}] /\ lock'[o] = w
        /\ \A r \in Products \cup OrderIds : lock[r] \in Workers => lock'[r] = lock[r]
    BY <1>1, <1>3, <2>1, OrdersAssumption DEF IInv, TypeOK, Grants
  <2>3. orders[o].items \in Seq(Item)
    BY <2>1, Rows
  <2>4. tx'[w].op = tx[w].op /\ tx'[w].order = o
    <3>1. tx'[w] = [tx[w] EXCEPT !.at = "settle", !.todo = orders[o].items]
      BY <1>3 DEF IInv, TypeOK
    <3>2. tx[w] \in Tx
      BY Rows
    <3>. QED
      BY <3>1, <3>2 DEF Tx
  <2>5. HoldsOrder(w)'
    BY <1>3, <2>1, <2>2, <2>4 DEF HoldsOrder, Accepts
  <2>. QED
    BY <1>3, <2>1, <2>2, <2>3, <2>5, MoveIInv
<1>. QED
  BY <1>2, <1>3 DEF LockOrder

\* ReserveToOutbound turns to the items of the new order.
LEMMA StartNewOrderIInv == ASSUME IInv, NEW w \in Workers, StartNewOrder(w) PROVE IInv'
<1>1. /\ tx[w].at = "settle" /\ tx[w].todo = <<>> /\ tx[w].op = "convert"
      /\ tx' = [tx EXCEPT ![w] = [@ EXCEPT !.at = "reserve", !.todo = tx[w].items]]
      /\ product' = product /\ orders' = orders /\ lock' = lock
  BY DEF StartNewOrder
<1>2. /\ tx[w].op \in OrderOps /\ HoldsOrder(w) /\ Claims(tx[w].items)
      /\ \A p \in Products :
           /\ tx[w].dr[p] = 0 - (Units(orders[tx[w].order].items, p) - Units(tx[w].todo, p))
           /\ tx[w].dq[p] = 0
  BY <1>1 DEF IInv, Progress, Settling
<1>3. ASSUME NEW p \in Products PROVE tx[w].dr[p] = 0 - Units(orders[tx[w].order].items, p)
  <2>1. Units(tx[w].todo, p) = 0
    BY <1>1, UnitsEmpty
  <2>2. Units(orders[tx[w].order].items, p) \in Nat
    BY <1>2, Rows, UnitsFinite DEF HoldsOrder
  <2>. QED
    BY <1>2, <2>1, <2>2
<1>4. tx'[w].op = tx[w].op /\ tx'[w].order = tx[w].order
  <2>1. tx'[w] = [tx[w] EXCEPT !.at = "reserve", !.todo = tx[w].items]
    BY <1>1 DEF IInv, TypeOK
  <2>2. tx[w] \in Tx
    BY Rows
  <2>. QED
    BY <2>1, <2>2 DEF Tx
<1>5. HoldsOrder(w)'
  BY <1>1, <1>2, <1>4 DEF HoldsOrder
<1>6. lock' \in [Products \cup OrderIds -> Workers \cup {NoOne}]
  BY <1>1 DEF IInv, TypeOK
<1>7. tx[w].items \in Seq(Item)
  BY Rows
<1>. QED
  BY <1>1, <1>2, <1>3, <1>5, <1>6, <1>7, MoveIInv

-----------------------------------------------------------------------------
(* The commit. *)

\* What a finished transaction has changed.
LEMMA FinishedTx ==
  ASSUME IInv, NEW w \in Workers, Finished(w)
  PROVE  \/ /\ tx[w].op = "import"
            /\ \A p \in Products :
                 /\ tx[w].dr[p] = 0 /\ tx[w].dq[p] \in 0 .. MaxUnits
                 /\ tx[w].dq[p] > 0 => product[p].quantity + tx[w].dq[p] <= MaxStock
         \/ /\ tx[w].op \in {"confirm", "cancel", "cancelReserve"} /\ HoldsOrder(w)
            /\ \A p \in Products :
                 /\ tx[w].dr[p] = 0 - Units(orders[tx[w].order].items, p)
                 /\ tx[w].dq[p] = IF tx[w].op = "confirm" THEN 0 - Units(orders[tx[w].order].items, p) ELSE 0
         \/ /\ tx[w].op = "create" /\ Claims(tx[w].items)
            /\ \A p \in Products :
                 /\ tx[w].dr[p] = Units(tx[w].items, p) /\ tx[w].dq[p] = 0
                 /\ product[p].reserved + tx[w].dr[p] <= product[p].quantity
         \/ /\ tx[w].op = "convert" /\ Claims(tx[w].items) /\ HoldsOrder(w)
            /\ \A p \in Products :
                 /\ tx[w].dr[p] = Units(tx[w].items, p) - Units(orders[tx[w].order].items, p)
                 /\ tx[w].dq[p] = 0
                 /\ product[p].reserved + tx[w].dr[p] <= product[p].quantity
<1>1. tx[w].todo = <<>> /\ \A p \in Products : Units(tx[w].todo, p) = 0
  BY UnitsEmpty DEF Finished
<1>2. \A p \in Products : /\ tx[w].dq[p] \in Int /\ tx[w].dr[p] \in Int
                          /\ Units(tx[w].items, p) \in Nat
  BY Rows, UnitsFinite
<1>3. CASE tx[w].at = "import"
  <2>1. /\ tx[w].op = "import"
        /\ \A p \in Products : /\ tx[w].dr[p] = 0 /\ tx[w].dq[p] >= 0
                               /\ tx[w].dq[p] + Units(tx[w].todo, p) <= MaxUnits
    BY <1>3 DEF IInv, Progress, Importing
  <2>2. \A p \in Products : tx[w].dq[p] > 0 => product[p].quantity + tx[w].dq[p] <= MaxStock
    BY <1>3 DEF IInv, Covered
  <2>3. \A p \in Products : tx[w].dq[p] \in 0 .. MaxUnits
    BY <1>1, <1>2, <2>1, OrdersAssumption
  <2>. QED
    BY <2>1, <2>2, <2>3
<1>4. CASE tx[w].at = "settle"
  <2>1. /\ tx[w].op \in OrderOps /\ HoldsOrder(w)
        /\ \A p \in Products :
             /\ tx[w].dr[p] = 0 - (Units(orders[tx[w].order].items, p) - Units(tx[w].todo, p))
             /\ tx[w].dq[p] = IF tx[w].op = "confirm"
                              THEN 0 - (Units(orders[tx[w].order].items, p) - Units(tx[w].todo, p)) ELSE 0
    BY <1>4 DEF IInv, Progress, Settling
  <2>2. \A p \in Products : Units(orders[tx[w].order].items, p) \in Nat
    BY <2>1, Rows, UnitsFinite DEF HoldsOrder
  <2>3. tx[w].op \in {"confirm", "cancel", "cancelReserve"}
    BY <1>4, <2>1 DEF Finished, OrderOps
  <2>. QED
    BY <1>1, <2>1, <2>2, <2>3
<1>5. CASE tx[w].at = "reserve"
  <2>. DEFINE back(p) == IF tx[w].op = "convert" THEN Units(orders[tx[w].order].items, p) ELSE 0
  <2>1. /\ tx[w].op \in {"create", "convert"} /\ Claims(tx[w].items)
        /\ tx[w].op = "convert" => HoldsOrder(w)
        /\ \A p \in Products :
             /\ tx[w].dr[p] = (Units(tx[w].items, p) - Units(tx[w].todo, p)) - back(p)
             /\ tx[w].dq[p] = 0
    BY <1>5 DEF IInv, Progress, Reserving
  <2>2. \A p \in Products : product[p].reserved + tx[w].dr[p] <= product[p].quantity
    BY <1>5 DEF IInv, Covered
  <2>3. \A p \in Products : tx[w].op = "convert" => Units(orders[tx[w].order].items, p) \in Nat
    BY <2>1, Rows, UnitsFinite DEF HoldsOrder
  <2>. QED
    BY <1>1, <1>2, <2>1, <2>2, <2>3
<1>. QED
  BY <1>3, <1>4, <1>5 DEF Finished

\* An id is left for the order that a transaction inserts.
LEMMA FreshLeft ==
  ASSUME FreshIds, NEW w \in Workers, tx[w].op \in {"create", "convert"}
  PROVE  NextId \in OrderIds /\ NextId \in Fresh /\ orders[NextId].status = "none"
<1>1. w \in Inserting
  BY DEF Inserting
<1>2. IsFiniteSet(Inserting) /\ Cardinality(Inserting) \in Nat /\ Cardinality(Inserting) # 0
  BY <1>1, FS_CardinalityType, FS_EmptySet DEF FreshIds
<1>3. Cardinality(Fresh) # 0
  BY <1>2, OrderIdsFinite DEF FreshIds
<1>4. Fresh # {}
  BY <1>3, FS_EmptySet
<1>5. NextId \in Fresh
  BY <1>4 DEF NextId
<1>. QED
  BY <1>5 DEF Fresh

\* A commit that keeps the orders the other transactions hold keeps the invariant.
LEMMA CommitFrame ==
  ASSUME IInv, NEW w \in Workers, Commit(w), orders' \in [OrderIds -> OrderRow],
         \A o \in OrderIds : Claims(orders'[o].items),
         \A o \in OrderIds : orders[o].status \in OpenStatus /\ lock[o] # w => orders'[o] = orders[o],
         \A p \in Products : product'[p].reserved <= product'[p].quantity,
         FreshIds'
  PROVE  IInv'
<1>1. /\ product' \in [Products -> [here : {TRUE}, quantity : Int, reserved : Int]]
      /\ \A p \in Products : /\ product'[p].quantity = product[p].quantity + tx[w].dq[p]
                             /\ product'[p].reserved = product[p].reserved + tx[w].dr[p]
  <2>1. product' = [p \in Products |->
                     [here |-> product[p].here, quantity |-> product[p].quantity + tx[w].dq[p],
                      reserved |-> product[p].reserved + tx[w].dr[p]]]
    BY DEF Commit
  <2>2. ASSUME NEW p \in Products
        PROVE /\ product[p].here \in {TRUE} /\ product[p].quantity + tx[w].dq[p] \in Int
              /\ product[p].reserved + tx[w].dr[p] \in Int
    <3>1. product[p].here \in {TRUE}
      BY DEF IInv, TypeOK
    <3>2. /\ product[p].quantity \in Int /\ product[p].reserved \in Int
          /\ tx[w].dq[p] \in Int /\ tx[w].dr[p] \in Int
      BY Rows
    <3>3. product[p].quantity + tx[w].dq[p] \in Int /\ product[p].reserved + tx[w].dr[p] \in Int
      BY <3>2
    <3>. QED
      BY <3>1, <3>3, Zenon
  <2>. QED
    BY <2>1, <2>2
<1>2. tx' = [tx EXCEPT ![w] = Idle]
  <2>. DEFINE txs == [tx EXCEPT ![w] = Idle]
  <2>1. txs \in [Workers -> Tx]
    BY IdleTx DEF IInv, TypeOK
  <2>2. \A v \in Workers : txs[v].at # "write"
    BY <2>1 DEF Tx
  <2>3. tx' = MarkLate(txs, {p \in Products : tx[w].dr[p] # 0})
    BY DEF Commit
  <2>. HIDE DEF txs
  <2>4. \A rows : MarkLate(txs, rows) = txs
    BY <2>1, <2>2 DEF MarkLate
  <2>. QED
    BY <2>3, <2>4 DEF txs
<1>3. tx'[w] = Idle /\ \A v \in Workers \ {w} : tx'[v] = tx[v]
  BY <1>2 DEF IInv, TypeOK
<1>4. lock' = Release(w)
  BY DEF Commit
<1>5. TypeOK'
  <2>1. tx' \in [Workers -> Tx]
    BY <1>2, IdleTx DEF IInv, TypeOK
  <2>. QED
    BY <1>1, <1>4, <2>1, ReleaseLocks DEF TypeOK
<1>6. TouchedIsLocked'
  <2>1. ASSUME NEW v \in Workers, NEW p \in Products, tx'[v].dq[p] # 0 \/ tx'[v].dr[p] # 0
        PROVE lock'[p] = v
    <3>1. v # w /\ tx'[v] = tx[v]
      BY <1>3, <2>1, IdleTx
    <3>2. lock[p] = v
      BY <2>1, <3>1 DEF IInv, TouchedIsLocked
    <3>. QED
      BY <1>4, <3>1, <3>2, ReleaseLocks
  <2>. QED
    BY <2>1 DEF TouchedIsLocked
<1>7. ASSUME NEW v \in Workers \ {w}, NEW p \in Products, tx[v].dq[p] # 0 \/ tx[v].dr[p] # 0
      PROVE /\ product'[p].quantity = product[p].quantity
            /\ product'[p].reserved = product[p].reserved
  <2>1. lock[p] = v
    BY <1>7 DEF IInv, TouchedIsLocked
  <2>2. tx[w].dq[p] = 0 /\ tx[w].dr[p] = 0
    BY <2>1 DEF IInv, TouchedIsLocked
  <2>3. product[p].quantity \in Int /\ product[p].reserved \in Int
    BY Rows
  <2>. QED
    BY <1>1, <2>2, <2>3
<1>8. Covered'
  <2>1. ASSUME NEW v \in Workers, tx'[v].at = "reserve", NEW p \in Products
        PROVE product'[p].reserved + tx'[v].dr[p] <= product'[p].quantity
    <3>1. v # w /\ tx'[v] = tx[v]
      BY <1>3, <2>1, IdleTx
    <3>2. CASE tx[v].dr[p] # 0
      <4>1. product[p].reserved + tx[v].dr[p] <= product[p].quantity
        BY <2>1, <3>1 DEF IInv, Covered
      <4>. QED
        BY <1>7, <3>1, <3>2, <4>1
    <3>3. CASE tx[v].dr[p] = 0
      <4>1. product'[p].reserved \in Int
        BY <1>1
      <4>2. product'[p].reserved <= product'[p].quantity
        OBVIOUS
      <4>. QED
        BY <3>1, <3>3, <4>1, <4>2
    <3>. QED
      BY <3>2, <3>3
  <2>2. ASSUME NEW v \in Workers, tx'[v].at = "import", NEW p \in Products, tx'[v].dq[p] > 0
        PROVE product'[p].quantity + tx'[v].dq[p] <= MaxStock
    <3>1. v # w /\ tx'[v] = tx[v]
      BY <1>3, <2>2, IdleTx
    <3>2. tx[v].dq[p] # 0
      BY <2>2, <3>1
    <3>3. product[p].quantity + tx[v].dq[p] <= MaxStock
      BY <2>2, <3>1 DEF IInv, Covered
    <3>. QED
      BY <1>7, <3>1, <3>2, <3>3
  <2>. QED
    BY <2>1, <2>2 DEF Covered
<1>9. ASSUME NEW v \in Workers PROVE Progress(v)'
  <2>1. CASE v = w
    BY <1>3, <2>1, IdleTx DEF Progress, Ordering, Importing, Settling, Reserving
  <2>2. CASE v # w
    <3>1. Progress(v) /\ tx'[v] = tx[v]
      BY <1>3, <2>2 DEF IInv
    <3>2. ASSUME HoldsOrder(v) PROVE HoldsOrder(v)' /\ orders'[tx[v].order] = orders[tx[v].order]
      <4>1. tx[v].order \in OrderIds /\ lock[tx[v].order] = v
            /\ orders[tx[v].order].status \in OpenStatus
        BY <3>2 DEF HoldsOrder
      <4>2. orders'[tx[v].order] = orders[tx[v].order]
        BY <2>2, <4>1
      <4>3. lock'[tx[v].order] = v
        BY <1>4, <2>2, <4>1, ReleaseLocks
      <4>. QED
        BY <3>1, <3>2, <4>2, <4>3 DEF HoldsOrder
    <3>3. Ordering(v)' /\ Importing(v)'
      BY <3>1 DEF Progress, Ordering, Importing
    <3>4. Settling(v)'
      BY <3>1, <3>2 DEF Progress, Settling
    <3>5. Reserving(v)'
      BY <3>1, <3>2 DEF Progress, Reserving
    <3>. QED
      BY <3>1, <3>3, <3>4, <3>5 DEF Progress
  <2>. QED
    BY <2>1, <2>2
<1>. QED
  BY <1>5, <1>6, <1>8, <1>9 DEF IInv

\* The orders table after the commit, by operation.
LEMMA CommitOrders ==
  ASSUME NEW w \in Workers, Commit(w)
  PROVE  LET o == tx[w].order
         IN /\ tx[w].op = "import" => orders' = orders
            /\ tx[w].op = "confirm" => orders' = [orders EXCEPT ![o] = Closed(o, "confirmed")]
            /\ tx[w].op \in {"cancel", "cancelReserve"} =>
                 orders' = [orders EXCEPT ![o] = Closed(o, "cancelled")]
            /\ tx[w].op = "create" => orders' = [orders EXCEPT ![NextId] = NewOrder(w)]
            /\ tx[w].op = "convert" =>
                 orders' = [orders EXCEPT ![o] = Closed(o, "confirmed"), ![NextId] = NewOrder(w)]
BY DEF Commit, Written

\* A closed order is the order it was but for its status; a new one is the request's.
LEMMA RowsWritten ==
  ASSUME NEW w \in Workers, orders \in [OrderIds -> OrderRow], tx[w].items \in Seq(Item),
         tx[w].kind \in {"outbound", "reserve"} \X OpenStatus
  PROVE  /\ \A o \in OrderIds : \A st \in {"confirmed", "cancelled"} :
              /\ Closed(o, st) \in OrderRow /\ Closed(o, st).type = orders[o].type
              /\ Closed(o, st).status = st /\ Closed(o, st).items = orders[o].items
         /\ NewOrder(w) \in OrderRow /\ NewOrder(w).items = tx[w].items
         /\ NewOrder(w).status \in OpenStatus
         /\ tx[w].op = "convert" => NewOrder(w).type = "outbound" /\ NewOrder(w).status = "pending"
<1>1. ASSUME NEW o \in OrderIds, NEW st \in {"confirmed", "cancelled"}
      PROVE /\ Closed(o, st) \in OrderRow /\ Closed(o, st).type = orders[o].type
            /\ Closed(o, st).status = st /\ Closed(o, st).items = orders[o].items
  <2>1. orders[o] \in OrderRow
    OBVIOUS
  <2>. QED
    BY <2>1 DEF Closed, OrderRow
<1>2. /\ tx[w].items \in Seq(Item) /\ tx[w].kind[1] \in {"outbound", "reserve"}
      /\ tx[w].kind[2] \in OpenStatus
  OBVIOUS
<1>3. /\ NewOrder(w) \in OrderRow /\ NewOrder(w).items = tx[w].items
      /\ NewOrder(w).status \in OpenStatus
      /\ tx[w].op = "convert" => NewOrder(w).type = "outbound" /\ NewOrder(w).status = "pending"
  BY <1>2 DEF NewOrder, OrderRow, OpenStatus
<1>. QED
  BY <1>1, <1>3

\* After a commit the tables still cover what is reserved.
LEMMA CommitCovered ==
  ASSUME IInv, NEW w \in Workers, Commit(w), NEW p \in Products
  PROVE  /\ product'[p].quantity = product[p].quantity + tx[w].dq[p]
         /\ product'[p].reserved = product[p].reserved + tx[w].dr[p]
         /\ product'[p].reserved <= product'[p].quantity
<1>1. /\ product[p].quantity \in Int /\ product[p].reserved \in Int
      /\ product[p].reserved <= product[p].quantity
      /\ tx[w].dq[p] \in Int /\ tx[w].dr[p] \in Int
  BY Rows
<1>2. /\ product'[p].quantity = product[p].quantity + tx[w].dq[p]
      /\ product'[p].reserved = product[p].reserved + tx[w].dr[p]
  BY DEF Commit
<1>3. \/ tx[w].dr[p] = 0 /\ tx[w].dq[p] >= 0
      \/ HoldsOrder(w) /\ tx[w].dr[p] = 0 - Units(orders[tx[w].order].items, p) /\ tx[w].dq[p] = tx[w].dr[p]
      \/ HoldsOrder(w) /\ tx[w].dr[p] = 0 - Units(orders[tx[w].order].items, p) /\ tx[w].dq[p] = 0
      \/ tx[w].dq[p] = 0 /\ product[p].reserved + tx[w].dr[p] <= product[p].quantity
  BY FinishedTx DEF Commit
<1>4. HoldsOrder(w) => Units(orders[tx[w].order].items, p) \in Nat
  BY Rows, UnitsFinite DEF HoldsOrder
<1>5. product[p].reserved + tx[w].dr[p] <= product[p].quantity + tx[w].dq[p]
  BY <1>1, <1>3, <1>4
<1>. QED
  BY <1>2, <1>5

\* The commit of every operation.
LEMMA CommitIInv == ASSUME IInv, NEW w \in Workers, Commit(w) PROVE IInv'
<1>. DEFINE o == tx[w].order
<1>1. Finished(w) /\ orders \in [OrderIds -> OrderRow] /\ \A x \in OrderIds : Claims(orders[x].items)
  BY DEF Commit, IInv, TypeOK
<1>2. \A v \in Workers \ {w} : tx'[v].op = tx[v].op
  <2>1. ASSUME NEW v \in Workers \ {w} PROVE tx'[v].op = tx[v].op
    <3>1. tx[v] \in Tx
      BY Rows
    <3>2. [tx EXCEPT ![w] = Idle][v] = tx[v]
      BY DEF IInv, TypeOK
    <3>3. tx[v].at # "write"
      BY <3>1 DEF Tx
    <3>. QED
      BY <3>2, <3>3 DEF Commit, MarkLate
  <2>. QED
    BY <2>1
<1>3. tx'[w].op = "none"
  <2>1. [tx EXCEPT ![w] = Idle][w] = Idle
    BY DEF IInv, TypeOK
  <2>. QED
    BY <2>1, IdleTx DEF Commit, MarkLate
<1>4. Inserting' = Inserting \ {w}
  BY <1>2, <1>3 DEF Inserting
<1>5. IsFiniteSet(Inserting) /\ Cardinality(Inserting) \in Nat /\ Cardinality(Inserting) <= Cardinality(Fresh)
  BY FS_CardinalityType DEF IInv, FreshIds
<1>6. ASSUME Fresh' = Fresh PROVE FreshIds'
  <2>1. IsFiniteSet(Inserting') /\ Cardinality(Inserting') <= Cardinality(Inserting)
    BY <1>4, <1>5, FS_Subset
  <2>2. Cardinality(Inserting') \in Nat /\ Cardinality(Fresh) \in Nat
    BY <2>1, FS_CardinalityType, OrderIdsFinite
  <2>. QED
    BY <1>5, <1>6, <2>1, <2>2 DEF FreshIds
<1>7. ASSUME tx[w].op \in {"create", "convert"}, Fresh' = Fresh \ {NextId} PROVE FreshIds'
  <2>1. w \in Inserting /\ NextId \in Fresh
    BY <1>7, FreshLeft DEF Inserting, IInv
  <2>2. IsFiniteSet(Inserting') /\ Cardinality(Inserting') = Cardinality(Inserting) - 1
    BY <1>4, <1>5, <2>1, FS_RemoveElement
  <2>3. Cardinality(Fresh') = Cardinality(Fresh) - 1 /\ Cardinality(Fresh) \in Nat
    BY <1>7, <2>1, OrderIdsFinite, FS_RemoveElement
  <2>. QED
    BY <1>5, <2>2, <2>3 DEF FreshIds
<1>8. \A x \in OrderIds : x \in Fresh <=> orders[x].status = "none"
  BY DEF Fresh
<1>9. \A x \in OrderIds : x \in Fresh' <=> orders'[x].status = "none"
  BY DEF Fresh
<1>10. Fresh \subseteq OrderIds /\ Fresh' \subseteq OrderIds
  BY DEF Fresh
<1>11. CASE tx[w].op = "import"
  <2>1. orders' = orders
    BY <1>11, CommitOrders
  <2>2. Fresh' = Fresh
    BY <2>1 DEF Fresh
  <2>. QED
    BY <1>1, <1>6, <2>1, <2>2, CommitCovered, CommitFrame
<1>12. CASE tx[w].op \in {"confirm", "cancel", "cancelReserve"} /\ HoldsOrder(w)
  <2>1. o \in OrderIds /\ orders[o].status \in OpenStatus /\ lock[o] = w
    BY <1>12 DEF HoldsOrder
  <2>2. PICK st \in {"confirmed", "cancelled"} : orders' = [orders EXCEPT ![o] = Closed(o, st)]
    BY <1>12, CommitOrders
  <2>3. Closed(o, st) \in OrderRow /\ Closed(o, st).status = st /\ Closed(o, st).items = orders[o].items
    BY <2>1, Rows, RowsWritten
  <2>. HIDE DEF o
  <2>4. orders'[o] = Closed(o, st) /\ \A x \in OrderIds \ {o} : orders'[x] = orders[x]
    BY <1>1, <2>1, <2>2
  <2>5. orders' \in [OrderIds -> OrderRow]
    BY <1>1, <2>2, <2>3
  <2>6. \A x \in OrderIds : Claims(orders'[x].items)
    BY <1>1, <2>3, <2>4
  <2>7. \A x \in OrderIds : orders[x].status \in OpenStatus /\ lock[x] # w => orders'[x] = orders[x]
    BY <2>1, <2>4
  <2>8. Fresh' = Fresh
    <3>1. orders[o].status # "none" /\ orders'[o].status # "none"
      BY <2>1, <2>3, <2>4 DEF OpenStatus
    <3>. QED
      BY <1>8, <1>9, <1>10, <2>4, <3>1
  <2>. QED
    BY <1>6, <2>5, <2>6, <2>7, <2>8, CommitCovered, CommitFrame
<1>13. CASE tx[w].op = "create" /\ Claims(tx[w].items)
  <2>. DEFINE n == NextId
  <2>1. n \in OrderIds /\ orders[n].status = "none"
    BY <1>13, FreshLeft DEF IInv
  <2>2. orders' = [orders EXCEPT ![n] = NewOrder(w)]
    BY <1>13, CommitOrders
  <2>3. NewOrder(w) \in OrderRow /\ NewOrder(w).items = tx[w].items /\ NewOrder(w).status \in OpenStatus
    BY Rows, RowsWritten
  <2>4. Fresh' = Fresh \ {n} => FreshIds'
    BY <1>7, <1>13
  <2>. HIDE DEF n
  <2>5. orders'[n] = NewOrder(w) /\ \A x \in OrderIds \ {n} : orders'[x] = orders[x]
    BY <1>1, <2>1, <2>2
  <2>6. orders' \in [OrderIds -> OrderRow]
    BY <1>1, <2>2, <2>3
  <2>7. \A x \in OrderIds : Claims(orders'[x].items)
    BY <1>1, <1>13, <2>3, <2>5
  <2>8. orders[n].status \notin OpenStatus /\ orders'[n].status # "none"
    BY <2>1, <2>3, <2>5 DEF OpenStatus
  <2>9. \A x \in OrderIds : orders[x].status \in OpenStatus /\ lock[x] # w => orders'[x] = orders[x]
    BY <2>5, <2>8
  <2>10. Fresh' = Fresh \ {n}
    BY <1>8, <1>9, <1>10, <2>5, <2>8
  <2>. QED
    BY <2>4, <2>6, <2>7, <2>9, <2>10, CommitCovered, CommitFrame
<1>14. CASE tx[w].op = "convert" /\ Claims(tx[w].items) /\ HoldsOrder(w)
  <2>. DEFINE n == NextId
  <2>1. n \in OrderIds /\ orders[n].status = "none"
    BY <1>14, FreshLeft DEF IInv
  <2>2. o \in OrderIds /\ orders[o].status \in OpenStatus /\ lock[o] = w
    BY <1>14 DEF HoldsOrder
  <2>3. orders' = [orders EXCEPT ![o] = Closed(o, "confirmed"), ![n] = NewOrder(w)]
    BY <1>14, CommitOrders
  <2>4. /\ Closed(o, "confirmed") \in OrderRow /\ Closed(o, "confirmed").status = "confirmed"
        /\ Closed(o, "confirmed").items = orders[o].items
        /\ NewOrder(w) \in OrderRow /\ NewOrder(w).items = tx[w].items
        /\ NewOrder(w).status \in OpenStatus
    BY <2>2, Rows, RowsWritten
  <2>5. Fresh' = Fresh \ {n} => FreshIds'
    BY <1>7, <1>14
  <2>. HIDE DEF n, o
  <2>6. o # n
    BY <2>1, <2>2 DEF OpenStatus
  <2>7. /\ orders'[n] = NewOrder(w) /\ orders'[o] = Closed(o, "confirmed")
        /\ \A x \in OrderIds \ {n, o} : orders'[x] = orders[x]
    BY <1>1, <2>1, <2>2, <2>3, <2>6
  <2>8. orders' \in [OrderIds -> OrderRow]
    BY <1>1, <2>3, <2>4
  <2>9. \A x \in OrderIds : Claims(orders'[x].items)
    BY <1>1, <1>14, <2>2, <2>4, <2>7
  <2>10. /\ orders[n].status \notin OpenStatus /\ orders'[n].status # "none"
         /\ orders[o].status # "none" /\ orders'[o].status # "none"
    BY <2>1, <2>2, <2>4, <2>7 DEF OpenStatus
  <2>11. \A x \in OrderIds : orders[x].status \in OpenStatus /\ lock[x] # w => orders'[x] = orders[x]
    BY <2>2, <2>7, <2>10
  <2>12. Fresh' = Fresh \ {n}
    BY <1>8, <1>9, <1>10, <2>7, <2>10
  <2>. QED
    BY <2>5, <2>8, <2>9, <2>11, <2>12, CommitCovered, CommitFrame
<1>. QED
  BY <1>1, <1>11, <1>12, <1>13, <1>14, FinishedTx

-----------------------------------------------------------------------------
(* Every step. *)

\* The item lists of requests.
LEMMA ItemListsTyped == \A items \in ItemLists : items \in Seq(Item) /\ Claims(items)
BY OrdersAssumption DEF Item, Claims

\* Requests that arrive find the worker idle, with nothing changed.
LEMMA ArrivalIInv ==
  ASSUME IInv, NEW w \in Workers,
         \/ \E items \in ItemLists, kind \in Kinds : BeginCreate(w, items, kind)
         \/ \E items \in ItemLists : BeginImport(w, items)
         \/ \E op \in OrderOps, o \in OrderIds, items \in ItemLists : BeginOrderOp(w, op, o, items)
  PROVE  IInv'
<1>0. Claims(<<>>) /\ <<>> \in Seq(Item)
  BY UnitsEmpty, OrdersAssumption DEF Claims
<1>1. ASSUME NEW items \in ItemLists, NEW kind \in Kinds, BeginCreate(w, items, kind) PROVE IInv'
  <2>. DEFINE t == [Idle EXCEPT !.op = "create", !.at = "reserve", !.todo = items,
                                !.items = items, !.kind = kind]
  <2>1. items \in Seq(Item) /\ Claims(items) /\ kind \in {"outbound", "reserve"} \X OpenStatus
    BY ItemListsTyped, OrdersAssumption
  <2>2. /\ t \in Tx /\ t.op = "create" /\ t.at = "reserve" /\ t.todo = items /\ t.items = items
        /\ t.dq = Zero /\ t.dr = Zero
    BY <2>1, IdleTx DEF Idle, Tx, AllOps
  <2>3. Begin(w, t)
    BY <1>1 DEF BeginCreate
  <2>. HIDE DEF t
  <2>. QED
    BY <2>1, <2>2, <2>3, BeginIInv
<1>2. ASSUME NEW items \in ItemLists, BeginImport(w, items) PROVE IInv'
  <2>. DEFINE t == [Idle EXCEPT !.op = "import", !.at = "import", !.todo = items]
  <2>1. items \in Seq(Item) /\ Claims(items)
    BY ItemListsTyped
  <2>2. /\ t \in Tx /\ t.op = "import" /\ t.at = "import" /\ t.todo = items
        /\ t.dq = Zero /\ t.dr = Zero
    BY <2>1, IdleTx DEF Idle, Tx, AllOps
  <2>3. Begin(w, t)
    BY <1>2 DEF BeginImport
  <2>. HIDE DEF t
  <2>. QED
    BY <2>1, <2>2, <2>3, BeginIInv
<1>3. ASSUME NEW op \in OrderOps, NEW o \in OrderIds, NEW items \in ItemLists,
             BeginOrderOp(w, op, o, items)
      PROVE IInv'
  <2>. DEFINE body == IF op = "convert" THEN items ELSE <<>>
              t == [Idle EXCEPT !.op = op, !.at = "order", !.order = o, !.items = body]
  <2>1. body \in Seq(Item) /\ Claims(body)
    BY <1>0, ItemListsTyped
  <2>2. op \in AllOps /\ o \in Nat
    BY OrdersAssumption DEF AllOps, OrderIds
  <2>3. Begin(w, t)
    BY <1>3 DEF BeginOrderOp
  <2>. HIDE DEF body
  <2>4. /\ t \in Tx /\ t.op = op /\ t.at = "order" /\ t.order = o /\ t.items = body
        /\ t.dq = Zero /\ t.dr = Zero
    BY <2>1, <2>2, IdleTx DEF Idle, Tx
  <2>. HIDE DEF t
  <2>. QED
    BY <2>1, <2>3, <2>4, BeginIInv
<1>. QED
  BY <1>1, <1>2, <1>3

\* Without UpdateProduct and DeleteProduct every step is a request that arrives, a
\* statement, a rollback or a commit.
LEMMA StepKinds ==
  ASSUME NoEdits, IInv, Next
  PROVE  \E w \in Workers :
           \/ \E items \in ItemLists, kind \in Kinds : BeginCreate(w, items, kind)
           \/ \E items \in ItemLists : BeginImport(w, items)
           \/ \E op \in OrderOps, o \in OrderIds, items \in ItemLists : BeginOrderOp(w, op, o, items)
           \/ ReserveItem(w) \/ ImportItem(w) \/ LockOrder(w) \/ SettleItem(w)
           \/ StartNewOrder(w) \/ Commit(w) \/ Rollback(w)
<1>1. "edit" \notin Ops /\ "delete" \notin Ops
  BY DEF NoEdits
<1>2. \A w \in Workers : tx[w].at # "write"
  <2>1. ASSUME NEW w \in Workers PROVE tx[w].at # "write"
    <3>1. tx[w] \in Tx
      BY Rows
    <3>. QED
      BY <3>1 DEF Tx
  <2>. QED
    BY <2>1
<1>3. \A p \in Products : ~DeleteRow(p)
  BY <1>1 DEF DeleteRow
<1>4. \A w \in Workers : \A p, q : ~EditRead(w, p, q)
  BY <1>1 DEF EditRead
<1>5. \A w \in Workers : ~EditWrite(w)
  BY <1>2 DEF EditWrite
<1>6. \A w \in Workers : LoseCommit(w) \/ Abort(w) \/ BreakDeadlock(w) => Rollback(w)
  BY DEF LoseCommit, Abort, BreakDeadlock, Rollback
<1>. QED
  BY <1>3, <1>4, <1>5, <1>6 DEF Next, Step

\* The invariant is inductive.
LEMMA NextIInv == ASSUME NoEdits, IInv, [Next]_vars PROVE IInv'
<1>1. CASE UNCHANGED vars
  <2>1. product' = product /\ orders' = orders /\ lock' = lock /\ tx' = tx
    BY <1>1 DEF vars
  <2>2. TypeOK' /\ TouchedIsLocked' /\ Covered'
    BY <2>1 DEF IInv, TypeOK, TouchedIsLocked, Covered
  <2>3. ASSUME NEW w \in Workers PROVE Progress(w)'
    <3>1. Progress(w) /\ HoldsOrder(w)' = HoldsOrder(w)
      BY <2>1 DEF IInv, HoldsOrder
    <3>. QED
      BY <2>1, <3>1 DEF Progress, Ordering, Importing, Settling, Reserving
  <2>4. FreshIds'
    <3>1. Inserting' \subseteq Inserting
      BY <2>1 DEF Inserting
    <3>. QED
      BY <2>1, <3>1, FewerInserts DEF IInv
  <2>. QED
    BY <2>2, <2>3, <2>4 DEF IInv
<1>2. CASE Next
  <2>1. PICK w \in Workers :
          \/ \E items \in ItemLists, kind \in Kinds : BeginCreate(w, items, kind)
          \/ \E items \in ItemLists : BeginImport(w, items)
          \/ \E op \in OrderOps, o \in OrderIds, items \in ItemLists : BeginOrderOp(w, op, o, items)
          \/ ReserveItem(w) \/ ImportItem(w) \/ LockOrder(w) \/ SettleItem(w)
          \/ StartNewOrder(w) \/ Commit(w) \/ Rollback(w)
    BY <1>2, StepKinds
  <2>2. Rollback(w) => IInv'
    BY RollbackIInv DEF Rollback
  <2>. QED
    BY <2>1, <2>2, ArrivalIInv, ReserveItemIInv, ImportItemIInv, LockOrderIInv, SettleItemIInv,
       StartNewOrderIInv, CommitIInv
<1>. QED
  BY <1>1, <1>2

\* In every reachable state a row that a transaction has changed is locked by it,
\* the committed tables cover what is reserved, a request's uncommitted changes are
\* exactly what the items it has worked through ask for, and an id is left for every
\* order that will be inserted (CreateOutboundOrder ... InboundSearchImport).
THEOREM OrdersInvariant == ASSUME NoEdits PROVE Spec => []IInv
<1>1. Init => IInv
  BY InitIInv
<1>2. IInv /\ [Next]_vars => IInv'
  BY NextIInv
<1>. QED
  BY <1>1, <1>2, PTL DEF Spec

-----------------------------------------------------------------------------
(* The refinement. *)

\* The committed rows as the ledger's.
Quantity == [p \in Products |-> product[p].quantity]
Reserved == [p \in Products |-> product[p].reserved]
Ledgered(row) == [type |-> row.type, status |-> row.status, need |-> Need(row.items)]
Table == [o \in OrderIds |-> Ledgered(orders[o])]

\* What an item list that passed the bound asks for, in the ledger's terms.
LEMMA NeedTyped == ASSUME NEW s \in Seq(Item), Claims(s) PROVE Need(s) \in Ledger!Need
<1>1. ASSUME NEW p \in Products PROVE Units(s, p) \in 0 .. MaxUnits
  <2>1. Units(s, p) \in Nat /\ Units(s, p) <= MaxUnits /\ MaxUnits \in Nat
    BY UnitsFinite, OrdersAssumption DEF Claims
  <2>. QED
    BY <2>1
<1>. QED
  BY <1>1 DEF Need, Ledger!Need

\* The first state.
LEMMA InitLedger == Init => Ledger!Init
<1>. SUFFICES ASSUME Init PROVE Ledger!Init
  OBVIOUS
<1>1. Quantity = InitialStock
  BY OrdersAssumption DEF Init, Quantity
<1>2. Reserved = [p \in Products |-> 0]
  BY DEF Init, Reserved
<1>3. Table = [o \in OrderIds |-> Ledger!NoOrder]
  <2>1. Need(<<>>) = [p \in Products |-> 0]
    BY UnitsEmpty DEF Need
  <2>. QED
    BY <2>1 DEF Init, Table, Ledgered, NoOrder, Ledger!NoOrder
<1>. QED
  BY <1>1, <1>2, <1>3 DEF Ledger!Init, Quantity, Reserved, Table, Ledgered

\* Until a commit nothing that others can read changes.
LEMMA StutterLedger ==
  ASSUME product' = product, orders' = orders
  PROVE  UNCHANGED Ledger!vars
BY DEF Ledger!vars

\* Columns after the commit.
LEMMA CommitColumns ==
  ASSUME IInv, NEW w \in Workers, Commit(w)
  PROVE  /\ Quantity' = [p \in Products |-> Quantity[p] + tx[w].dq[p]]
         /\ Reserved' = [p \in Products |-> Reserved[p] + tx[w].dr[p]]
         /\ \A p \in Products : Quantity[p] \in Int /\ Reserved[p] \in Int
<1>1. \A p \in Products : /\ product'[p].quantity = product[p].quantity + tx[w].dq[p]
                          /\ product'[p].reserved = product[p].reserved + tx[w].dr[p]
  BY CommitCovered
<1>. QED
  BY <1>1, Rows DEF Quantity, Reserved

\* A column that the commit adds nothing to.
LEMMA SameColumn ==
  ASSUME IInv, NEW f, \A p \in Products : f[p] = 0
  PROVE  /\ [p \in Products |-> Quantity[p] + f[p]] = Quantity
         /\ [p \in Products |-> Reserved[p] + f[p]] = Reserved
<1>1. \A p \in Products : Quantity[p] \in Int /\ Reserved[p] \in Int
  BY Rows DEF Quantity, Reserved
<1>2. \A p \in Products : Quantity[p] + f[p] = Quantity[p] /\ Reserved[p] + f[p] = Reserved[p]
  BY <1>1
<1>. QED
  BY <1>2 DEF Quantity, Reserved

\* The import.
LEMMA CommitImport ==
  ASSUME IInv, NEW w \in Workers, Commit(w), tx[w].op = "import"
  PROVE  Ledger!Next
<1>1. \A p \in Products :
        /\ tx[w].dr[p] = 0 /\ tx[w].dq[p] \in 0 .. MaxUnits
        /\ tx[w].dq[p] > 0 => product[p].quantity + tx[w].dq[p] <= MaxStock
  BY FinishedTx DEF Commit
<1>2. tx[w].dq \in Ledger!Need
  BY <1>1, Rows DEF Ledger!Need
<1>3. Table' = Table
  <2>1. orders' = orders
    BY CommitOrders
  <2>. QED
    BY <2>1 DEF Table
<1>4. Reserved' = Reserved
  BY <1>1, SameColumn, CommitColumns
<1>5. Ledger!Inbound(tx[w].dq)
  BY <1>1, <1>3, <1>4, CommitColumns DEF Ledger!Inbound, Quantity, Reserved, Table, Ledgered
<1>. QED
  BY <1>2, <1>5 DEF Ledger!Next, Ledger!Inbound

\* A confirmation or a cancellation.
LEMMA CommitClose ==
  ASSUME IInv, NEW w \in Workers, Commit(w), tx[w].op \in {"confirm", "cancel", "cancelReserve"}
  PROVE  Ledger!Next
<1>. DEFINE o == tx[w].order
<1>1. /\ HoldsOrder(w)
      /\ \A p \in Products :
           /\ tx[w].dr[p] = 0 - Units(orders[o].items, p)
           /\ tx[w].dq[p] = IF tx[w].op = "confirm" THEN 0 - Units(orders[o].items, p) ELSE 0
  BY FinishedTx DEF Commit
<1>2. o \in OrderIds /\ orders[o].status \in OpenStatus
  BY <1>1 DEF HoldsOrder
<1>3. \A p \in Products : Table[o].need[p] = Units(orders[o].items, p) /\ Units(orders[o].items, p) \in Nat
  BY <1>2, Rows, UnitsFinite DEF Table, Ledgered, Need
<1>4. Reserved' = [p \in Products |-> Reserved[p] - Table[o].need[p]]
  <2>1. \A p \in Products : Reserved[p] \in Int
    BY CommitColumns
  <2>2. \A p \in Products : Reserved[p] + tx[w].dr[p] = Reserved[p] - Table[o].need[p]
    BY <1>1, <1>3, <2>1
  <2>. QED
    BY <2>2, CommitColumns
<1>5. ASSUME NEW st \in {"confirmed", "cancelled"}, orders' = [orders EXCEPT ![o] = Closed(o, st)]
      PROVE Table' = [Table EXCEPT ![o].status = st]
  <2>1. orders \in [OrderIds -> OrderRow]
    BY DEF IInv, TypeOK
  <2>2. Closed(o, st).type = orders[o].type /\ Closed(o, st).status = st
        /\ Closed(o, st).items = orders[o].items
    BY <1>2, Rows, RowsWritten
  <2>. HIDE DEF o
  <2>3. orders'[o] = Closed(o, st) /\ \A x \in OrderIds \ {o} : orders'[x] = orders[x]
    BY <1>2, <1>5, <2>1
  <2>4. Ledgered(orders'[o]) = [Ledgered(orders[o]) EXCEPT !.status = st]
    BY <2>2, <2>3 DEF Ledgered
  <2>. QED
    BY <1>2, <2>3, <2>4 DEF Table
<1>6. Table[o].status \in Ledger!OpenStatus
  BY <1>2 DEF Table, Ledgered, OpenStatus, Ledger!OpenStatus
<1>. HIDE DEF o
<1>7. CASE tx[w].op = "confirm"
  <2>1. Quantity' = [p \in Products |-> Quantity[p] - Table[o].need[p]]
    <3>1. \A p \in Products : Quantity[p] \in Int
      BY CommitColumns
    <3>2. \A p \in Products : Quantity[p] + tx[w].dq[p] = Quantity[p] - Table[o].need[p]
      BY <1>1, <1>3, <1>7, <3>1
    <3>. QED
      BY <3>2, CommitColumns
  <2>2. Table' = [Table EXCEPT ![o].status = "confirmed"]
    BY <1>5, <1>7, CommitOrders DEF o
  <2>3. Ledger!Confirm(o)
    BY <1>4, <1>6, <2>1, <2>2 DEF Ledger!Confirm, Quantity, Reserved, Table, Ledgered
  <2>. QED
    BY <1>2, <2>3 DEF Ledger!Next, Ledger!Confirm
<1>8. CASE tx[w].op \in {"cancel", "cancelReserve"}
  <2>1. Quantity' = Quantity
    <3>1. \A p \in Products : tx[w].dq[p] = 0
      BY <1>1, <1>8
    <3>. QED
      BY <3>1, SameColumn, CommitColumns
  <2>2. Table' = [Table EXCEPT ![o].status = "cancelled"]
    BY <1>5, <1>8, CommitOrders DEF o
  <2>3. Ledger!Cancel(o)
    BY <1>4, <1>6, <2>1, <2>2 DEF Ledger!Cancel, Quantity, Reserved, Table, Ledgered
  <2>. QED
    BY <1>2, <2>3 DEF Ledger!Next, Ledger!Cancel
<1>. QED
  BY <1>7, <1>8

\* A new order.
LEMMA CommitCreate ==
  ASSUME IInv, NEW w \in Workers, Commit(w), tx[w].op = "create"
  PROVE  Ledger!Next
<1>. DEFINE n == NextId
            need == Need(tx[w].items)
            type == tx[w].kind[1]
            status == tx[w].kind[2]
<1>1. /\ Claims(tx[w].items)
      /\ \A p \in Products : /\ tx[w].dr[p] = Units(tx[w].items, p) /\ tx[w].dq[p] = 0
                             /\ product[p].reserved + tx[w].dr[p] <= product[p].quantity
  BY FinishedTx DEF Commit
<1>2. n \in OrderIds /\ orders[n].status = "none"
  BY FreshLeft DEF IInv
<1>3. tx[w].items \in Seq(Item) /\ type \in {"outbound", "reserve"} /\ status \in OpenStatus
  <2>1. tx[w] \in Tx
    BY Rows
  <2>. QED
    BY <2>1 DEF Tx
<1>4. need \in Ledger!Need
  BY <1>1, <1>3, NeedTyped
<1>5. \A p \in Products : need[p] = tx[w].dr[p] /\ need[p] \in Nat
  BY <1>1, <1>3, UnitsFinite DEF Need
<1>6. NewOrder(w) = [type |-> type, status |-> status, items |-> tx[w].items]
  BY DEF NewOrder
<1>7. orders' = [orders EXCEPT ![n] = NewOrder(w)]
  BY CommitOrders
<1>8. Ledgered(NewOrder(w)) = [type |-> type, status |-> status, need |-> need]
  BY <1>6 DEF Ledgered
<1>. HIDE DEF n, need, type, status
<1>9. Table' = [Table EXCEPT ![n] = [type |-> type, status |-> status, need |-> need]]
  <2>1. orders \in [OrderIds -> OrderRow]
    BY DEF IInv, TypeOK
  <2>2. orders'[n] = NewOrder(w) /\ \A x \in OrderIds \ {n} : orders'[x] = orders[x]
    BY <1>2, <1>7, <2>1
  <2>. QED
    BY <1>2, <1>8, <2>2 DEF Table
<1>10. Quantity' = Quantity
  BY <1>1, SameColumn, CommitColumns
<1>11. Reserved' = [p \in Products |-> Reserved[p] + need[p]]
  BY <1>5, CommitColumns
<1>12. ASSUME NEW p \in Products PROVE need[p] <= Quantity[p] - Reserved[p]
  <2>1. Quantity[p] = product[p].quantity /\ Reserved[p] = product[p].reserved
    BY DEF Quantity, Reserved
  <2>2. Quantity[p] \in Int /\ Reserved[p] \in Int /\ need[p] \in Nat
    BY <1>5, CommitColumns
  <2>3. Reserved[p] + need[p] <= Quantity[p]
    BY <1>1, <1>5, <2>1
  <2>. QED
    BY <2>2, <2>3
<1>13. Table[n].status = "none"
  BY <1>2 DEF Table, Ledgered
<1>14. Ledger!Create(n, type, status, need)
  BY <1>9, <1>10, <1>11, <1>12, <1>13 DEF Ledger!Create, Quantity, Reserved, Table, Ledgered
<1>15. type \in Ledger!OrderType /\ status \in Ledger!OpenStatus
  BY <1>3 DEF Ledger!OrderType, Ledger!OpenStatus, OpenStatus
<1>. QED
  BY <1>2, <1>4, <1>14, <1>15 DEF Ledger!Next, Ledger!Create

\* ReserveToOutbound.
LEMMA CommitConvert ==
  ASSUME IInv, NEW w \in Workers, Commit(w), tx[w].op = "convert"
  PROVE  Ledger!Next
<1>. DEFINE n == NextId
            o == tx[w].order
            need == Need(tx[w].items)
<1>1. /\ Claims(tx[w].items) /\ HoldsOrder(w)
      /\ \A p \in Products :
           /\ tx[w].dr[p] = Units(tx[w].items, p) - Units(orders[o].items, p)
           /\ tx[w].dq[p] = 0
           /\ product[p].reserved + tx[w].dr[p] <= product[p].quantity
  BY FinishedTx DEF Commit
<1>2. n \in OrderIds /\ orders[n].status = "none"
  BY FreshLeft DEF IInv
<1>3. o \in OrderIds /\ orders[o].status \in OpenStatus /\ orders[o].type = "reserve"
  BY <1>1 DEF HoldsOrder
<1>4. tx[w].items \in Seq(Item) /\ orders[o].items \in Seq(Item)
  BY <1>3, Rows
<1>5. need \in Ledger!Need
  BY <1>1, <1>4, NeedTyped
<1>6. \A p \in Products : /\ Table[o].need[p] = Units(orders[o].items, p) /\ Table[o].need[p] \in Nat
                          /\ need[p] = Units(tx[w].items, p) /\ need[p] \in Nat
  BY <1>3, <1>4, UnitsFinite DEF Table, Ledgered, Need
<1>7. Ledgered(NewOrder(w)) = [type |-> "outbound", status |-> "pending", need |-> need]
  BY DEF NewOrder, Ledgered
<1>8. /\ Closed(o, "confirmed").type = orders[o].type /\ Closed(o, "confirmed").status = "confirmed"
      /\ Closed(o, "confirmed").items = orders[o].items
  BY <1>3, Rows, RowsWritten
<1>9. orders' = [orders EXCEPT ![o] = Closed(o, "confirmed"), ![n] = NewOrder(w)]
  BY CommitOrders
<1>. HIDE DEF n, o, need
<1>10. o # n
  BY <1>2, <1>3 DEF OpenStatus
<1>11. Table' = [Table EXCEPT ![o].status = "confirmed",
                              ![n] = [type |-> "outbound", status |-> "pending", need |-> need]]
  <2>1. orders \in [OrderIds -> OrderRow]
    BY DEF IInv, TypeOK
  <2>2. /\ orders'[n] = NewOrder(w) /\ orders'[o] = Closed(o, "confirmed")
        /\ \A x \in OrderIds \ {n, o} : orders'[x] = orders[x]
    BY <1>2, <1>3, <1>9, <1>10, <2>1
  <2>3. Ledgered(orders'[o]) = [Ledgered(orders[o]) EXCEPT !.status = "confirmed"]
    BY <1>8, <2>2 DEF Ledgered
  <2>. QED
    BY <1>2, <1>3, <1>7, <1>10, <2>2, <2>3 DEF Table
<1>12. Quantity' = Quantity
  BY <1>1, SameColumn, CommitColumns
<1>13. ASSUME NEW p \in Products
       PROVE /\ Reserved[p] + tx[w].dr[p] = Reserved[p] - Table[o].need[p] + need[p]
             /\ need[p] <= Quantity[p] - (Reserved[p] - Table[o].need[p])
  <2>1. Quantity[p] = product[p].quantity /\ Reserved[p] = product[p].reserved
    BY DEF Quantity, Reserved
  <2>2. /\ Quantity[p] \in Int /\ Reserved[p] \in Int /\ need[p] \in Nat /\ Table[o].need[p] \in Nat
        /\ tx[w].dr[p] = need[p] - Table[o].need[p]
    BY <1>1, <1>6, CommitColumns
  <2>3. Reserved[p] + tx[w].dr[p] <= Quantity[p]
    BY <1>1, <2>1
  <2>. QED
    BY <2>2, <2>3
<1>14. Reserved' = [p \in Products |-> Reserved[p] - Table[o].need[p] + need[p]]
  BY <1>13, CommitColumns
<1>15. Table[n].status = "none" /\ Table[o].type = "reserve" /\ Table[o].status \in Ledger!OpenStatus
  BY <1>2, <1>3 DEF Table, Ledgered, OpenStatus, Ledger!OpenStatus
<1>16. Ledger!Convert(o, n, need)
  BY <1>10, <1>11, <1>12, <1>13, <1>14, <1>15 DEF Ledger!Convert, Quantity, Reserved, Table, Ledgered
<1>. QED
  BY <1>2, <1>3, <1>5, <1>16 DEF Ledger!Next, Ledger!Convert

\* Every step is a step of the ledger or leaves it as it is.
LEMMA NextLedger == ASSUME NoEdits, IInv, [Next]_vars PROVE [Ledger!Next]_(Ledger!vars)
<1>1. CASE UNCHANGED vars
  BY <1>1, StutterLedger DEF vars
<1>2. CASE Next
  <2>1. PICK w \in Workers :
          \/ \E items \in ItemLists, kind \in Kinds : BeginCreate(w, items, kind)
          \/ \E items \in ItemLists : BeginImport(w, items)
          \/ \E op \in OrderOps, o \in OrderIds, items \in ItemLists : BeginOrderOp(w, op, o, items)
          \/ ReserveItem(w) \/ ImportItem(w) \/ LockOrder(w) \/ SettleItem(w)
          \/ StartNewOrder(w) \/ Commit(w) \/ Rollback(w)
    BY <1>2, StepKinds
  <2>2. CASE Commit(w)
    <3>1. tx[w].op \in {"import", "confirm", "cancel", "cancelReserve", "create", "convert"}
      BY <2>2, FinishedTx DEF Commit
    <3>. QED
      BY <2>2, <3>1, CommitImport, CommitClose, CommitCreate, CommitConvert
  <2>3. CASE ~Commit(w)
    <3>1. product' = product /\ orders' = orders
      BY <2>1, <2>3 DEF BeginCreate, BeginImport, BeginOrderOp, Begin, ReserveItem, ImportItem,
         LockOrder, SettleItem, ChangeRow, StartNewOrder, Rollback
    <3>. QED
      BY <3>1, StutterLedger
  <2>. QED
    BY <2>2, <2>3
<1>. QED
  BY <1>1, <1>2

\* Whatever the interleaving of the statements of any number of workers, with
\* rollbacks, deadlocks and lost commits between them, what other requests can read
\* changes as the stock ledger says, one ledger step at a time.
THEOREM OrdersRefinement == ASSUME NoEdits PROVE Spec => ImplementsLedger
<1>1. Init => Ledger!Init
  BY InitLedger
<1>2. IInv /\ [Next]_vars => [Ledger!Next]_(Ledger!vars)
  BY NextLedger
<1>3. Spec => []IInv
  BY OrdersInvariant
<1>. QED
  BY <1>1, <1>2, <1>3, PTL DEF Spec, ImplementsLedger, Ledger!Spec

-----------------------------------------------------------------------------
(* With UpdateProduct and DeleteProduct: what holds whatever clients do. *)

EditTx == [op : AllOps \cup {"none"}, at : {"idle", "reserve", "import", "order", "settle", "write"},
           todo : Seq(Item), dq : [Products -> Int], dr : [Products -> Int],
           order : Nat, kind : {"outbound", "reserve"} \X OpenStatus, items : Seq(Item),
           row : Products \cup {NoOne}, copy : [quantity : Int, reserved : Int], late : BOOLEAN]

EditTypes ==
  /\ product \in [Products -> [here : BOOLEAN, quantity : Int, reserved : Int]]
  /\ orders \in [OrderIds -> OrderRow]
  /\ lock \in [Products \cup OrderIds -> Workers \cup {NoOne}]
  /\ tx \in [Workers -> EditTx]

\* The change of p's reservations that w's transaction has made once it has come
\* as far as it is: what was given back, and what was taken for the new order.
Due(w, p) ==
  LET back == Units(orders[tx[w].order].items, p)
  IN IF tx[w].at = "settle" THEN Units(tx[w].todo, p) - back
     ELSE IF tx[w].at = "reserve"
     THEN (Units(tx[w].items, p) - Units(tx[w].todo, p)) - (IF tx[w].op = "convert" THEN back ELSE 0)
     ELSE 0

\* A row that still is there has been there for all of w's items.
Working(w) ==
  /\ tx[w].at = "order" => tx[w].op \in OrderOps /\ tx[w].order \in OrderIds
  /\ tx[w].at = "import" => tx[w].op = "import"
  /\ tx[w].at = "settle" => tx[w].op \in OrderOps /\ HoldsOrder(w)
  /\ tx[w].at = "reserve" =>
       tx[w].op \in {"create", "convert"} /\ (tx[w].op = "convert" => HoldsOrder(w))
  /\ \A p \in Products : product[p].here => tx[w].dr[p] = Due(w, p)

\* UpdateProduct's copy has the row's reservations, unless it is known to be late.
CopyIsCurrent(w) ==
  tx[w].at = "write" =>
    /\ tx[w].row \in Products
    /\ \/ tx[w].late \/ tx[w].row \in raced
       \/ tx[w].copy.reserved = product[tx[w].row].reserved

EditIInv ==
  /\ EditTypes
  /\ \A w \in Workers : Working(w) /\ CopyIsCurrent(w)
  /\ FreshIds
  /\ \A p \in Products : IsFiniteSet(Ledger!OpenUnits(p))
  /\ OnlyRacingEditsSpoil

\* The types of what the invariant speaks of.
LEMMA EditRows ==
  ASSUME EditIInv
  PROVE  /\ \A p \in Products : /\ product[p].here \in BOOLEAN /\ product[p].quantity \in Int
                                /\ product[p].reserved \in Int
         /\ \A w \in Workers : /\ tx[w] \in EditTx /\ tx[w].todo \in Seq(Item) /\ tx[w].items \in Seq(Item)
                               /\ tx[w].dq \in [Products -> Int] /\ tx[w].dr \in [Products -> Int]
                               /\ tx[w].kind \in {"outbound", "reserve"} \X OpenStatus
         /\ orders \in [OrderIds -> OrderRow]
         /\ \A o \in OrderIds : orders[o] \in OrderRow /\ orders[o].items \in Seq(Item)
<1>1. ASSUME NEW w \in Workers PROVE tx[w] \in EditTx
  BY DEF EditIInv, EditTypes
<1>2. ASSUME NEW w \in Workers
      PROVE /\ tx[w].todo \in Seq(Item) /\ tx[w].items \in Seq(Item)
            /\ tx[w].dq \in [Products -> Int] /\ tx[w].dr \in [Products -> Int]
            /\ tx[w].kind \in {"outbound", "reserve"} \X OpenStatus
  BY <1>1 DEF EditTx
<1>3. ASSUME NEW p \in Products
      PROVE product[p].here \in BOOLEAN /\ product[p].quantity \in Int /\ product[p].reserved \in Int
  BY DEF EditIInv, EditTypes
<1>4. ASSUME NEW o \in OrderIds PROVE orders[o] \in OrderRow
  BY DEF EditIInv, EditTypes
<1>5. ASSUME NEW o \in OrderIds PROVE orders[o].items \in Seq(Item)
  BY <1>4 DEF OrderRow
<1>6. orders \in [OrderIds -> OrderRow]
  BY DEF EditIInv, EditTypes
<1>. QED
  BY <1>1, <1>2, <1>3, <1>4, <1>5, <1>6

LEMMA EditIdleTx == Idle \in EditTx /\ Idle.late = FALSE
BY DEF Idle, EditTx, Zero, AllOps, OpenStatus, Item

\* A worker at rest.
LEMMA IdleWorks ==
  ASSUME NEW w \in Workers, tx'[w] = Idle
  PROVE  Working(w)' /\ CopyIsCurrent(w)'
BY IdleTx DEF Working, Due, CopyIsCurrent

LEMMA InitEdit == Init => EditIInv
<1>. SUFFICES ASSUME Init PROVE EditIInv
  OBVIOUS
<1>1. \A w \in Workers : tx[w] = Idle
  BY DEF Init
<1>2. EditTypes
  <2>1. product \in [Products -> [here : BOOLEAN, quantity : Int, reserved : Int]]
    BY OrdersAssumption DEF Init
  <2>2. orders \in [OrderIds -> OrderRow]
    <3>1. NoOrder \in OrderRow
      BY DEF NoOrder, OrderRow, Item
    <3>. QED
      BY <3>1 DEF Init
  <2>3. tx \in [Workers -> EditTx]
    BY EditIdleTx DEF Init
  <2>4. lock \in [Products \cup OrderIds -> Workers \cup {NoOne}]
    BY DEF Init
  <2>. QED
    BY <2>1, <2>2, <2>3, <2>4 DEF EditTypes
<1>3. \A w \in Workers : Working(w) /\ CopyIsCurrent(w)
  BY <1>1, IdleTx DEF Working, Due, CopyIsCurrent
<1>4. FreshIds
  BY InitIInv DEF IInv
<1>5. ASSUME NEW p \in Products
      PROVE IsFiniteSet(Ledger!OpenUnits(p)) /\ Cardinality(Ledger!OpenUnits(p)) = 0
  <2>1. Ledger!OpenUnits(p) = {}
    BY DEF Init, NoOrder, Ledger!OpenUnits, Ledger!OpenUnitsIn, Ledger!Units, Ledger!OpenIds, Ledger!OpenStatus
  <2>. QED
    BY <2>1, FS_EmptySet
<1>6. OnlyRacingEditsSpoil
  BY <1>5 DEF Init, OnlyRacingEditsSpoil
<1>. QED
  BY <1>2, <1>3, <1>4, <1>5, <1>6 DEF EditIInv

\* A step of w that changes no table and takes no lock from another worker.
LEMMA EditFrame ==
  ASSUME EditIInv, NEW w \in Workers, NEW t \in EditTx,
         tx' = [tx EXCEPT ![w] = t], product' = product, orders' = orders, raced' = raced,
         lock' \in [Products \cup OrderIds -> Workers \cup {NoOne}],
         \A r \in Products \cup OrderIds : lock[r] \in Workers \ {w} => lock'[r] = lock[r],
         Working(w)', CopyIsCurrent(w)', FreshIds'
  PROVE  EditIInv'
<1>1. tx'[w] = t /\ \A v \in Workers \ {w} : tx'[v] = tx[v]
  BY DEF EditIInv, EditTypes
<1>2. EditTypes'
  BY DEF EditIInv, EditTypes
<1>3. ASSUME NEW v \in Workers \ {w} PROVE Working(v)' /\ CopyIsCurrent(v)'
  <2>1. Working(v) /\ CopyIsCurrent(v)
    BY DEF EditIInv
  <2>2. ASSUME HoldsOrder(v) PROVE HoldsOrder(v)'
    BY <1>1, <2>2 DEF HoldsOrder
  <2>3. \A p : Due(v, p)' = Due(v, p)
    BY <1>1 DEF Due
  <2>. QED
    BY <1>1, <2>1, <2>2, <2>3 DEF Working, CopyIsCurrent
<1>4. \A p \in Products : Ledger!OpenUnits(p)' = Ledger!OpenUnits(p)
  BY DEF Ledger!OpenUnits
<1>5. (\A p \in Products : IsFiniteSet(Ledger!OpenUnits(p)))' /\ OnlyRacingEditsSpoil'
  BY <1>4 DEF EditIInv, OnlyRacingEditsSpoil
<1>. QED
  BY <1>2, <1>3, <1>5 DEF EditIInv

LEMMA EditReleases ==
  ASSUME EditIInv, NEW w \in Workers
  PROVE  /\ Release(w) \in [Products \cup OrderIds -> Workers \cup {NoOne}]
         /\ \A r \in Products \cup OrderIds : lock[r] \in Workers \ {w} => Release(w)[r] = lock[r]
BY DEF EditIInv, EditTypes, Release

\* The error paths, a lost commit, an ended context and the victim of a deadlock.
LEMMA RollbackEdit ==
  ASSUME EditIInv, NEW w \in Workers, Rollback(w)
  PROVE  EditIInv'
<1>1. lock' = Release(w) /\ tx' = [tx EXCEPT ![w] = Idle] /\ product' = product
      /\ orders' = orders /\ raced' = raced
  BY DEF Rollback
<1>2. tx'[w] = Idle /\ \A v \in Workers \ {w} : tx'[v] = tx[v]
  BY <1>1 DEF EditIInv, EditTypes
<1>3. Inserting' \subseteq Inserting
  BY <1>2, IdleTx DEF Inserting
<1>4. FreshIds'
  BY <1>1, <1>3, FewerInserts DEF EditIInv
<1>. QED
  BY <1>1, <1>2, <1>4, IdleWorks, EditIdleTx, EditReleases, EditFrame

\* A request that arrives.
LEMMA BeginEdit ==
  ASSUME EditIInv, NEW w \in Workers, NEW t \in EditTx, Begin(w, t), t.dr = Zero,
         \/ t.at = "reserve" /\ t.op = "create" /\ t.todo = t.items
         \/ t.at = "import" /\ t.op = "import"
         \/ t.at = "order" /\ t.op \in OrderOps /\ t.order \in OrderIds
  PROVE  EditIInv'
<1>1. /\ product' = product /\ orders' = orders /\ lock' = lock /\ raced' = raced
      /\ tx' = [tx EXCEPT ![w] = t] /\ tx[w] = Idle
      /\ t.op \in {"create", "convert"} => Cardinality(Inserting) < Cardinality(Fresh)
  BY DEF Begin
<1>2. tx'[w] = t /\ \A v \in Workers \ {w} : tx'[v] = tx[v]
  BY <1>1 DEF EditIInv, EditTypes
<1>3. \A p \in Products : t.dr[p] = 0
  BY IdleTx
<1>4. \A p \in Products : Units(t.items, p) \in Nat
  BY UnitsFinite DEF EditTx
<1>5. ASSUME NEW p \in Products PROVE Due(w, p)' = 0
  <2>1. Units(t.items, p) \in Nat
    BY <1>4
  <2>2. CASE t.at = "reserve"
    <3>1. Due(w, p)' = (Units(t.items, p) - Units(t.items, p)) - 0
      BY <1>2, <2>2 DEF Due
    <3>. QED
      BY <2>1, <3>1
  <2>3. CASE t.at # "reserve"
    BY <1>2, <2>3 DEF Due
  <2>. QED
    BY <2>2, <2>3
<1>6. Working(w)'
  BY <1>2, <1>3, <1>5 DEF Working
<1>7. CopyIsCurrent(w)'
  BY <1>2 DEF CopyIsCurrent
<1>8. FreshIds'
  <2>1. CASE t.op \notin {"create", "convert"}
    <3>1. Inserting' \subseteq Inserting
      BY <1>2, <2>1 DEF Inserting
    <3>. QED
      BY <1>1, <3>1, FewerInserts DEF EditIInv
  <2>2. CASE t.op \in {"create", "convert"}
    <3>1. Inserting' = Inserting \cup {w} /\ w \notin Inserting
      BY <1>1, <1>2, <2>2, IdleTx DEF Inserting
    <3>2. IsFiniteSet(Inserting) /\ Cardinality(Inserting) \in Nat
      BY FS_CardinalityType DEF EditIInv, FreshIds
    <3>3. IsFiniteSet(Inserting') /\ Cardinality(Inserting') = Cardinality(Inserting) + 1
      BY <3>1, <3>2, FS_AddElement
    <3>4. Fresh' = Fresh
      BY <1>1 DEF Fresh
    <3>5. Cardinality(Inserting) < Cardinality(Fresh) /\ Cardinality(Fresh) \in Nat
      BY <1>1, <2>2, OrderIdsFinite
    <3>. QED
      BY <3>2, <3>3, <3>4, <3>5 DEF FreshIds
  <2>. QED
    BY <2>1, <2>2
<1>9. /\ lock' \in [Products \cup OrderIds -> Workers \cup {NoOne}]
      /\ \A r \in Products \cup OrderIds : lock[r] \in Workers \ {w} => lock'[r] = lock[r]
  BY <1>1 DEF EditIInv, EditTypes
<1>. QED
  BY <1>1, <1>6, <1>7, <1>8, <1>9, EditFrame

LEMMA ArrivalEdit ==
  ASSUME EditIInv, NEW w \in Workers,
         \/ \E items \in ItemLists, kind \in Kinds : BeginCreate(w, items, kind)
         \/ \E items \in ItemLists : BeginImport(w, items)
         \/ \E op \in OrderOps, o \in OrderIds, items \in ItemLists : BeginOrderOp(w, op, o, items)
  PROVE  EditIInv'
<1>1. ASSUME NEW items \in ItemLists, NEW kind \in Kinds, BeginCreate(w, items, kind) PROVE EditIInv'
  <2>. DEFINE t == [Idle EXCEPT !.op = "create", !.at = "reserve", !.todo = items,
                                !.items = items, !.kind = kind]
  <2>1. items \in Seq(Item) /\ kind \in {"outbound", "reserve"} \X OpenStatus
    BY ItemListsTyped, OrdersAssumption
  <2>2. /\ t \in EditTx /\ t.op = "create" /\ t.at = "reserve" /\ t.todo = items /\ t.items = items
        /\ t.dr = Zero
    BY <2>1, EditIdleTx DEF Idle, EditTx, AllOps
  <2>3. Begin(w, t)
    BY <1>1 DEF BeginCreate
  <2>. HIDE DEF t
  <2>. QED
    BY <2>2, <2>3, BeginEdit
<1>2. ASSUME NEW items \in ItemLists, BeginImport(w, items) PROVE EditIInv'
  <2>. DEFINE t == [Idle EXCEPT !.op = "import", !.at = "import", !.todo = items]
  <2>1. items \in Seq(Item)
    BY ItemListsTyped
  <2>2. t \in EditTx /\ t.op = "import" /\ t.at = "import" /\ t.dr = Zero
    BY <2>1, EditIdleTx DEF Idle, EditTx, AllOps
  <2>3. Begin(w, t)
    BY <1>2 DEF BeginImport
  <2>. HIDE DEF t
  <2>. QED
    BY <2>2, <2>3, BeginEdit
<1>3. ASSUME NEW op \in OrderOps, NEW o \in OrderIds, NEW items \in ItemLists,
             BeginOrderOp(w, op, o, items)
      PROVE EditIInv'
  <2>. DEFINE body == IF op = "convert" THEN items ELSE <<>>
              t == [Idle EXCEPT !.op = op, !.at = "order", !.order = o, !.items = body]
  <2>1. body \in Seq(Item)
    BY ItemListsTyped
  <2>2. op \in AllOps /\ o \in Nat
    BY OrdersAssumption DEF AllOps, OrderIds
  <2>3. Begin(w, t)
    BY <1>3 DEF BeginOrderOp
  <2>. HIDE DEF body
  <2>4. t \in EditTx /\ t.op = op /\ t.at = "order" /\ t.order = o /\ t.dr = Zero
    BY <2>1, <2>2, EditIdleTx DEF Idle, EditTx
  <2>. HIDE DEF t
  <2>. QED
    BY <2>3, <2>4, BeginEdit
<1>. QED
  BY <1>1, <1>2, <1>3

\* One item is done: d is the change of its product's reservations.
LEMMA ItemEdit ==
  ASSUME EditIInv, NEW w \in Workers, tx[w].todo # <<>>, NEW dq \in Int, NEW d \in Int,
         tx[w].at \in {"reserve", "import", "settle"},
         Grants(w, Head(tx[w].todo).product), ChangeRow(w, Head(tx[w].todo).product, dq, d),
         d = IF tx[w].at = "reserve" THEN Head(tx[w].todo).quantity
             ELSE IF tx[w].at = "settle" THEN 0 - Head(tx[w].todo).quantity ELSE 0
  PROVE  EditIInv'
<1>. DEFINE p == Head(tx[w].todo).product
            q == Head(tx[w].todo).quantity
            Q == [tx[w].dq EXCEPT ![p] = @ + dq]
            D == [tx[w].dr EXCEPT ![p] = @ + d]
            s == Tail(tx[w].todo)
            t == [tx[w] EXCEPT !.dq = Q, !.dr = D, !.todo = s]
            back(x) == Units(orders[tx[w].order].items, x)
<1>1. tx[w] \in EditTx /\ tx[w].todo \in Seq(Item) /\ tx[w].items \in Seq(Item)
  BY EditRows
<1>2. p \in Products /\ q \in Nat /\ s \in Seq(Item)
  BY <1>1, UnitsTail DEF Item
<1>3. tx[w].dq \in [Products -> Int] /\ tx[w].dr \in [Products -> Int]
  BY EditRows
<1>4. \A x \in Products : Units(tx[w].todo, x) = Units(s, x) + (IF x = p THEN q ELSE 0)
  BY <1>1, UnitsTail
<1>5. \A x \in Products : Units(s, x) \in Nat /\ Units(tx[w].items, x) \in Nat
  BY <1>1, <1>2, UnitsFinite
<1>6. lock' = [lock EXCEPT ![p] = w] /\ tx' = [tx EXCEPT ![w] = t]
      /\ product' = product /\ orders' = orders /\ raced' = raced
  BY DEF ChangeRow
<1>7. lock[p] \in {w, NoOne}
  BY DEF Grants
<1>8. Working(w)
  BY DEF EditIInv
<1>9. d = IF tx[w].at = "reserve" THEN q ELSE IF tx[w].at = "settle" THEN 0 - q ELSE 0
  OBVIOUS
<1>. HIDE DEF p, q, s
<1>10. Q \in [Products -> Int]
  BY <1>2, <1>3
<1>11. D \in [Products -> Int] /\ \A x \in Products : D[x] = tx[w].dr[x] + (IF x = p THEN d ELSE 0)
  <2>1. D \in [Products -> Int] /\ D[p] = tx[w].dr[p] + d /\ \A x \in Products \ {p} : D[x] = tx[w].dr[x]
    BY <1>2, <1>3
  <2>. HIDE DEF D
  <2>. QED
    BY <1>2, <1>3, <2>1
<1>. HIDE DEF Q, D
<1>12. /\ t \in EditTx /\ t.op = tx[w].op /\ t.at = tx[w].at /\ t.todo = s /\ t.dr = D
       /\ t.order = tx[w].order /\ t.items = tx[w].items
  <2>. DEFINE r == tx[w]
  <2>1. r \in EditTx /\ r = tx[w]
    BY <1>1
  <2>. HIDE DEF r
  <2>2. LET n == [r EXCEPT !.dq = Q, !.dr = D, !.todo = s]
        IN n \in EditTx /\ n.op = r.op /\ n.at = r.at /\ n.todo = s /\ n.dr = D
           /\ n.order = r.order /\ n.items = r.items
    BY <1>2, <1>10, <1>11, <2>1 DEF EditTx
  <2>. QED
    BY <2>1, <2>2
<1>. HIDE DEF t
<1>13. tx'[w] = t /\ \A v \in Workers \ {w} : tx'[v] = tx[v]
  BY <1>6 DEF EditIInv, EditTypes
<1>14. /\ lock' \in [Products \cup OrderIds -> Workers \cup {NoOne}] /\ lock'[p] = w
       /\ \A r \in Products \cup OrderIds : r # p => lock'[r] = lock[r]
  BY <1>2, <1>6 DEF EditIInv, EditTypes
<1>15. \A r \in Products \cup OrderIds : lock[r] \in Workers \ {w} => lock'[r] = lock[r]
  BY <1>7, <1>14, OrdersAssumption
<1>16. HoldsOrder(w) => HoldsOrder(w)'
  BY <1>6, <1>12, <1>13, <1>14 DEF HoldsOrder
<1>17. ASSUME NEW x \in Products, product[x].here PROVE D[x] = Due(w, x)'
  <2>1. tx[w].dr[x] = Due(w, x)
    BY <1>8, <1>17 DEF Working
  <2>2. tx[w].order \in OrderIds => back(x) \in Nat
    BY EditRows, UnitsFinite
  <2>3. /\ Units(tx[w].todo, x) = Units(s, x) + (IF x = p THEN q ELSE 0)
        /\ Units(s, x) \in Nat /\ Units(tx[w].items, x) \in Nat
        /\ D[x] = tx[w].dr[x] + (IF x = p THEN d ELSE 0)
    BY <1>4, <1>5, <1>11
  <2>4. CASE tx[w].at = "settle"
    <3>1. Due(w, x) = Units(tx[w].todo, x) - back(x) /\ Due(w, x)' = Units(s, x) - back(x)
      BY <1>6, <1>12, <1>13, <2>4 DEF Due
    <3>2. tx[w].order \in OrderIds
      BY <1>8, <2>4 DEF Working, HoldsOrder
    <3>3. back(x) \in Nat
      BY <2>2, <3>2
    <3>. HIDE DEF back
    <3>. QED
      BY <1>2, <1>9, <2>1, <2>3, <2>4, <3>1, <3>3
  <2>5. CASE tx[w].at = "reserve"
    <3>. DEFINE b == IF tx[w].op = "convert" THEN back(x) ELSE 0
    <3>1. /\ Due(w, x) = (Units(tx[w].items, x) - Units(tx[w].todo, x)) - b
          /\ Due(w, x)' = (Units(tx[w].items, x) - Units(s, x)) - b
      BY <1>6, <1>12, <1>13, <2>5 DEF Due
    <3>2. tx[w].op = "convert" => tx[w].order \in OrderIds
      BY <1>8, <2>5 DEF Working, HoldsOrder
    <3>3. b \in Nat
      BY <2>2, <3>2
    <3>. HIDE DEF b
    <3>. QED
      BY <1>2, <1>9, <2>1, <2>3, <2>5, <3>1, <3>3
  <2>6. CASE tx[w].at = "import"
    <3>1. Due(w, x) = 0 /\ Due(w, x)' = 0
      BY <1>12, <1>13, <2>6 DEF Due
    <3>. QED
      BY <1>9, <2>1, <2>3, <2>6, <3>1
  <2>. QED
    BY <2>4, <2>5, <2>6
<1>18. Working(w)'
  BY <1>6, <1>8, <1>12, <1>13, <1>16, <1>17 DEF Working
<1>19. CopyIsCurrent(w)'
  BY <1>12, <1>13 DEF CopyIsCurrent
<1>20. FreshIds'
  <2>1. Inserting' \subseteq Inserting
    BY <1>12, <1>13 DEF Inserting
  <2>. QED
    BY <1>6, <2>1, FewerInserts DEF EditIInv
<1>. QED
  BY <1>6, <1>12, <1>14, <1>15, <1>18, <1>19, <1>20, EditFrame

-----------------------------------------------------------------------------
(* The units of the open orders, over the rows of the orders table. *)

OpenRows(table) == {o \in OrderIds : table[o].status \in OpenStatus}
OpenIn(table, p) ==
  UNION {{o} \X (1 .. Units(table[o].items, p)) : o \in OpenRows(table)}

LEMMA OpenUnitsAre ==
  ASSUME NEW p \in Products
  PROVE  /\ Ledger!OpenUnits(p) = OpenIn(orders, p)
         /\ Ledger!OpenUnits(p)' = OpenIn(orders', p)
<1>1. Ledger!OpenUnits(p) = OpenIn(orders, p)
  <2>1. Ledger!OpenIds([o \in OrderIds |-> [type |-> orders[o].type, status |-> orders[o].status,
                                            need |-> Need(orders[o].items)]]) = OpenRows(orders)
    BY DEF Ledger!OpenIds, OpenRows, Ledger!OpenStatus, OpenStatus
  <2>2. \A o \in OrderIds : Need(orders[o].items)[p] = Units(orders[o].items, p)
    BY DEF Need
  <2>. QED
    BY <2>1, <2>2 DEF Ledger!OpenUnits, Ledger!OpenUnitsIn, Ledger!Units, OpenIn, OpenRows
<1>2. Ledger!OpenUnits(p)' = OpenIn(orders', p)
  <2>1. Ledger!OpenIds([o \in OrderIds |-> [type |-> orders'[o].type, status |-> orders'[o].status,
                                            need |-> Need(orders'[o].items)]]) = OpenRows(orders')
    BY DEF Ledger!OpenIds, OpenRows, Ledger!OpenStatus, OpenStatus
  <2>2. \A o \in OrderIds : Need(orders'[o].items)[p] = Units(orders'[o].items, p)
    BY DEF Need
  <2>. QED
    BY <2>1, <2>2 DEF Ledger!OpenUnits, Ledger!OpenUnitsIn, Ledger!Units, OpenIn, OpenRows
<1>. QED
  BY <1>1, <1>2

\* Opening one order adds its units.
LEMMA OpenGains ==
  ASSUME NEW a, NEW b \in [OrderIds -> OrderRow], NEW o \in OrderIds, NEW p \in Products,
         \A x \in OrderIds \ {o} : b[x] = a[x],
         a[o].status \notin OpenStatus, b[o].status \in OpenStatus, IsFiniteSet(OpenIn(a, p))
  PROVE  /\ IsFiniteSet(OpenIn(b, p))
         /\ Cardinality(OpenIn(b, p)) = Cardinality(OpenIn(a, p)) + Units(b[o].items, p)
<1>. DEFINE n == Units(b[o].items, p)
            B == {o} \X (1 .. n)
<1>1. n \in Nat
  BY UnitsFinite DEF OrderRow
<1>2. OpenRows(b) = OpenRows(a) \cup {o} /\ o \notin OpenRows(a)
  BY DEF OpenRows
<1>3. OpenIn(b, p) = OpenIn(a, p) \cup B
  BY <1>2 DEF OpenIn, OpenRows
<1>4. OpenIn(a, p) \cap B = {}
  BY <1>2 DEF OpenIn
<1>. HIDE DEF n
<1>5. IsFiniteSet(B) /\ Cardinality(B) = n
  BY <1>1, BlockSize
<1>. HIDE DEF B
<1>6. /\ IsFiniteSet(OpenIn(a, p) \cup B)
      /\ Cardinality(OpenIn(a, p) \cup B)
           = Cardinality(OpenIn(a, p)) + Cardinality(B) - Cardinality(OpenIn(a, p) \cap B)
  BY <1>5, FS_Union
<1>7. Cardinality(OpenIn(a, p)) \in Nat
  BY FS_CardinalityType
<1>8. Cardinality(OpenIn(a, p) \cap B) = 0
  BY <1>4, FS_EmptySet, Zenon
<1>9. /\ IsFiniteSet(OpenIn(b, p))
      /\ Cardinality(OpenIn(b, p)) = Cardinality(OpenIn(a, p)) + n - 0
  BY <1>3, <1>5, <1>6, <1>8, Zenon
<1>10. Cardinality(OpenIn(b, p)) = Cardinality(OpenIn(a, p)) + n
  BY <1>1, <1>7, <1>9
<1>. QED
  BY <1>9, <1>10 DEF n

\* Closing one takes them away.
LEMMA OpenLoses ==
  ASSUME NEW a \in [OrderIds -> OrderRow], NEW b, NEW o \in OrderIds, NEW p \in Products,
         \A x \in OrderIds \ {o} : b[x] = a[x],
         a[o].status \in OpenStatus, b[o].status \notin OpenStatus, IsFiniteSet(OpenIn(a, p))
  PROVE  /\ IsFiniteSet(OpenIn(b, p))
         /\ Cardinality(OpenIn(b, p)) = Cardinality(OpenIn(a, p)) - Units(a[o].items, p)
<1>1. OpenRows(b) \subseteq OpenRows(a) /\ o \notin OpenRows(b)
  BY DEF OpenRows
<1>2. OpenIn(b, p) \subseteq OpenIn(a, p)
  BY <1>1 DEF OpenIn, OpenRows
<1>3. IsFiniteSet(OpenIn(b, p)) /\ Cardinality(OpenIn(b, p)) \in Nat
  BY <1>2, FS_Subset, FS_CardinalityType
<1>4. Cardinality(OpenIn(a, p)) = Cardinality(OpenIn(b, p)) + Units(a[o].items, p)
  BY <1>3, OpenGains
<1>5. Units(a[o].items, p) \in Nat
  BY UnitsFinite DEF OrderRow
<1>. QED
  BY <1>3, <1>4, <1>5

-----------------------------------------------------------------------------
(* The statements of a transaction. *)

\* w, which holds its order, goes on with the items s.
LEMMA MoveEdit ==
  ASSUME EditIInv, NEW w \in Workers, NEW at \in {"settle", "reserve"}, NEW s \in Seq(Item),
         tx' = [tx EXCEPT ![w] = [@ EXCEPT !.at = at, !.todo = s]],
         product' = product, orders' = orders, raced' = raced,
         lock' \in [Products \cup OrderIds -> Workers \cup {NoOne}],
         \A r \in Products \cup OrderIds : lock[r] \in Workers \ {w} => lock'[r] = lock[r],
         tx[w].op \in OrderOps, at = "reserve" => tx[w].op = "convert",
         tx[w].order \in OrderIds, lock'[tx[w].order] = w,
         orders[tx[w].order].status \in OpenStatus,
         tx[w].op = "convert" => orders[tx[w].order].type = "reserve",
         at = "settle" => \A x \in Products : product[x].here =>
           tx[w].dr[x] = Units(s, x) - Units(orders[tx[w].order].items, x),
         at = "reserve" => \A x \in Products : product[x].here =>
           tx[w].dr[x] = (Units(tx[w].items, x) - Units(s, x)) - Units(orders[tx[w].order].items, x)
  PROVE  EditIInv'
<1>. DEFINE t == [tx[w] EXCEPT !.at = at, !.todo = s]
<1>1. /\ t \in EditTx /\ t.op = tx[w].op /\ t.at = at /\ t.todo = s /\ t.dr = tx[w].dr
      /\ t.order = tx[w].order /\ t.items = tx[w].items
  <2>. DEFINE r == tx[w]
  <2>1. r \in EditTx
    BY EditRows
  <2>. HIDE DEF r
  <2>2. LET n == [r EXCEPT !.at = at, !.todo = s]
        IN n \in EditTx /\ n.op = r.op /\ n.at = at /\ n.todo = s /\ n.dr = r.dr
           /\ n.order = r.order /\ n.items = r.items
    BY <2>1 DEF EditTx
  <2>. QED
    BY <2>2 DEF r
<1>2. tx' = [tx EXCEPT ![w] = t]
  OBVIOUS
<1>. HIDE DEF t
<1>3. tx'[w] = t
  BY <1>2 DEF EditIInv, EditTypes
<1>4. HoldsOrder(w)'
  BY <1>1, <1>3 DEF HoldsOrder
<1>5. ASSUME NEW x \in Products, product[x].here PROVE t.dr[x] = Due(w, x)'
  BY <1>1, <1>3, <1>5 DEF Due
<1>6. Working(w)'
  BY <1>1, <1>3, <1>4, <1>5 DEF Working
<1>7. CopyIsCurrent(w)'
  BY <1>1, <1>3 DEF CopyIsCurrent
<1>8. FreshIds'
  <2>1. \A v \in Workers \ {w} : tx'[v] = tx[v]
    BY <1>2 DEF EditIInv, EditTypes
  <2>2. Inserting' \subseteq Inserting
    BY <1>1, <1>3, <2>1 DEF Inserting
  <2>. QED
    BY <2>2, FewerInserts DEF EditIInv
<1>. QED
  BY <1>1, <1>2, <1>6, <1>7, <1>8, EditFrame

LEMMA LockOrderEdit == ASSUME EditIInv, NEW w \in Workers, LockOrder(w) PROVE EditIInv'
<1>1. CASE Rollback(w)
  BY <1>1, RollbackEdit
<1>2. CASE Accepts(w) /\ ~Rollback(w)
  <2>. DEFINE o == tx[w].order
  <2>1. /\ tx[w].at = "order" /\ lock[o] \in {w, NoOne}
        /\ lock' = [lock EXCEPT ![o] = w]
        /\ tx' = [tx EXCEPT ![w] = [@ EXCEPT !.at = "settle", !.todo = orders[o].items]]
        /\ product' = product /\ orders' = orders /\ raced' = raced
    BY <1>2 DEF LockOrder, Grants
  <2>2. tx[w].op \in OrderOps /\ o \in OrderIds
    BY <2>1 DEF EditIInv, Working
  <2>3. orders[o].status \in OpenStatus /\ (tx[w].op = "convert" => orders[o].type = "reserve")
    BY <1>2 DEF Accepts
  <2>4. orders[o].items \in Seq(Item)
    BY <2>2, EditRows
  <2>5. /\ lock' \in [Products \cup OrderIds -> Workers \cup {NoOne}] /\ lock'[o] = w
        /\ \A r \in Products \cup OrderIds : r # o => lock'[r] = lock[r]
    BY <2>1, <2>2 DEF EditIInv, EditTypes
  <2>6. \A r \in Products \cup OrderIds : lock[r] \in Workers \ {w} => lock'[r] = lock[r]
    BY <2>1, <2>5, OrdersAssumption
  <2>7. ASSUME NEW x \in Products, product[x].here
        PROVE tx[w].dr[x] = Units(orders[o].items, x) - Units(orders[o].items, x)
    <3>1. tx[w].dr[x] = 0
      BY <2>1, <2>7 DEF EditIInv, Working, Due
    <3>2. Units(orders[o].items, x) \in Nat
      BY <2>4, UnitsFinite
    <3>. QED
      BY <3>1, <3>2
  <2>8. \A x \in Products : product[x].here =>
          tx[w].dr[x] = Units(orders[o].items, x) - Units(orders[tx[w].order].items, x)
    BY <2>7
  <2>9. PICK s \in Seq(Item) : s = orders[o].items
    BY <2>4
  <2>10. \A x \in Products : product[x].here =>
           tx[w].dr[x] = Units(s, x) - Units(orders[tx[w].order].items, x)
    BY <2>8, <2>9, Zenon
  <2>11. tx' = [tx EXCEPT ![w] = [@ EXCEPT !.at = "settle", !.todo = s]]
    BY <2>1, <2>9, Zenon
  <2>. QED
    BY <2>1, <2>2, <2>3, <2>5, <2>6, <2>10, <2>11, MoveEdit
<1>. QED
  BY <1>1, <1>2 DEF LockOrder

LEMMA StartNewOrderEdit == ASSUME EditIInv, NEW w \in Workers, StartNewOrder(w) PROVE EditIInv'
<1>1. /\ tx[w].at = "settle" /\ tx[w].todo = <<>> /\ tx[w].op = "convert"
      /\ tx' = [tx EXCEPT ![w] = [@ EXCEPT !.at = "reserve", !.todo = tx[w].items]]
      /\ product' = product /\ orders' = orders /\ lock' = lock /\ raced' = raced
  BY DEF StartNewOrder
<1>2. HoldsOrder(w) /\ tx[w].op \in OrderOps
  BY <1>1 DEF EditIInv, Working
<1>3. tx[w].items \in Seq(Item)
  BY EditRows
<1>4. ASSUME NEW x \in Products, product[x].here
      PROVE tx[w].dr[x] = (Units(tx[w].items, x) - Units(tx[w].items, x))
                          - Units(orders[tx[w].order].items, x)
  <2>1. tx[w].dr[x] = Units(tx[w].todo, x) - Units(orders[tx[w].order].items, x)
    BY <1>1, <1>4 DEF EditIInv, Working, Due
  <2>2. Units(tx[w].todo, x) = 0 /\ Units(tx[w].items, x) \in Nat
    BY <1>1, <1>3, UnitsEmpty, UnitsFinite
  <2>3. Units(orders[tx[w].order].items, x) \in Nat
    BY <1>2, EditRows, UnitsFinite DEF HoldsOrder
  <2>. QED
    BY <2>1, <2>2, <2>3
<1>5. lock \in [Products \cup OrderIds -> Workers \cup {NoOne}]
  BY DEF EditIInv, EditTypes
<1>. QED
  BY <1>1, <1>2, <1>3, <1>4, <1>5, MoveEdit DEF HoldsOrder

LEMMA ReserveItemEdit == ASSUME EditIInv, NEW w \in Workers, ReserveItem(w) PROVE EditIInv'
<1>. DEFINE p == Head(tx[w].todo).product
            q == Head(tx[w].todo).quantity
<1>1. /\ tx[w].at = "reserve" /\ tx[w].todo # <<>> /\ Grants(w, p)
      /\ Rollback(w) \/ ChangeRow(w, p, 0, q)
  BY DEF ReserveItem
<1>2. q \in Nat
  <2>1. tx[w].todo \in Seq(Item)
    BY EditRows
  <2>. QED
    BY <1>1, <2>1, UnitsTail DEF Item
<1>. QED
  BY <1>1, <1>2, RollbackEdit, ItemEdit

LEMMA ImportItemEdit == ASSUME EditIInv, NEW w \in Workers, ImportItem(w) PROVE EditIInv'
<1>. DEFINE p == Head(tx[w].todo).product
            q == Head(tx[w].todo).quantity
<1>1. /\ tx[w].at = "import" /\ tx[w].todo # <<>> /\ Grants(w, p)
      /\ Rollback(w) \/ ChangeRow(w, p, q, 0)
  BY DEF ImportItem
<1>2. q \in Nat
  <2>1. tx[w].todo \in Seq(Item)
    BY EditRows
  <2>. QED
    BY <1>1, <2>1, UnitsTail DEF Item
<1>. QED
  BY <1>1, <1>2, RollbackEdit, ItemEdit

LEMMA SettleItemEdit == ASSUME EditIInv, NEW w \in Workers, SettleItem(w) PROVE EditIInv'
<1>. DEFINE p == Head(tx[w].todo).product
            q == Head(tx[w].todo).quantity
            dq == IF tx[w].op = "confirm" THEN 0 - q ELSE 0
            s == Tail(tx[w].todo)
<1>1. /\ tx[w].at = "settle" /\ tx[w].todo # <<>> /\ Grants(w, p)
      /\ \/ ChangeRow(w, p, dq, 0 - q)
         \/ /\ ~product[p].here
            /\ tx' = [tx EXCEPT ![w] = [@ EXCEPT !.todo = s]]
            /\ product' = product /\ orders' = orders /\ lock' = lock /\ raced' = raced
  BY DEF SettleItem
<1>2. tx[w].todo \in Seq(Item)
  BY EditRows
<1>3. /\ q \in Nat /\ s \in Seq(Item)
      /\ \A x \in Products : Units(tx[w].todo, x) = Units(s, x) + (IF x = p THEN q ELSE 0)
  BY <1>1, <1>2, UnitsTail DEF Item
<1>4. CASE ChangeRow(w, p, dq, 0 - q)
  <2>1. dq \in Int /\ 0 - q \in Int
    BY <1>3
  <2>. QED
    BY <1>1, <1>4, <2>1, ItemEdit
<1>5. CASE ~ChangeRow(w, p, dq, 0 - q)
  <2>. HIDE DEF dq
  <2>1. HoldsOrder(w) /\ tx[w].op \in OrderOps
    BY <1>1 DEF EditIInv, Working
  <2>2. tx' = [tx EXCEPT ![w] = [@ EXCEPT !.at = "settle", !.todo = s]]
    <3>1. tx[w] \in EditTx
      BY EditRows
    <3>2. [tx[w] EXCEPT !.todo = s] = [tx[w] EXCEPT !.at = "settle", !.todo = s]
      BY <1>1, <3>1 DEF EditTx
    <3>. QED
      BY <1>1, <1>5, <3>2
  <2>3. ASSUME NEW x \in Products, product[x].here
        PROVE tx[w].dr[x] = Units(s, x) - Units(orders[tx[w].order].items, x)
    <3>1. tx[w].dr[x] = Units(tx[w].todo, x) - Units(orders[tx[w].order].items, x)
      BY <1>1, <2>3 DEF EditIInv, Working, Due
    <3>2. x # p
      BY <1>1, <1>5, <2>3
    <3>3. Units(s, x) \in Nat /\ Units(tx[w].todo, x) = Units(s, x) + 0
      BY <1>3, <3>2, UnitsFinite
    <3>. QED
      BY <3>1, <3>3
  <2>4. lock \in [Products \cup OrderIds -> Workers \cup {NoOne}]
    BY DEF EditIInv, EditTypes
  <2>. QED
    BY <1>1, <1>3, <1>5, <2>1, <2>2, <2>3, <2>4, MoveEdit DEF HoldsOrder
<1>. QED
  BY <1>4, <1>5

-----------------------------------------------------------------------------
(* UpdateProduct and DeleteProduct. *)

\* A write of the products table outside any transaction.
LEMMA TableEdit ==
  ASSUME EditIInv, orders' = orders, lock' = lock, raced \subseteq raced',
         tx' \in [Workers -> EditTx], \A v \in Workers : tx'[v] = tx[v] \/ tx'[v] = Idle,
         product' \in [Products -> [here : BOOLEAN, quantity : Int, reserved : Int]],
         \A x \in Products : product'[x].here => product[x].here,
         \A x \in Products \ raced' : product'[x].reserved = product[x].reserved
  PROVE  EditIInv'
<1>1. EditTypes'
  BY DEF EditIInv, EditTypes
<1>2. ASSUME NEW v \in Workers PROVE Working(v)' /\ CopyIsCurrent(v)'
  <2>1. CASE tx'[v] = Idle
    BY <2>1, IdleWorks
  <2>2. CASE tx'[v] = tx[v]
    <3>1. Working(v) /\ CopyIsCurrent(v)
      BY DEF EditIInv
    <3>2. HoldsOrder(v) => HoldsOrder(v)'
      BY <2>2 DEF HoldsOrder
    <3>3. \A p : Due(v, p)' = Due(v, p)
      BY <2>2 DEF Due
    <3>4. Working(v)'
      BY <2>2, <3>1, <3>2, <3>3 DEF Working
    <3>5. CopyIsCurrent(v)'
      BY <2>2, <3>1 DEF CopyIsCurrent
    <3>. QED
      BY <3>4, <3>5
  <2>. QED
    BY <2>1, <2>2
<1>3. FreshIds'
  <2>1. Inserting' \subseteq Inserting
    BY IdleTx DEF Inserting
  <2>. QED
    BY <2>1, FewerInserts DEF EditIInv
<1>4. \A p \in Products : Ledger!OpenUnits(p)' = Ledger!OpenUnits(p)
  BY DEF Ledger!OpenUnits
<1>5. (\A p \in Products : IsFiniteSet(Ledger!OpenUnits(p)))'
  BY <1>4 DEF EditIInv
<1>6. OnlyRacingEditsSpoil'
  BY <1>4 DEF EditIInv, OnlyRacingEditsSpoil
<1>. QED
  BY <1>1, <1>2, <1>3, <1>5, <1>6 DEF EditIInv

LEMMA EditReadEdit ==
  ASSUME EditIInv, NEW w \in Workers, NEW p \in Products,
         NEW q \in EditQuantities \cup {product[p].quantity}, EditRead(w, p, q)
  PROVE  EditIInv'
<1>. DEFINE c == CopyOf(p, q)
            t == [Idle EXCEPT !.op = "edit", !.at = "write", !.row = p, !.copy = c]
<1>1. /\ tx' = [tx EXCEPT ![w] = t]
      /\ product' = product /\ orders' = orders /\ lock' = lock /\ raced' = raced
  BY DEF EditRead
<1>2. c \in [quantity : Int, reserved : Int] /\ c.reserved = product[p].reserved
  <2>1. q \in Int
    <3>1. q \in EditQuantities => q \in Int
      BY OrdersAssumption
    <3>2. product[p].quantity \in Int
      BY EditRows
    <3>. QED
      BY <3>1, <3>2
  <2>. QED
    BY <2>1, EditRows DEF CopyOf
<1>. HIDE DEF c
<1>3. /\ t \in EditTx /\ t.op = "edit" /\ t.at = "write" /\ t.row = p /\ t.copy = c /\ t.dr = Zero
  BY <1>2, EditIdleTx DEF Idle, EditTx, AllOps
<1>. HIDE DEF t
<1>4. tx'[w] = t /\ \A v \in Workers \ {w} : tx'[v] = tx[v]
  BY <1>1 DEF EditIInv, EditTypes
<1>5. Working(w)'
  BY <1>3, <1>4, IdleTx DEF Working, Due
<1>6. CopyIsCurrent(w)'
  BY <1>1, <1>2, <1>3, <1>4 DEF CopyIsCurrent
<1>7. FreshIds'
  <2>1. Inserting' \subseteq Inserting
    BY <1>3, <1>4 DEF Inserting
  <2>. QED
    BY <1>1, <2>1, FewerInserts DEF EditIInv
<1>8. lock' \in [Products \cup OrderIds -> Workers \cup {NoOne}]
  BY <1>1 DEF EditIInv, EditTypes
<1>. QED
  BY <1>1, <1>3, <1>5, <1>6, <1>7, <1>8, EditFrame

LEMMA EditWriteEdit == ASSUME EditIInv, NEW w \in Workers, EditWrite(w) PROVE EditIInv'
<1>. DEFINE p == tx[w].row
            new == [here |-> TRUE, quantity |-> tx[w].copy.quantity, reserved |-> tx[w].copy.reserved]
<1>1. /\ tx[w].at = "write" /\ tx' = [tx EXCEPT ![w] = Idle] /\ orders' = orders /\ lock' = lock
      /\ product' = [product EXCEPT ![p] = IF product[p].here THEN new ELSE product[p]]
      /\ raced' = IF tx[w].late THEN raced \cup {p} ELSE raced
  BY DEF EditWrite
<1>2. /\ p \in Products
      /\ tx[w].late \/ p \in raced \/ tx[w].copy.reserved = product[p].reserved
  BY <1>1 DEF EditIInv, CopyIsCurrent
<1>3. new \in [here : BOOLEAN, quantity : Int, reserved : Int] /\ new.reserved = tx[w].copy.reserved
      /\ new.here
  <2>1. tx[w] \in EditTx
    BY EditRows
  <2>2. tx[w].copy \in [quantity : Int, reserved : Int]
    BY <2>1 DEF EditTx
  <2>. QED
    BY <2>2
<1>. HIDE DEF new
<1>4. product \in [Products -> [here : BOOLEAN, quantity : Int, reserved : Int]]
  BY DEF EditIInv, EditTypes
<1>. HIDE DEF p
<1>5. /\ product' \in [Products -> [here : BOOLEAN, quantity : Int, reserved : Int]]
      /\ product'[p] = IF product[p].here THEN new ELSE product[p]
      /\ \A x \in Products \ {p} : product'[x] = product[x]
  BY <1>1, <1>2, <1>3, <1>4
<1>6. \A x \in Products : product'[x].here => product[x].here
  BY <1>5
<1>7. \A x \in Products \ raced' : product'[x].reserved = product[x].reserved
  BY <1>1, <1>2, <1>3, <1>5
<1>8. /\ tx' \in [Workers -> EditTx]
      /\ \A v \in Workers : tx'[v] = tx[v] \/ tx'[v] = Idle
  BY <1>1, EditIdleTx DEF EditIInv, EditTypes
<1>. QED
  BY <1>1, <1>5, <1>6, <1>7, <1>8, TableEdit

LEMMA DeleteRowEdit == ASSUME EditIInv, NEW p \in Products, DeleteRow(p) PROVE EditIInv'
<1>1. /\ product' = [product EXCEPT ![p].here = FALSE]
      /\ orders' = orders /\ lock' = lock /\ tx' = tx /\ raced' = raced
  BY DEF DeleteRow
<1>2. product \in [Products -> [here : BOOLEAN, quantity : Int, reserved : Int]]
  BY DEF EditIInv, EditTypes
<1>3. /\ product' \in [Products -> [here : BOOLEAN, quantity : Int, reserved : Int]]
      /\ ~product'[p].here /\ product'[p].reserved = product[p].reserved
      /\ \A x \in Products \ {p} : product'[x] = product[x]
  BY <1>1, <1>2
<1>4. tx' \in [Workers -> EditTx]
  BY <1>1 DEF EditIInv, EditTypes
<1>. QED
  BY <1>1, <1>3, <1>4, TableEdit

-----------------------------------------------------------------------------
(* The commit, with other requests holding copies of the rows. *)

\* A commit that keeps the orders the other transactions hold, and changes the open
\* units as it changes the reservations.
LEMMA CommitFrameEdit ==
  ASSUME EditIInv, NEW w \in Workers, Commit(w), orders' \in [OrderIds -> OrderRow],
         \A o \in OrderIds : orders[o].status \in OpenStatus /\ lock[o] # w => orders'[o] = orders[o],
         \A p \in Products : IsFiniteSet(OpenIn(orders', p)),
         \A p \in Products : product[p].here =>
           Cardinality(OpenIn(orders', p)) = Cardinality(OpenIn(orders, p)) + tx[w].dr[p],
         FreshIds'
  PROVE  EditIInv'
<1>. DEFINE txs == [tx EXCEPT ![w] = Idle]
            rows == {p \in Products : tx[w].dr[p] # 0}
<1>1. /\ product' \in [Products -> [here : BOOLEAN, quantity : Int, reserved : Int]]
      /\ \A p \in Products : /\ product'[p].here = product[p].here
                             /\ product'[p].reserved = product[p].reserved + tx[w].dr[p]
  <2>1. product' = [p \in Products |->
                     [here |-> product[p].here, quantity |-> product[p].quantity + tx[w].dq[p],
                      reserved |-> product[p].reserved + tx[w].dr[p]]]
    BY DEF Commit
  <2>2. ASSUME NEW p \in Products
        PROVE /\ product[p].here \in BOOLEAN /\ product[p].quantity + tx[w].dq[p] \in Int
              /\ product[p].reserved + tx[w].dr[p] \in Int
    <3>1. product[p].here \in BOOLEAN
      BY EditRows
    <3>2. /\ product[p].quantity \in Int /\ product[p].reserved \in Int
          /\ tx[w].dq[p] \in Int /\ tx[w].dr[p] \in Int
      BY EditRows
    <3>3. product[p].quantity + tx[w].dq[p] \in Int /\ product[p].reserved + tx[w].dr[p] \in Int
      BY <3>2
    <3>. QED
      BY <3>1, <3>3, Zenon
  <2>. QED
    BY <2>1, <2>2
<1>2. tx' = MarkLate(txs, rows) /\ lock' = Release(w) /\ raced' = raced
  BY DEF Commit
<1>3. txs \in [Workers -> EditTx] /\ txs[w] = Idle /\ \A v \in Workers \ {w} : txs[v] = tx[v]
  BY EditIdleTx DEF EditIInv, EditTypes
<1>. HIDE DEF txs
<1>4. tx'[w] = Idle
  BY <1>2, <1>3, IdleTx DEF MarkLate
<1>5. ASSUME NEW v \in Workers \ {w}
      PROVE /\ tx'[v] \in EditTx /\ tx'[v].op = tx[v].op /\ tx'[v].at = tx[v].at
            /\ tx'[v].todo = tx[v].todo /\ tx'[v].dr = tx[v].dr /\ tx'[v].order = tx[v].order
            /\ tx'[v].items = tx[v].items /\ tx'[v].row = tx[v].row /\ tx'[v].copy = tx[v].copy
            /\ tx[v].late => tx'[v].late
            /\ tx[v].at = "write" /\ tx[v].row \in rows => tx'[v].late
  <2>. DEFINE r == tx[v]
  <2>1. r \in EditTx
    BY EditRows
  <2>2. tx'[v] = IF r.at = "write" /\ r.row \in rows THEN [r EXCEPT !.late = TRUE] ELSE r
    BY <1>2, <1>3 DEF MarkLate
  <2>. HIDE DEF r
  <2>3. LET m == [r EXCEPT !.late = TRUE]
        IN /\ m \in EditTx /\ m.op = r.op /\ m.at = r.at /\ m.todo = r.todo /\ m.dr = r.dr
           /\ m.order = r.order /\ m.items = r.items /\ m.row = r.row /\ m.copy = r.copy /\ m.late
    BY <2>1 DEF EditTx
  <2>4. CASE r.at = "write" /\ r.row \in rows
    BY <2>2, <2>3, <2>4 DEF r
  <2>5. CASE ~(r.at = "write" /\ r.row \in rows)
    <3>1. tx'[v] = r
      BY <2>2, <2>5
    <3>. QED
      BY <2>1, <2>5, <3>1 DEF r
  <2>. QED
    BY <2>4, <2>5
<1>6. EditTypes'
  <2>1. tx' \in [Workers -> EditTx]
    <3>1. \A v \in Workers : tx'[v] \in EditTx
      BY <1>4, <1>5, EditIdleTx
    <3>2. DOMAIN tx' = Workers /\ tx' = [v \in Workers |-> tx'[v]]
      BY <1>2 DEF MarkLate
    <3>. QED
      BY <3>1, <3>2
  <2>. QED
    BY <1>1, <1>2, <2>1, EditReleases DEF EditTypes
<1>7. ASSUME NEW v \in Workers \ {w} PROVE Working(v)'
  <2>1. Working(v)
    BY DEF EditIInv
  <2>2. ASSUME HoldsOrder(v) PROVE HoldsOrder(v)' /\ orders'[tx[v].order] = orders[tx[v].order]
    <3>1. /\ tx[v].order \in OrderIds /\ lock[tx[v].order] = v
          /\ orders[tx[v].order].status \in OpenStatus
      BY <2>2 DEF HoldsOrder
    <3>2. orders'[tx[v].order] = orders[tx[v].order]
      BY <3>1
    <3>3. lock'[tx[v].order] = v
      BY <1>2, <3>1, EditReleases
    <3>. QED
      BY <1>5, <2>2, <3>2, <3>3 DEF HoldsOrder
  <2>3. ASSUME NEW p \in Products PROVE Due(v, p)' = Due(v, p)
    BY <1>5, <2>1, <2>2 DEF Due, Working
  <2>. QED
    BY <1>1, <1>5, <2>1, <2>2, <2>3 DEF Working
<1>8. ASSUME NEW v \in Workers \ {w} PROVE CopyIsCurrent(v)'
  <2>. SUFFICES ASSUME tx[v].at = "write"
                PROVE /\ tx[v].row \in Products
                      /\ \/ tx'[v].late \/ tx[v].row \in raced
                         \/ tx[v].copy.reserved = product'[tx[v].row].reserved
    BY <1>2, <1>5 DEF CopyIsCurrent
  <2>1. /\ tx[v].row \in Products
        /\ tx[v].late \/ tx[v].row \in raced \/ tx[v].copy.reserved = product[tx[v].row].reserved
    BY DEF EditIInv, CopyIsCurrent
  <2>2. CASE tx[w].dr[tx[v].row] # 0
    <3>1. tx'[v].late
      BY <1>5, <2>1, <2>2
    <3>. QED
      BY <2>1, <3>1
  <2>3. CASE tx[w].dr[tx[v].row] = 0
    <3>1. product'[tx[v].row].reserved = product[tx[v].row].reserved + 0
      BY <1>1, <2>1, <2>3
    <3>2. product[tx[v].row].reserved \in Int
      BY <2>1, EditRows
    <3>3. product'[tx[v].row].reserved = product[tx[v].row].reserved
      BY <3>1, <3>2
    <3>. QED
      BY <1>5, <2>1, <3>3
  <2>. QED
    BY <2>2, <2>3
<1>9. Working(w)' /\ CopyIsCurrent(w)'
  BY <1>4, IdleWorks
<1>10. (\A p \in Products : IsFiniteSet(Ledger!OpenUnits(p)))'
  BY OpenUnitsAre
<1>11. ASSUME NEW p \in Products \ raced, product[p].here
       PROVE product'[p].reserved = Cardinality(OpenIn(orders', p))
  <2>1. product[p].reserved = Cardinality(OpenIn(orders, p))
    BY <1>11, OpenUnitsAre DEF EditIInv, OnlyRacingEditsSpoil
  <2>. QED
    BY <1>1, <1>11, <2>1
<1>12. OnlyRacingEditsSpoil'
  BY <1>1, <1>2, <1>11, OpenUnitsAre DEF OnlyRacingEditsSpoil
<1>. QED
  BY <1>6, <1>7, <1>8, <1>9, <1>10, <1>12 DEF EditIInv

\* What a finished transaction has changed of the rows that are there.
LEMMA FinishedEdit ==
  ASSUME EditIInv, NEW w \in Workers, Finished(w)
  PROVE  LET there == {p \in Products : product[p].here}
             back(p) == Units(orders[tx[w].order].items, p)
         IN \/ tx[w].op = "import" /\ \A p \in there : tx[w].dr[p] = 0
            \/ /\ tx[w].op \in {"confirm", "cancel", "cancelReserve"} /\ HoldsOrder(w)
               /\ \A p \in there : tx[w].dr[p] = 0 - back(p)
            \/ tx[w].op = "create" /\ \A p \in there : tx[w].dr[p] = Units(tx[w].items, p)
            \/ /\ tx[w].op = "convert" /\ HoldsOrder(w)
               /\ \A p \in there : tx[w].dr[p] = Units(tx[w].items, p) - back(p)
<1>. DEFINE there == {p \in Products : product[p].here}
            back(p) == Units(orders[tx[w].order].items, p)
<1>1. tx[w].todo = <<>> /\ \A p \in Products : Units(tx[w].todo, p) = 0
  BY UnitsEmpty DEF Finished
<1>2. \A p \in Products : Units(tx[w].items, p) \in Nat
  BY EditRows, UnitsFinite
<1>3. Working(w) /\ \A p \in there : tx[w].dr[p] = Due(w, p)
  BY DEF EditIInv, Working
<1>4. CASE tx[w].at = "import"
  BY <1>3, <1>4 DEF Working, Due
<1>5. CASE tx[w].at = "settle"
  <2>1. tx[w].op \in {"confirm", "cancel", "cancelReserve"} /\ HoldsOrder(w)
    BY <1>3, <1>5 DEF Working, Finished, OrderOps
  <2>2. ASSUME NEW p \in there PROVE tx[w].dr[p] = 0 - back(p)
    BY <1>1, <1>3, <1>5 DEF Due
  <2>. QED
    BY <2>1, <2>2
<1>6. CASE tx[w].at = "reserve"
  <2>1. tx[w].op \in {"create", "convert"} /\ (tx[w].op = "convert" => HoldsOrder(w))
    BY <1>3, <1>6 DEF Working
  <2>2. ASSUME NEW p \in there
        PROVE tx[w].dr[p] = (Units(tx[w].items, p) - 0) - (IF tx[w].op = "convert" THEN back(p) ELSE 0)
    BY <1>1, <1>3, <1>6 DEF Due
  <2>3. CASE tx[w].op = "create"
    <3>1. \A p \in there : tx[w].dr[p] = Units(tx[w].items, p)
      BY <1>2, <2>2, <2>3
    <3>. QED
      BY <2>3, <3>1
  <2>4. CASE tx[w].op = "convert"
    <3>1. \A p \in Products : back(p) \in Nat
      BY <2>1, <2>4, EditRows, UnitsFinite DEF HoldsOrder
    <3>. HIDE DEF back
    <3>2. \A p \in there : tx[w].dr[p] = Units(tx[w].items, p) - back(p)
      BY <1>2, <2>2, <2>4, <3>1
    <3>. QED
      BY <2>1, <2>4, <3>2 DEF back
  <2>. QED
    BY <2>1, <2>3, <2>4
<1>. QED
  BY <1>4, <1>5, <1>6 DEF Finished

LEMMA CommitEdit == ASSUME EditIInv, NEW w \in Workers, Commit(w) PROVE EditIInv'
<1>. DEFINE o == tx[w].order
            there == {p \in Products : product[p].here}
            back(p) == Units(orders[o].items, p)
<1>1. /\ orders \in [OrderIds -> OrderRow] /\ tx[w].items \in Seq(Item)
      /\ tx[w].kind \in {"outbound", "reserve"} \X OpenStatus
      /\ \A p \in Products : Units(tx[w].items, p) \in Nat
  BY EditRows, UnitsFinite
<1>2. \A p \in Products : IsFiniteSet(OpenIn(orders, p)) /\ Cardinality(OpenIn(orders, p)) \in Nat
  BY OpenUnitsAre, FS_CardinalityType DEF EditIInv
<1>3. \A v \in Workers \ {w} : tx'[v].op = tx[v].op
  <2>1. ASSUME NEW v \in Workers \ {w} PROVE tx'[v].op = tx[v].op
    <3>1. tx[v] \in EditTx /\ [tx EXCEPT ![w] = Idle][v] = tx[v]
      BY EditRows DEF EditIInv, EditTypes
    <3>2. [tx[v] EXCEPT !.late = TRUE].op = tx[v].op
      BY <3>1 DEF EditTx
    <3>. QED
      BY <3>1, <3>2 DEF Commit, MarkLate
  <2>. QED
    BY <2>1
<1>4. tx'[w].op = "none"
  <2>1. [tx EXCEPT ![w] = Idle][w] = Idle
    BY DEF EditIInv, EditTypes
  <2>. QED
    BY <2>1, IdleTx DEF Commit, MarkLate
<1>5. Inserting' = Inserting \ {w}
  BY <1>3, <1>4 DEF Inserting
<1>6. /\ IsFiniteSet(Inserting) /\ Cardinality(Inserting) \in Nat
      /\ Cardinality(Inserting) <= Cardinality(Fresh)
  BY FS_CardinalityType DEF EditIInv, FreshIds
<1>7. ASSUME Fresh' = Fresh PROVE FreshIds'
  <2>1. IsFiniteSet(Inserting') /\ Cardinality(Inserting') <= Cardinality(Inserting)
    BY <1>5, <1>6, FS_Subset
  <2>2. Cardinality(Inserting') \in Nat /\ Cardinality(Fresh) \in Nat
    BY <2>1, FS_CardinalityType, OrderIdsFinite
  <2>. QED
    BY <1>6, <1>7, <2>1, <2>2 DEF FreshIds
<1>8. ASSUME tx[w].op \in {"create", "convert"}, Fresh' = Fresh \ {NextId} PROVE FreshIds'
  <2>1. w \in Inserting /\ NextId \in Fresh
    BY <1>8, FreshLeft DEF Inserting, EditIInv
  <2>2. IsFiniteSet(Inserting') /\ Cardinality(Inserting') = Cardinality(Inserting) - 1
    BY <1>5, <1>6, <2>1, FS_RemoveElement
  <2>3. Cardinality(Fresh') = Cardinality(Fresh) - 1 /\ Cardinality(Fresh) \in Nat
    BY <1>8, <2>1, OrderIdsFinite, FS_RemoveElement
  <2>. QED
    BY <1>6, <2>2, <2>3 DEF FreshIds
<1>9. /\ Fresh \subseteq OrderIds /\ Fresh' \subseteq OrderIds
      /\ \A x \in OrderIds : x \in Fresh <=> orders[x].status = "none"
      /\ \A x \in OrderIds : x \in Fresh' <=> orders'[x].status = "none"
  BY DEF Fresh
<1>10. CASE tx[w].op = "import" /\ \A p \in there : tx[w].dr[p] = 0
  <2>1. orders' = orders
    BY <1>10, CommitOrders
  <2>2. FreshIds'
    BY <1>7, <2>1 DEF Fresh
  <2>3. \A p \in there : Cardinality(OpenIn(orders', p)) = Cardinality(OpenIn(orders, p)) + tx[w].dr[p]
    BY <1>2, <1>10, <2>1
  <2>. QED
    BY <1>1, <1>2, <2>1, <2>2, <2>3, CommitFrameEdit
<1>11. CASE /\ tx[w].op \in {"confirm", "cancel", "cancelReserve"} /\ HoldsOrder(w)
            /\ \A p \in there : tx[w].dr[p] = 0 - back(p)
  <2>1. o \in OrderIds /\ orders[o].status \in OpenStatus /\ lock[o] = w
    BY <1>11 DEF HoldsOrder
  <2>2. PICK st \in {"confirmed", "cancelled"} : orders' = [orders EXCEPT ![o] = Closed(o, st)]
    BY <1>11, CommitOrders
  <2>3. Closed(o, st) \in OrderRow /\ Closed(o, st).status = st
    BY <1>1, <2>1, RowsWritten
  <2>4. \A p \in Products : back(p) \in Nat
    BY <2>1, EditRows, UnitsFinite
  <2>5. \A p \in there : tx[w].dr[p] = 0 - back(p)
    BY <1>11
  <2>. HIDE DEF o
  <2>6. orders'[o] = Closed(o, st) /\ \A x \in OrderIds \ {o} : orders'[x] = orders[x]
    BY <1>1, <2>1, <2>2
  <2>7. orders' \in [OrderIds -> OrderRow]
    BY <1>1, <2>2, <2>3
  <2>8. \A x \in OrderIds : orders[x].status \in OpenStatus /\ lock[x] # w => orders'[x] = orders[x]
    BY <2>1, <2>6
  <2>9. orders[o].status # "none" /\ orders'[o].status # "none" /\ orders'[o].status \notin OpenStatus
    BY <2>1, <2>3, <2>6 DEF OpenStatus
  <2>10. Fresh' = Fresh
    BY <1>9, <2>6, <2>9
  <2>11. ASSUME NEW p \in Products
         PROVE /\ IsFiniteSet(OpenIn(orders', p))
               /\ Cardinality(OpenIn(orders', p)) = Cardinality(OpenIn(orders, p)) - back(p)
    BY <1>1, <1>2, <2>1, <2>6, <2>9, OpenLoses
  <2>. HIDE DEF back
  <2>12. \A p \in there : Cardinality(OpenIn(orders', p)) = Cardinality(OpenIn(orders, p)) + tx[w].dr[p]
    BY <1>2, <2>4, <2>5, <2>11
  <2>. QED
    BY <1>7, <2>7, <2>8, <2>10, <2>11, <2>12, CommitFrameEdit
<1>12. CASE tx[w].op = "create" /\ \A p \in there : tx[w].dr[p] = Units(tx[w].items, p)
  <2>. DEFINE n == NextId
  <2>1. n \in OrderIds /\ orders[n].status = "none"
    BY <1>12, FreshLeft DEF EditIInv
  <2>2. orders' = [orders EXCEPT ![n] = NewOrder(w)]
    BY <1>12, CommitOrders
  <2>3. NewOrder(w) \in OrderRow /\ NewOrder(w).items = tx[w].items /\ NewOrder(w).status \in OpenStatus
    BY <1>1, RowsWritten
  <2>4. Fresh' = Fresh \ {n} => FreshIds'
    BY <1>8, <1>12
  <2>. HIDE DEF n
  <2>5. orders'[n] = NewOrder(w) /\ \A x \in OrderIds \ {n} : orders'[x] = orders[x]
    BY <1>1, <2>1, <2>2
  <2>6. orders' \in [OrderIds -> OrderRow]
    BY <1>1, <2>2, <2>3
  <2>7. orders[n].status \notin OpenStatus /\ orders'[n].status # "none"
    BY <2>1, <2>3, <2>5 DEF OpenStatus
  <2>8. \A x \in OrderIds : orders[x].status \in OpenStatus /\ lock[x] # w => orders'[x] = orders[x]
    BY <2>5, <2>7
  <2>9. Fresh' = Fresh \ {n}
    BY <1>9, <2>5, <2>7
  <2>10. ASSUME NEW p \in Products
         PROVE /\ IsFiniteSet(OpenIn(orders', p))
               /\ Cardinality(OpenIn(orders', p)) = Cardinality(OpenIn(orders, p)) + Units(tx[w].items, p)
    BY <1>2, <2>1, <2>3, <2>5, <2>6, <2>7, OpenGains
  <2>11. \A p \in there : Cardinality(OpenIn(orders', p)) = Cardinality(OpenIn(orders, p)) + tx[w].dr[p]
    BY <1>12, <2>10
  <2>. QED
    BY <2>4, <2>6, <2>8, <2>9, <2>10, <2>11, CommitFrameEdit
<1>13. CASE /\ tx[w].op = "convert" /\ HoldsOrder(w)
            /\ \A p \in there : tx[w].dr[p] = Units(tx[w].items, p) - back(p)
  <2>. DEFINE n == NextId
              closed == [orders EXCEPT ![o] = Closed(o, "confirmed")]
  <2>1. n \in OrderIds /\ orders[n].status = "none"
    BY <1>13, FreshLeft DEF EditIInv
  <2>2. o \in OrderIds /\ orders[o].status \in OpenStatus /\ lock[o] = w
    BY <1>13 DEF HoldsOrder
  <2>3. orders' = [closed EXCEPT ![n] = NewOrder(w)]
    BY <1>13, CommitOrders
  <2>4. /\ Closed(o, "confirmed") \in OrderRow /\ Closed(o, "confirmed").status = "confirmed"
        /\ NewOrder(w) \in OrderRow /\ NewOrder(w).items = tx[w].items
        /\ NewOrder(w).status \in OpenStatus
    BY <1>1, <2>2, RowsWritten
  <2>5. Fresh' = Fresh \ {n} => FreshIds'
    BY <1>8, <1>13
  <2>6. \A p \in Products : back(p) \in Nat
    BY <2>2, EditRows, UnitsFinite
  <2>7. \A p \in there : tx[w].dr[p] = Units(tx[w].items, p) - back(p)
    BY <1>13
  <2>. HIDE DEF n, o
  <2>8. o # n
    BY <2>1, <2>2 DEF OpenStatus
  <2>9. /\ closed \in [OrderIds -> OrderRow] /\ closed[o] = Closed(o, "confirmed")
        /\ \A x \in OrderIds \ {o} : closed[x] = orders[x]
    BY <1>1, <2>2, <2>4
  <2>. HIDE DEF closed
  <2>10. /\ orders' \in [OrderIds -> OrderRow] /\ orders'[n] = NewOrder(w)
         /\ \A x \in OrderIds \ {n} : orders'[x] = closed[x]
    BY <2>1, <2>3, <2>4, <2>9
  <2>11. /\ orders[n].status \notin OpenStatus /\ orders'[n].status # "none"
         /\ orders[o].status # "none" /\ orders'[o].status # "none"
         /\ closed[o].status \notin OpenStatus /\ closed[n].status \notin OpenStatus
    BY <2>1, <2>2, <2>4, <2>8, <2>9, <2>10 DEF OpenStatus
  <2>12. \A x \in OrderIds : orders[x].status \in OpenStatus /\ lock[x] # w => orders'[x] = orders[x]
    BY <2>2, <2>9, <2>10, <2>11
  <2>13. Fresh' = Fresh \ {n}
    BY <1>9, <2>9, <2>10, <2>11
  <2>14. ASSUME NEW p \in Products
         PROVE /\ IsFiniteSet(OpenIn(closed, p))
               /\ Cardinality(OpenIn(closed, p)) = Cardinality(OpenIn(orders, p)) - back(p)
    BY <1>1, <1>2, <2>2, <2>9, <2>11, OpenLoses
  <2>15. ASSUME NEW p \in Products
         PROVE /\ IsFiniteSet(OpenIn(orders', p))
               /\ Cardinality(OpenIn(orders', p)) = Cardinality(OpenIn(closed, p)) + Units(tx[w].items, p)
    BY <2>1, <2>4, <2>10, <2>11, <2>14, OpenGains
  <2>. HIDE DEF back
  <2>16. \A p \in there : Cardinality(OpenIn(orders', p)) = Cardinality(OpenIn(orders, p)) + tx[w].dr[p]
    BY <1>1, <1>2, <2>6, <2>7, <2>14, <2>15
  <2>. QED
    BY <2>5, <2>10, <2>12, <2>13, <2>15, <2>16, CommitFrameEdit
<1>14. Finished(w)
  BY DEF Commit
<1>. QED
  BY <1>10, <1>11, <1>12, <1>13, <1>14, FinishedEdit

LEMMA NextEdit == ASSUME EditIInv, [Next]_vars PROVE EditIInv'
<1>1. CASE UNCHANGED vars
  <2>1. product' = product /\ orders' = orders /\ lock' = lock /\ tx' = tx /\ raced' = raced
    BY <1>1 DEF vars
  <2>. QED
    BY <2>1, TableEdit DEF EditIInv, EditTypes
<1>2. ASSUME NEW w \in Workers, LoseCommit(w) \/ Abort(w) \/ BreakDeadlock(w) PROVE EditIInv'
  <2>1. Rollback(w)
    BY <1>2 DEF LoseCommit, Abort, BreakDeadlock, Rollback
  <2>. QED
    BY <2>1, RollbackEdit
<1>3. ASSUME NEW w \in Workers, Step(w) PROVE EditIInv'
  BY <1>2, <1>3, ReserveItemEdit, ImportItemEdit, LockOrderEdit, SettleItemEdit, StartNewOrderEdit,
     CommitEdit, EditWriteEdit DEF Step
<1>4. CASE Next
  BY <1>2, <1>3, <1>4, ArrivalEdit, EditReadEdit, DeleteRowEdit DEF Next
<1>. QED
  BY <1>1, <1>4

\* Whatever transactions, edits and deletions interleave, a product's reserved_quantity
\* is the sum of its open orders' items unless an UpdateProduct wrote a copy that a
\* commit had overtaken (service.go: UpdateProduct against CreateOutboundOrder ...
\* ReserveToOutbound).
THEOREM EditTheorem == Spec => []OnlyRacingEditsSpoil
<1>1. Init => EditIInv
  BY InitEdit
<1>2. EditIInv /\ [Next]_vars => EditIInv'
  BY NextEdit
<1>3. EditIInv => OnlyRacingEditsSpoil
  BY DEF EditIInv
<1>. QED
  BY <1>1, <1>2, <1>3, PTL DEF Spec
=============================================================================
