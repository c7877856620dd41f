-------------------------- MODULE MCGoodserOrders --------------------------
(* Small instances of GoodserOrders for TLC. *)
EXTENDS GoodserOrders, TLC

CONSTANTS p1, p2

\* Item lists that lock the two products in either order, and one that names a
\* product twice.
CrossedLists == { <<[product |-> p1, quantity |-> 1], [product |-> p2, quantity |-> 1]>>,
                  <<[product |-> p2, quantity |-> 1], [product |-> p1, quantity |-> 1]>> }
DoubledLists == { <<[product |-> p1, quantity |-> 1]>>,
                  <<[product |-> p1, quantity |-> 1], [product |-> p1, quantity |-> 1]>> }

BothKinds == { <<"outbound", "pending">>, <<"reserve", "reserved">> }
OneEach == [p \in Products |-> 1]
TwoEach == [p \in Products |-> 2]

WorkerSymmetry == Permutations(Workers)
=============================================================================
