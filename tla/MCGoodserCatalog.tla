-------------------------- MODULE MCGoodserCatalog --------------------------
(* A small instance of GoodserCatalog for TLC. *)
EXTENDS GoodserCatalog

Item(s, st, n) == [seq |-> s, status |-> st, qty |-> n]

\* A single inbound without a quantity, and batches that touch two codes in
\* either order.
InboundBatches == { <<Item(1, "A", NoQty)>>,
                    <<Item(1, "A", 1), Item(2, "A", 1)>>, <<Item(2, "A", 1), Item(1, "A", 1)>> }
=============================================================================
