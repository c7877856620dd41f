--------------------------- MODULE MCStockLedger ---------------------------
(* A small instance of StockLedger for TLC. *)
EXTENDS StockLedger

TwoEach == [p \in Products |-> 2]
=============================================================================
