------------------------- MODULE MCMultiLevelCache -------------------------
(* Small instances of MultiLevelCache for TLC. *)
EXTENDS MultiLevelCache, TLC

CONSTANTS n1, n2, c3

OneNode == [c \in Callers |-> n1]
TwoNodes == [c \in Callers |-> IF c = c3 THEN n2 ELSE n1]

\* Keys are told apart by nothing but their names.
KeySymmetry == Permutations(Keys)
=============================================================================
