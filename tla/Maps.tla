-------------------------------- MODULE Maps --------------------------------
(* Go maps and tables with a key, as functions on the keys they have. *)

\* m[k] = v: a key that is there is overwritten.
WithEntry(m, k, v) == [x \in DOMAIN m \cup {k} |-> IF x = k THEN v ELSE m[x]]
=============================================================================
