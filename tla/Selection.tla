------------------------------- MODULE Selection -------------------------------
(***************************************************************************)
(* Choosing among the elements of a sequence, and changing fields of a     *)
(* record, as functions that proofs can unfold.                            *)
(***************************************************************************)
EXTENDS Naturals, Sequences

\* The elements of s at the positions in T, in their order.
Selected(s, T) ==
  LET kept[i \in 0 .. Len(s)] ==
        IF i = 0 THEN <<>> ELSE IF i \in T THEN Append(kept[i - 1], s[i]) ELSE kept[i - 1]
  IN  kept[Len(s)]

\* A record with the fields of another one put over its own.
Updated(record, fields) ==
  [f \in DOMAIN record \cup DOMAIN fields |-> IF f \in DOMAIN fields THEN fields[f] ELSE record[f]]
===============================================================================
