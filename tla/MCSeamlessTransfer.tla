------------------------- MODULE MCSeamlessTransfer -------------------------
(***************************************************************************)
(* SeamlessTransfer on small instances: a file of two chunks and, where    *)
(* there is a second object, an empty file.                                *)
(***************************************************************************)
EXTENDS SeamlessTransfer

\* With a UINT of two chunks: a file of 6 GiB.
LargeAnnounced == [o \in Objects |-> 3]

MCAnnounced == [o \in Objects |-> IF o = 1 THEN 2 ELSE 0]
=============================================================================
