---------------------------- MODULE MCRingBuffer ----------------------------
(***************************************************************************)
(* RingBuffer on small arrays.  The bytes of a message differ from each    *)
(* other and from those of other messages, so that every cell copied from  *)
(* a wrong place shows.                                                    *)
(***************************************************************************)
EXTENDS RingBuffer

ShortAndLong == {<<65>>, <<66, 67>>, <<68, 69, 70>>}
Short        == {<<65>>, <<66, 67>>}
=============================================================================
