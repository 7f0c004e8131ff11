---------------------------- MODULE PacketDelivery ----------------------------
(***************************************************************************)
(* What a connection to the server of src/linux-server promises: user data *)
(* is handled in the order in which it was sent, each once and unchanged,  *)
(* up to the first message that is malformed, which ends the connection.   *)
(***************************************************************************)
EXTENDS Naturals, Sequences

CONSTANTS UserData, Malformed

VARIABLES sent, handled, up

deliveryVars == <<sent, handled, up>>

DeliveryInit == sent = <<>> /\ handled = <<>> /\ up = TRUE

Submit(m) == sent' = Append(sent, m) /\ UNCHANGED <<handled, up>>

\* Several messages that arrived together are handled together.
Handle(n) ==
  /\ up
  /\ n \in Len(handled) + 1 .. Len(sent)
  /\ \A i \in 1 .. n : sent[i] \in UserData
  /\ handled' = SubSeq(sent, 1, n)
  /\ UNCHANGED <<sent, up>>

\* The messages before the malformed one count.
Reject(n) ==
  /\ up
  /\ n \in Len(handled) .. Len(sent) - 1
  /\ \A i \in 1 .. n : sent[i] \in UserData
  /\ sent[n + 1] = Malformed
  /\ handled' = SubSeq(sent, 1, n)
  /\ up' = FALSE
  /\ UNCHANGED sent

DeliveryNext ==
  \/ \E m \in UserData \cup {Malformed} : Submit(m)
  \/ \E n \in 0 .. Len(sent) : Handle(n) \/ Reject(n)

DeliverySpec ==
  /\ DeliveryInit /\ [][DeliveryNext]_deliveryVars
  /\ WF_deliveryVars(\E n \in 0 .. Len(sent) : Handle(n) \/ Reject(n))
===============================================================================
