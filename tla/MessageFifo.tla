------------------------------ MODULE MessageFifo ------------------------------
(***************************************************************************)
(* What circlebuff_API.hpp promises: push adds a message at the end of a   *)
(* queue, pop hands out the message in the first position.                 *)
(***************************************************************************)
EXTENDS Sequences

CONSTANTS Messages, Consumers

VARIABLES queue, handed    \* handed[c]: what the last pop of c returned

Init ==
  /\ queue = <<>>
  /\ handed = [c \in Consumers |-> <<>>]

Push(m) == queue' = Append(queue, m) /\ UNCHANGED handed

Pop(c) ==
  /\ queue # <<>>
  /\ handed' = [handed EXCEPT ![c] = Head(queue)]
  /\ queue' = Tail(queue)

Next == (\E m \in Messages : Push(m)) \/ (\E c \in Consumers : Pop(c))

Spec == Init /\ [][Next]_<<queue, handed>>

===============================================================================
