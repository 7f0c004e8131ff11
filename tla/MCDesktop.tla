------------------------------- MODULE MCDesktop -------------------------------
(***************************************************************************)
(* Devices: one that nobody knows asks twice, or is loaded meanwhile, and  *)
(* the user decides.  Receiving: a trusted peer asks for its transfer.     *)
(* Sending: two assignees, one more to come.                               *)
(***************************************************************************)
EXTENDS Desktop

Request(d, what) == [peer |-> d, request |-> what]

Base == [known |-> <<>>, threads |-> <<>>, clicks |-> 3, trouble |-> 0, type |-> "Incoming",
         flag |-> "Pending", assignees |-> <<>>, added |-> {}]

SmallSituations ==
  {[threads |-> <<Request("p", "text"), Request("p", "handshake"), Request("p", "load")>>] @@ Base,
   [threads |-> <<Request("p", "text"), Request("p", "handshake")>>, clicks |-> 2, trouble |-> 1] @@ Base,
   [known |-> "p" :> DeviceRow("p", FALSE, FALSE), threads |-> <<Request("p", "handshake"), Request("p", "load")>>] @@ Base,
   [known |-> "p" :> DeviceRow("p", TRUE, FALSE), threads |-> <<Request("p", "job"), Request("p", "job")>>,
    clicks |-> 4, flag |-> "Interrupted", assignees |-> <<"p">>] @@ Base,
   [known |-> [d \in {"p", "q"} |-> DeviceRow(d, FALSE, FALSE)], clicks |-> 5, trouble |-> 4,
    type |-> "Outgoing", assignees |-> <<"p", "q">>, added |-> {"p", "q"}] @@ Base}
===============================================================================
