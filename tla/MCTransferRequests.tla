-------------------------- MODULE MCTransferRequests --------------------------
(***************************************************************************)
(* Two devices asked one after the other; one device, with one thing that  *)
(* goes wrong and perhaps a second attempt; one device that is asked       *)
(* twice; and one that runs this program as the sender does.               *)
(***************************************************************************)
EXTENDS TransferRequests

Plan(files, form, devices, faults) ==
  [files |-> files, form |-> form, devices |-> devices, trouble |-> faults]

\* Both devices run this program.
OwnPlans == {Plan(<<1>>, "array", << <<"r1">> >>, 0)}

SmallPlans ==
  OwnPlans \cup
  {Plan(<<1, 2>>, "text", << <<"r1", "r2">> >>, 0),
   Plan(<<1, 2>>, "text", << <<"r1">> >>, 1),
   Plan(<<1>>, "text", << <<"r1">>, <<"r1">> >>, 0)}
===============================================================================
