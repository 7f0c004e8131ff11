----------------------------- MODULE FileDelivery -----------------------------
(***************************************************************************)
(* What a file transfer promises, whatever happens to devices, files and   *)
(* connections: the files of a group arrive one at a time, an arrived file *)
(* stays arrived, and "the job is done" is announced only when all have.   *)
(***************************************************************************)
EXTENDS Naturals

CONSTANTS Objects, Nothing    \* Nothing is none of the Objects

VARIABLES
  status,    \* of each file: still to come, arrived, or given up for good
  current,   \* the file that is being fetched, or Nothing
  announced  \* has somebody been told that the job is done?

TypeOK ==
  /\ status \in [Objects -> {"open", "arrived", "dropped"}]
  /\ current \in Objects \cup {Nothing}
  /\ announced \in BOOLEAN

Init ==
  /\ status = [o \in Objects |-> "open"]
  /\ current = Nothing
  /\ announced = FALSE

Begin(o) ==
  /\ current = Nothing /\ status[o] = "open"
  /\ current' = o
  /\ UNCHANGED <<status, announced>>

\* The file arrives, is given up, or is left for another attempt.
End(o) ==
  /\ current = o
  /\ current' = Nothing
  /\ \E s \in {"arrived", "dropped", status[o]} : status' = [status EXCEPT ![o] = s]
  /\ UNCHANGED announced

\* The sender no longer has the group: whatever has not arrived never will.
DropAll ==
  /\ current = Nothing
  /\ status' = [o \in Objects |-> IF status[o] = "arrived" THEN "arrived" ELSE "dropped"]
  /\ UNCHANGED <<current, announced>>

Announce ==
  /\ current = Nothing
  /\ \A o \in Objects : status[o] = "arrived"
  /\ announced' = TRUE
  /\ UNCHANGED <<status, current>>

Next == DropAll \/ Announce \/ \E o \in Objects : Begin(o) \/ End(o)

vars == <<status, current, announced>>
Spec == Init /\ [][Next]_vars

===============================================================================
