----------------------------- MODULE ValueOfKeys -----------------------------
(***************************************************************************)
(* What an interval map promises: a value for every key, and assignments   *)
(* to all keys of a half-open interval.                                    *)
(***************************************************************************)
EXTENDS Integers

CONSTANTS Keys, Values

VARIABLE value

FunctionInit == \E v \in Values : value = [k \in Keys |-> v]

AssignInterval(b, e, v) ==
  value' = [k \in Keys |-> IF b <= k /\ k < e THEN v ELSE value[k]]

FunctionNext == \E b, e \in Keys, v \in Values : AssignInterval(b, e, v)

FunctionSpec == FunctionInit /\ [][FunctionNext]_value
===============================================================================
