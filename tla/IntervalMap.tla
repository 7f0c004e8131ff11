----------------------------- MODULE IntervalMap -----------------------------
(***************************************************************************)
(* think-cell-master/src/interval_map/interval_map.h: a value for every    *)
(* key, kept as the keys at which the value changes.  m_map is a function  *)
(* on the keys it holds.                                                   *)
(***************************************************************************)
EXTENDS Integers

CONSTANTS Keys, Values

ASSUME KeysAssumption == Keys \subseteq Int

VARIABLES m_valBegin, m_map

mapVars == <<m_valBegin, m_map>>

MapTypeOK ==
  /\ m_valBegin \in Values
  /\ DOMAIN m_map \subseteq Keys
  /\ \A k \in DOMAIN m_map : m_map[k] \in Values

MapInit == m_valBegin \in Values /\ m_map = [k \in {} |-> m_valBegin]

\* upper_bound(key), and the node before it if there is one
NodeBefore(key) == CHOOSE k \in DOMAIN m_map :
                     k <= key /\ \A j \in DOMAIN m_map : j <= key => j <= k

LookUp(key) == IF \E k \in DOMAIN m_map : k <= key THEN m_map[NodeBefore(key)] ELSE m_valBegin

\* Defect: every node behind the beginning is erased.
ErasedFrom(keyBegin, keyEnd) == {k \in DOMAIN m_map : keyBegin < k}

\* The nodes from the first behind keyBegin up to the first behind keyEnd.
Erased(keyBegin, keyEnd) == {k \in DOMAIN m_map : keyBegin < k /\ k <= keyEnd}

\* The value at keyEnd is read before the nodes are erased.
Assign(keyBegin, keyEnd, val) ==
  /\ keyBegin < keyEnd
  /\ m_map' = [k \in (DOMAIN m_map \ Erased(keyBegin, keyEnd)) \cup {keyBegin, keyEnd} |->
                 IF k = keyEnd THEN LookUp(keyEnd)
                 ELSE IF k = keyBegin THEN val ELSE m_map[k]]
  /\ UNCHANGED m_valBegin

MapNext == \E b, e \in Keys, v \in Values : Assign(b, e, v)

MapSpec == MapInit /\ [][MapNext]_mapVars

-----------------------------------------------------------------------------
\* The map implements the assignment of a value to every key of an interval, and to no other
\* key (interval_map::assign and operator[]).
Function == INSTANCE ValueOfKeys WITH value <- [k \in Keys |-> LookUp(k)]

AssignsIntervals == Function!FunctionSpec
===============================================================================
