----------------------------- MODULE DesktopProofs -----------------------------
(***************************************************************************)
(* The rows of the database stay together whatever threads and windows do, *)
(* the clients of a device are counted, and what is known of a restricted  *)
(* device is not lost: the invariants of Desktop for all situations.       *)
(***************************************************************************)
EXTENDS Desktop, AccessDatabaseProofs, FiniteSetTheorems, SequenceTheorems

DeviceRows == [deviceId: Peer \cup {Nobody}, isTrusted: BOOLEAN, isRestricted: BOOLEAN]
Places     == {"closed", "lookup", "load", "publish", "restrict", "connect", "text", "find",
               "adapter", "test", "start", "over"}
ThreadRows == [pc: Places, copy: DeviceRows, admitted: BOOLEAN]
WindowRows == [kind: {"menu", "blocked", "remove"}, copy: DeviceRows]

IsStored(data, d)   == \E row \in ToSet(data["devices"]) : row.deviceId = d
IsAssigned(data, d) == \E a \in ToSet(data["transferAssignee"]) : a.deviceId = d
IsThere(data)       == \E g \in ToSet(data["transferGroup"]) : g.id = Group

\* A row has the fields that are compared, and belongs to the one group.
IsAssignee(a, s) ==
  /\ {"groupId", "deviceId"} \subseteq DOMAIN a
  /\ a.groupId = Group /\ a.deviceId \in Peer
  /\ s.type = "Incoming" => a.deviceId = s.assignees[1]

IsObject(row, s) ==
  /\ {"groupId", "deviceId", "type"} \subseteq DOMAIN row
  /\ row.groupId = Group /\ row.type = s.type

\* The tables: what SharesHaveDevices says, and what each row looks like.
DataInv(data, lost, s) ==
  /\ IsDatabase(data)
  /\ ToSet(data["devices"]) \subseteq DeviceRows
  /\ \A a \in ToSet(data["transferAssignee"]) :
       IsAssignee(a, s) /\ (IsStored(data, a.deviceId) \/ a.deviceId \in lost)
  /\ \A row \in ToSet(data["transfer"]) :
       IsObject(row, s) /\ (IsAssigned(data, row.deviceId) \/ row.deviceId \in lost)
  /\ s.type = "Incoming" =>
       /\ Len(data["transferAssignee"]) <= 1
       /\ IsThere(data) => ToSet(data["transferAssignee"]) # {}

-----------------------------------------------------------------------------
(* What the operations of the database keep of DataInv *)

LEMMA OtherTables ==
  ASSUME NEW data, NEW lost, NEW s, DataInv(data, lost, s), NEW new,
         ChangesOnly(new, data, {"deviceConnection", "clipboard"})
  PROVE  DataInv(new, lost, s)
  <1>1. /\ new["devices"] = data["devices"] /\ new["transferAssignee"] = data["transferAssignee"]
        /\ new["transfer"] = data["transfer"] /\ new["transferGroup"] = data["transferGroup"]
        /\ IsDatabase(new)
    BY RowTables DEF ChangesOnly
  <1> QED
    BY <1>1 DEF DataInv, IsStored, IsAssigned, IsThere

\* A device is written: its rows, if there are any, are the new one.  Its connections may be others.
DeviceWritten(new, old, copy) ==
  /\ ChangesOnly(new, old, {"devices", "deviceConnection"})
  /\ \A row : row \in ToSet(new["devices"]) <=>
       \/ row = copy
       \/ row \in ToSet(old["devices"]) /\ (row.deviceId # copy.deviceId \/ copy.deviceId = Nobody)

LEMMA OverwrittenRow ==
  ASSUME NEW row \in DeviceRows, NEW copy \in DeviceRows
  PROVE  Updated(row, copy) = copy
  BY DEF Updated, DeviceRows

LEMMA PublishDeviceWrites ==
  ASSUME IsDatabase(db), ToSet(db["devices"]) \subseteq DeviceRows, NEW copy \in DeviceRows
  PROVE  DeviceWritten(PublishDevice(copy), db, copy)
  <1> DEFINE d == copy.deviceId
             S == WhereDevice(d)
             new == PublishDevice(copy)
  <1>1. CASE d = Nobody
    <2>1. new = Insert(db, "devices", copy)
      BY <1>1 DEF PublishDevice
    <2>2. ChangesOnly(new, db, {"devices"}) /\ ToSet(new["devices"]) = Added(db["devices"], copy)
      BY <2>1, RowTables, InsertAddsRow
    <2> QED BY <1>1, <2>2 DEF DeviceWritten, Added, ChangesOnly
  <1>2. CASE d # Nobody
    <2>1. new = Publish(db, S, copy) /\ S.table = "devices"
      BY <1>2, SelectedTables DEF PublishDevice
    <2>2. \A row : Matches(row, S.where) <=> row.deviceId = d
      BY MatchesDevice
    <2>3. Has(db, S) <=> IsStored(db, d)
      BY HasShare DEF IsStored
    <2> HIDE DEF S, d, new
    <2>4. /\ ChangesOnly(new, db, {"devices"})
          /\ Has(db, S) => ToSet(new["devices"]) = {Rewritten(row, S.where, copy) : row \in ToSet(db["devices"])}
          /\ ~Has(db, S) => ToSet(new["devices"]) = Added(db["devices"], copy)
      <3>1. /\ ChangesOnly(Publish(db, S, copy), db, {S.table})
            /\ Has(db, S) => ToSet(Publish(db, S, copy)[S.table])
                              = {Rewritten(row, S.where, copy) : row \in ToSet(db[S.table])}
            /\ ~Has(db, S) => ToSet(Publish(db, S, copy)[S.table]) = Added(db[S.table], copy)
        BY <2>1, RowTables, PublishWritesRow
      <3> QED BY <2>1, <3>1
    <2>5. \A row \in ToSet(db["devices"]) : Rewritten(row, S.where, copy) = IF row.deviceId = d THEN copy ELSE row
      BY <2>2, OverwrittenRow DEF Rewritten
    <2>6. CASE Has(db, S)
      <3>1. ToSet(new["devices"]) = {IF row.deviceId = d THEN copy ELSE row : row \in ToSet(db["devices"])}
        BY <2>4, <2>5, <2>6
      <3>2. \E row \in ToSet(db["devices"]) : row.deviceId = d
        BY <2>3, <2>6 DEF IsStored
      <3> QED BY <1>2, <2>4, <3>1, <3>2 DEF DeviceWritten, ChangesOnly, d, new
    <2>7. CASE ~Has(db, S)
      <3>1. ToSet(new["devices"]) = ToSet(db["devices"]) \cup {copy}
        BY <2>4, <2>7 DEF Added
      <3>2. \A row \in ToSet(db["devices"]) : row.deviceId # d
        BY <2>3, <2>7 DEF IsStored
      <3> QED BY <1>2, <2>4, <3>1, <3>2 DEF DeviceWritten, ChangesOnly, d, new
    <2> QED BY <2>6, <2>7
  <1> QED
    BY <1>1, <1>2

LEMMA DevicesKeepRows ==
  ASSUME NEW data, NEW lost, NEW s, DataInv(data, lost, s), NEW new, NEW copy \in DeviceRows,
         DeviceWritten(new, data, copy)
  PROVE  DataInv(new, lost, s)
  <1>1. /\ new["transferAssignee"] = data["transferAssignee"]
        /\ new["transfer"] = data["transfer"] /\ new["transferGroup"] = data["transferGroup"]
        /\ IsDatabase(new)
    BY RowTables DEF ChangesOnly, DeviceWritten
  <1>2. ToSet(new["devices"]) \subseteq DeviceRows
    BY DEF DeviceWritten, DataInv
  <1>3. \A d : IsStored(data, d) => IsStored(new, d)
    BY DEF DeviceWritten, IsStored
  <1>4. /\ \A d : IsAssigned(new, d) <=> IsAssigned(data, d)
        /\ IsThere(new) <=> IsThere(data)
    BY <1>1 DEF IsAssigned, IsThere
  <1> QED
    BY <1>1, <1>2, <1>3, <1>4 DEF DataInv

\* An assignee whose adapter is written stays the assignee it was.
LEMMA AdapterKeepsRows ==
  ASSUME NEW data, NEW lost, NEW s, DataInv(data, lost, s), NEW d, NEW adapter,
         NEW new, new = Update(data, WhereAssignee(Group, d), [connectionAdapter |-> adapter])
  PROVE  DataInv(new, lost, s)
  <1> DEFINE S == WhereAssignee(Group, d)
             V == [connectionAdapter |-> adapter]
             after(row) == Rewritten(row, S.where, V)
  <1>1. S.table = "transferAssignee" /\ "transferAssignee" \in Tables
    BY SelectedTables, RowTables
  <1>2. /\ ChangesOnly(new, data, {"transferAssignee"})
        /\ ToSet(new["transferAssignee"]) = {after(row) : row \in ToSet(data["transferAssignee"])}
        /\ Len(new["transferAssignee"]) = Len(data["transferAssignee"])
    <2> HIDE DEF S, V
    <2>1. new = Update(data, S, V) /\ IsDatabase(data)
      BY DEF S, V, DataInv
    <2>2. /\ ChangesOnly(Update(data, S, V), data, {S.table})
          /\ ToSet(Update(data, S, V)[S.table]) = {Rewritten(row, S.where, V) : row \in ToSet(data[S.table])}
          /\ Len(Update(data, S, V)[S.table]) = Len(data[S.table])
      BY <1>1, <2>1, UpdateRewritesRows
    <2> QED BY <1>1, <2>1, <2>2
  <1>3. ASSUME NEW a \in ToSet(data["transferAssignee"])
        PROVE  IsAssignee(after(a), s) /\ after(a).deviceId = a.deviceId
    <2>1. IsAssignee(a, s)
      BY DEF DataInv
    <2>2. CASE Matches(a, S.where)
      <3>1. after(a) = Updated(a, V)
        BY <2>2 DEF Rewritten
      <3>2. DOMAIN V = {"connectionAdapter"}
        OBVIOUS
      <3>3. /\ DOMAIN Updated(a, V) = DOMAIN a \cup {"connectionAdapter"}
            /\ Updated(a, V).groupId = a.groupId /\ Updated(a, V).deviceId = a.deviceId
        BY <2>1, <3>2 DEF Updated, IsAssignee
      <3> HIDE DEF after
      <3> QED BY <2>1, <3>1, <3>3 DEF IsAssignee
    <2>3. CASE ~Matches(a, S.where)
      BY <2>1, <2>3 DEF Rewritten
    <2> QED BY <2>2, <2>3
  <1> HIDE DEF after
  <1>4. /\ new["devices"] = data["devices"] /\ new["transfer"] = data["transfer"]
        /\ new["transferGroup"] = data["transferGroup"] /\ IsDatabase(new)
    BY <1>2, RowTables DEF ChangesOnly
  <1>5. /\ \A e : IsStored(data, e) => IsStored(new, e)
        /\ \A e : IsAssigned(data, e) => IsAssigned(new, e)
        /\ IsThere(new) <=> IsThere(data)
    BY <1>2, <1>3, <1>4 DEF IsStored, IsAssigned, IsThere
  <1>6. \A a \in ToSet(new["transferAssignee"]) :
          IsAssignee(a, s) /\ (IsStored(new, a.deviceId) \/ a.deviceId \in lost)
    BY <1>2, <1>3, <1>5 DEF DataInv
  <1>7. ToSet(data["transferAssignee"]) # {} => ToSet(new["transferAssignee"]) # {}
    BY <1>2
  <1> QED
    BY <1>2, <1>4, <1>5, <1>6, <1>7 DEF DataInv

\* So does a row whose flag is written.
LEMMA FlagsKeepRows ==
  ASSUME NEW data, NEW lost, NEW s, DataInv(data, lost, s), NEW where, NEW flag,
         NEW new, new = Update(data, [table |-> "transfer", where |-> where], [flag |-> flag])
  PROVE  DataInv(new, lost, s)
  <1> DEFINE S == [table |-> "transfer", where |-> where]
             V == [flag |-> flag]
             after(row) == Rewritten(row, S.where, V)
  <1>1. S.table = "transfer" /\ "transfer" \in Tables
    BY RowTables
  <1>2. /\ ChangesOnly(new, data, {"transfer"})
        /\ ToSet(new["transfer"]) = {after(row) : row \in ToSet(data["transfer"])}
    <2> HIDE DEF S, V
    <2>1. new = Update(data, S, V) /\ IsDatabase(data)
      BY DEF S, V, DataInv
    <2>2. /\ ChangesOnly(Update(data, S, V), data, {S.table})
          /\ ToSet(Update(data, S, V)[S.table]) = {Rewritten(row, S.where, V) : row \in ToSet(data[S.table])}
      BY <1>1, <2>1, UpdateRewritesRows
    <2> QED BY <1>1, <2>1, <2>2
  <1>3. ASSUME NEW a \in ToSet(data["transfer"])
        PROVE  IsObject(after(a), s) /\ after(a).deviceId = a.deviceId
    <2>1. IsObject(a, s)
      BY DEF DataInv
    <2>2. CASE Matches(a, S.where)
      <3>1. after(a) = Updated(a, V)
        BY <2>2 DEF Rewritten
      <3>2. DOMAIN V = {"flag"}
        OBVIOUS
      <3>3. /\ DOMAIN Updated(a, V) = DOMAIN a \cup {"flag"}
            /\ Updated(a, V).groupId = a.groupId /\ Updated(a, V).deviceId = a.deviceId
            /\ Updated(a, V).type = a.type
        BY <2>1, <3>2 DEF Updated, IsObject
      <3> HIDE DEF after
      <3> QED BY <2>1, <3>1, <3>3 DEF IsObject
    <2>3. CASE ~Matches(a, S.where)
      BY <2>1, <2>3 DEF Rewritten
    <2> QED BY <2>2, <2>3
  <1> HIDE DEF after
  <1>4. /\ new["devices"] = data["devices"] /\ new["transferAssignee"] = data["transferAssignee"]
        /\ new["transferGroup"] = data["transferGroup"] /\ IsDatabase(new)
    BY <1>2, RowTables DEF ChangesOnly
  <1>5. /\ \A e : IsStored(data, e) <=> IsStored(new, e)
        /\ \A e : IsAssigned(data, e) <=> IsAssigned(new, e)
        /\ IsThere(new) <=> IsThere(data)
    BY <1>4 DEF IsStored, IsAssigned, IsThere
  <1>6. \A row \in ToSet(new["transfer"]) :
          IsObject(row, s) /\ (IsAssigned(new, row.deviceId) \/ row.deviceId \in lost)
    BY <1>2, <1>3, <1>5 DEF DataInv
  <1> QED
    BY <1>4, <1>5, <1>6 DEF DataInv

\* A share that goes out is removed with its rows.
LEMMA ShareRemovalKeepsRows ==
  ASSUME NEW data, NEW lost, NEW s, DataInv(data, lost, s), s.type # "Incoming", NEW d
  PROVE  DataInv(RemoveAssignee(data, Group, d), lost, s)
  <1> DEFINE new == RemoveAssignee(data, Group, d)
  <1>1. /\ ChangesOnly(new, data, {"transferAssignee", "transfer"})
        /\ ToSet(new["transferAssignee"]) = Remaining(data["transferAssignee"], WhereAssignee(Group, d).where)
        /\ ToSet(new["transfer"]) = Remaining(data["transfer"], ShareOf(Group, d).where)
    BY RemoveAssigneeRemovesShare DEF DataInv
  <1> HIDE DEF new
  <1>2. \A row : /\ row \in ToSet(new["transferAssignee"]) <=>
                      row \in ToSet(data["transferAssignee"]) /\ ~(row.groupId = Group /\ row.deviceId = d)
                 /\ row \in ToSet(new["transfer"]) <=>
                      row \in ToSet(data["transfer"]) /\ ~(row.groupId = Group /\ row.deviceId = d)
    BY <1>1, MatchesShare DEF Remaining
  <1>3. new["devices"] = data["devices"] /\ IsDatabase(new)
    BY <1>1, RowTables DEF ChangesOnly
  <1>4. \A e : IsStored(data, e) <=> IsStored(new, e)
    BY <1>3 DEF IsStored
  <1>5. \A e : e # d /\ IsAssigned(data, e) => IsAssigned(new, e)
    BY <1>2 DEF IsAssigned
  <1>6. \A row \in ToSet(new["transfer"]) : row.deviceId # d
    BY <1>2 DEF DataInv, IsObject
  <1>7. DataInv(new, lost, s)
    BY <1>2, <1>3, <1>4, <1>5, <1>6 DEF DataInv
  <1> QED
    BY <1>7 DEF new

LEMMA GroupRemovalKeepsRows ==
  ASSUME NEW data, NEW lost, NEW s, DataInv(data, lost, s)
  PROVE  DataInv(RemoveGroup(data, Group), lost, s) /\ ~IsThere(RemoveGroup(data, Group))
  <1> DEFINE new == RemoveGroup(data, Group)
  <1>1. /\ ChangesOnly(new, data, {"transferGroup", "transferAssignee", "divisTransfer", "transfer"})
        /\ ToSet(new["transferGroup"]) = Remaining(data["transferGroup"], WhereGroup(Group).where)
        /\ ToSet(new["transferAssignee"]) = Remaining(data["transferAssignee"], AssigneesOf(Group).where)
        /\ Len(new["transferAssignee"]) <= Len(data["transferAssignee"])
        /\ ToSet(new["transfer"]) = Remaining(data["transfer"], [groupId |-> Group])
    BY RemoveGroupRemovesAll DEF DataInv
  <1> HIDE DEF new
  <1>2. \A row : /\ row \in ToSet(new["transferGroup"]) => row.id # Group
                 /\ row \in ToSet(new["transferAssignee"]) =>
                      row \in ToSet(data["transferAssignee"]) /\ row.groupId # Group
                 /\ row \in ToSet(new["transfer"]) => row \in ToSet(data["transfer"]) /\ row.groupId # Group
    BY <1>1, MatchesGroup DEF Remaining
  <1>3. new["devices"] = data["devices"] /\ IsDatabase(new)
    BY <1>1, RowTables DEF ChangesOnly
  <1>4. ToSet(new["transferAssignee"]) = {} /\ ToSet(new["transfer"]) = {}
    BY <1>2 DEF DataInv, IsAssignee, IsObject
  <1>5. ~IsThere(new)
    BY <1>2 DEF IsThere
  <1>6. s.type = "Incoming" => Len(new["transferAssignee"]) <= 1
    <2>1. Len(new["transferAssignee"]) \in Nat /\ Len(data["transferAssignee"]) \in Nat
      BY <1>3, RowTables, TableDomain DEF IsDatabase, DataInv
    <2> QED BY <1>1, <2>1 DEF DataInv
  <1>7. DataInv(new, lost, s)
    BY <1>3, <1>4, <1>5, <1>6 DEF DataInv
  <1> QED
    BY <1>5, <1>7 DEF new

\* A device that is removed takes its share, and the group when nobody else is in it.
LEMMA DeviceRemovalKeepsRows ==
  ASSUME NEW data, NEW lost, NEW s, DataInv(data, lost, s), NEW d
  PROVE  DataInv(RemoveDevice(data, d), lost, s)
  <1> DEFINE new == RemoveDevice(data, d)
  <1>1. RemovesDevice(new, data, d)
    BY RemoveDeviceRemovesAll DEF DataInv
  <1> HIDE DEF new
  <1>2. IsDatabase(new)
    BY <1>1 DEF RemovesDevice, ChangesOnly
  <1>3. \A row : row \in ToSet(new["devices"]) <=> row \in ToSet(data["devices"]) /\ row.deviceId # d
    BY <1>1, MatchesDevice DEF RemovesDevice, Remaining
  <1>4. /\ \A e : e # d /\ IsStored(data, e) => IsStored(new, e)
        /\ \A e : e # d /\ IsAssigned(data, e) => IsAssigned(new, e)
    BY <1>1, <1>3 DEF IsStored, IsAssigned, RemovesDevice
  <1>5. \A a \in ToSet(new["transferAssignee"]) : a \in ToSet(data["transferAssignee"]) /\ a.deviceId # d
    BY <1>1 DEF RemovesDevice
  <1>6. ASSUME NEW row \in ToSet(new["transfer"])
        PROVE  IsObject(row, s) /\ (IsAssigned(new, row.deviceId) \/ row.deviceId \in lost)
    <2>1. row \in ToSet(data["transfer"])
      BY <1>1 DEF RemovesDevice
    <2>2. IsObject(row, s) /\ (IsAssigned(data, row.deviceId) \/ row.deviceId \in lost)
      BY <2>1 DEF DataInv
    <2>3. CASE row.deviceId = d
      <3>1. ~Has(data, WhereAssignee(Group, d))
        BY <1>1, <2>2, <2>3 DEF RemovesDevice, IsObject
      <3>2. ~IsAssigned(data, d)
        BY <3>1, HasShare DEF IsAssigned, DataInv, IsAssignee
      <3> QED BY <2>2, <2>3, <3>2
    <2>4. CASE row.deviceId # d
      BY <1>4, <2>2, <2>4
    <2> QED BY <2>3, <2>4
  <1>7. ASSUME s.type = "Incoming"
        PROVE  /\ Len(new["transferAssignee"]) <= 1
               /\ IsThere(new) => ToSet(new["transferAssignee"]) # {}
    <2>1. Len(new["transferAssignee"]) <= 1
      <3>1. Len(new["transferAssignee"]) \in Nat /\ Len(data["transferAssignee"]) \in Nat
        BY <1>2, RowTables, TableDomain DEF IsDatabase, DataInv
      <3> QED BY <1>1, <1>7, <3>1 DEF DataInv, RemovesDevice
    <2>2. ASSUME IsThere(new) PROVE ToSet(new["transferAssignee"]) # {}
      <3>1. IsThere(data) /\ Has(new, WhereGroup(Group))
        BY <1>1, <2>2, HasGroup DEF IsThere, RemovesDevice
      <3>2. PICK a \in ToSet(data["transferAssignee"]) : a.groupId = Group
        BY <1>7, <3>1 DEF DataInv, IsAssignee
      <3>3. Has(data, AssigneesOf(Group))
        BY <3>2, HasGroup
      <3>4. Has(new, AssigneesOf(Group))
        BY <1>1, <3>1, <3>3 DEF RemovesDevice
      <3> QED BY <3>4, HasGroup
    <2> QED BY <2>1, <2>2
  <1>8. DataInv(new, lost, s)
    BY <1>2, <1>3, <1>4, <1>5, <1>6, <1>7 DEF DataInv
  <1> QED
    BY <1>8 DEF new

\* A share may come back without its device.
LEMMA NewAssigneeKeepsRows ==
  ASSUME NEW data, NEW lost, NEW s, DataInv(data, lost, s), s.type # "Incoming", NEW d \in Peer
  PROVE  DataInv(Insert(data, "transferAssignee", AssigneeRow(d)),
                 IF IsStored(data, d) THEN lost ELSE lost \cup {d}, s)
  <1> DEFINE new  == Insert(data, "transferAssignee", AssigneeRow(d))
             more == IF IsStored(data, d) THEN lost ELSE lost \cup {d}
  <1>1. /\ ChangesOnly(new, data, {"transferAssignee"})
        /\ ToSet(new["transferAssignee"]) = Added(data["transferAssignee"], AssigneeRow(d))
    BY RowTables, InsertAddsRow DEF DataInv
  <1> HIDE DEF new
  <1>2. IsAssignee(AssigneeRow(d), s) /\ AssigneeRow(d).deviceId = d
    BY DEF AssigneeRow, IsAssignee
  <1>3. /\ new["devices"] = data["devices"] /\ new["transfer"] = data["transfer"] /\ IsDatabase(new)
    BY <1>1, RowTables DEF ChangesOnly
  <1>4. /\ \A e : IsStored(data, e) <=> IsStored(new, e)
        /\ \A e : IsAssigned(data, e) => IsAssigned(new, e)
    BY <1>1, <1>3 DEF IsStored, IsAssigned, Added
  <1>5. \A a \in ToSet(new["transferAssignee"]) :
          IsAssignee(a, s) /\ (IsStored(new, a.deviceId) \/ a.deviceId \in more)
    BY <1>1, <1>2, <1>4 DEF DataInv, Added
  <1>6. DataInv(new, more, s)
    BY <1>3, <1>4, <1>5 DEF DataInv
  <1> QED
    BY <1>6 DEF new

LEMMA NewRowsKeepRows ==
  ASSUME NEW data, NEW lost, NEW s, DataInv(data, lost, s), s.type # "Incoming",
         NEW row, IsObject(row, s)
  PROVE  DataInv(Insert(data, "transfer", row),
                 IF IsAssigned(data, row.deviceId) THEN lost ELSE lost \cup {row.deviceId}, s)
  <1> DEFINE new  == Insert(data, "transfer", row)
             more == IF IsAssigned(data, row.deviceId) THEN lost ELSE lost \cup {row.deviceId}
  <1>1. /\ ChangesOnly(new, data, {"transfer"})
        /\ ToSet(new["transfer"]) = Added(data["transfer"], row)
    BY RowTables, InsertAddsRow DEF DataInv
  <1> HIDE DEF new
  <1>3. /\ new["devices"] = data["devices"] /\ new["transferAssignee"] = data["transferAssignee"] /\ IsDatabase(new)
    BY <1>1, RowTables DEF ChangesOnly
  <1>4. /\ \A e : IsStored(data, e) <=> IsStored(new, e)
        /\ \A e : IsAssigned(data, e) <=> IsAssigned(new, e)
    BY <1>3 DEF IsStored, IsAssigned
  <1>5. \A r \in ToSet(new["transfer"]) :
          IsObject(r, s) /\ (IsAssigned(new, r.deviceId) \/ r.deviceId \in more)
    BY <1>1, <1>4 DEF DataInv, Added
  <1>6. DataInv(new, more, s)
    BY <1>3, <1>4, <1>5 DEF DataInv
  <1> QED
    BY <1>6 DEF new

-----------------------------------------------------------------------------
(* What is read of the tables *)

LEMMA KnownDevice ==
  ASSUME IsDatabase(db), ToSet(db["devices"]) \subseteq DeviceRows, NEW d
  PROVE  /\ IsKnown(d) <=> IsStored(db, d)
         /\ IsKnown(d) => /\ Device(d) \in ToSet(db["devices"]) /\ Device(d) \in DeviceRows
                          /\ Device(d).deviceId = d
  <1> DEFINE S == WhereDevice(d)
  <1>1. S.table = "devices" /\ IsTable(db["devices"])
    BY SelectedTables, RowTables DEF IsDatabase
  <1>2. \A row : Matches(row, S.where) <=> row.deviceId = d
    BY MatchesDevice
  <1>3. Has(db, S) <=> IsStored(db, d)
    BY HasShare DEF IsStored
  <1> HIDE DEF S
  <1>4. /\ Rows(db, S) = <<>> <=> ~Has(db, S)
        /\ Has(db, S) => Rows(db, S)[1] \in Matching(db[S.table], S.where)
    BY <1>1, RowsOfSelection
  <1>5. IsKnown(d) = (Rows(db, S) # <<>>) /\ Device(d) = Rows(db, S)[1]
    BY DEF IsKnown, Device, DevicesOf, S
  <1> QED
    BY <1>1, <1>2, <1>3, <1>4, <1>5 DEF Matching

\* All assignees are those of the one group.
LEMMA AssigneeRows ==
  ASSUME NEW data, NEW lost, NEW s, DataInv(data, lost, s)
  PROVE  /\ DOMAIN Assignees(data) = 1 .. Len(Assignees(data)) /\ Len(Assignees(data)) \in Nat
         /\ ToSet(Assignees(data)) = ToSet(data["transferAssignee"])
         /\ Len(Assignees(data)) <= Len(data["transferAssignee"])
         /\ Assignees(data) # <<>> <=> ToSet(data["transferAssignee"]) # {}
         /\ Assignees(data) # <<>> <=> Len(Assignees(data)) > 0
         /\ \A i \in DOMAIN Assignees(data) : IsAssignee(Assignees(data)[i], s)
  <1> DEFINE S == AssigneesOf(Group)
             T == data["transferAssignee"]
  <1>1. S.table = "transferAssignee" /\ IsTable(T)
    BY SelectedTables, RowTables DEF IsDatabase, DataInv
  <1>2. \A row : Matches(row, S.where) <=> row.groupId = Group
    BY MatchesGroup
  <1>3. \A a \in ToSet(T) : IsAssignee(a, s) /\ a.groupId = Group
    BY DEF DataInv, IsAssignee
  <1> HIDE DEF S
  <1>4. /\ IsTable(Rows(data, S)) /\ ToSet(Rows(data, S)) = Matching(data[S.table], S.where)
        /\ Len(Rows(data, S)) <= Len(data[S.table])
        /\ Rows(data, S) = <<>> <=> ~Has(data, S)
    BY <1>1, RowsOfSelection
  <1>5. Matching(T, S.where) = ToSet(T)
    BY <1>2, <1>3 DEF Matching
  <1>6. Rows(data, S) = Assignees(data)
    BY DEF Assignees, S
  <1>7. DOMAIN Assignees(data) = 1 .. Len(Assignees(data)) /\ Len(Assignees(data)) \in Nat
    BY <1>4, <1>6, TableDomain
  <1>8. ToSet(Assignees(data)) = ToSet(T) /\ Len(Assignees(data)) <= Len(T)
    BY <1>1, <1>4, <1>5, <1>6
  <1>9. Assignees(data) # <<>> <=> Len(Assignees(data)) > 0
    BY <1>4, <1>6 DEF IsTable
  <1>10. Assignees(data) # <<>> <=> ToSet(Assignees(data)) # {}
    BY <1>7, <1>9 DEF ToSet
  <1>11. \A i \in DOMAIN Assignees(data) : Assignees(data)[i] \in ToSet(T)
    BY <1>8 DEF ToSet
  <1> QED
    BY <1>3, <1>7, <1>8, <1>9, <1>10, <1>11

LEMMA SameAssignees ==
  ASSUME NEW a, NEW b, a["transferAssignee"] = b["transferAssignee"]
  PROVE  Assignees(a) = Assignees(b)
  BY SelectedTables DEF Assignees, Rows, AssigneesOf

LEMMA GroupIsThere == \A data : Has(data, WhereGroup(Group)) <=> IsThere(data)
  BY HasGroup DEF IsThere

\* The connections are in a table of their own.
LEMMA ConnectionsOnly ==
  ASSUME NEW old, IsDatabase(old), NEW d, NEW address
  PROVE  ChangesOnly(Connected(old, d, address), old, {"deviceConnection"})
  <1> DEFINE rest == IF d = Nobody THEN old ELSE ForgetConnection(old, d, "lan", address)
  <1>1. Connected(old, d, address) = RecordConnection(rest, d, "lan", address)
    BY DEF Connected
  <1>2. ChangesOnly(rest, old, {"deviceConnection"})
    BY ForgetsConnections DEF ChangesOnly
  <1> HIDE DEF rest
  <1>3. ChangesOnly(RecordConnection(rest, d, "lan", address), rest, {"deviceConnection"})
    BY <1>2, RecordsConnection DEF ChangesOnly
  <1> QED
    BY <1>1, <1>2, <1>3 DEF ChangesOnly

LEMMA WrittenAndConnected ==
  ASSUME NEW new, NEW mid, NEW old, NEW copy, DeviceWritten(mid, old, copy),
         ChangesOnly(new, mid, {"deviceConnection"})
  PROVE  DeviceWritten(new, old, copy)
  <1>1. new["devices"] = mid["devices"]
    BY RowTables DEF ChangesOnly
  <1> QED
    BY <1>1 DEF DeviceWritten, ChangesOnly

-----------------------------------------------------------------------------
(* The invariant of what is stored, copied and shown *)

DialogRows == [deviceId: Peer \cup {Nobody}, index: Nat]

\* Threads and windows hold copies of devices, and the tables are what DataInv says.
TypeInv ==
  /\ plan \in Situations
  /\ thread \in [Thread -> ThreadRows]
  /\ windows \in Seq(WindowRows)
  /\ signalled \in Seq(Peer)
  /\ DataInv(db, orphaned, plan)

\* The entry of the combo box is one it has.  Of a group that comes in the dialog shows everything,
\* or the one who sends it.
ShowsEntry(shown) ==
  /\ shown.index <= Len(Assignees(db))
  /\ shown.index > 0 => Len(Assignees(db)) > 1
  /\ plan.type = "Incoming" => shown.deviceId \in {Nobody, plan.assignees[1]}

DialogInv == dialog = <<>> \/ \E shown \in DialogRows : dialog = <<shown>> /\ ShowsEntry(shown)

\* The sender of a group that comes in is not removed from it.
RemoveInv ==
  \A i \in DOMAIN windows :
    plan.type = "Incoming" /\ windows[i].kind = "remove" => windows[i].copy.deviceId = Nobody

StoredInv == TypeInv /\ DialogInv /\ RemoveInv

LEMMA PlanStays == [DesktopNext]_desktopVars => plan' = plan
  BY DEF DesktopNext, Threads, DeviceWindows, TransferWindows, desktopVars, bounds, Click, Trouble,
         Connect, LookUp, StartLoad, LoadDevice, PublishLoaded, RestrictNew, RecordPeer, PublishText,
         FindShare, UpdateAdapter, TestActive, StartJob, AttachTask, DetachTask, AddAssignee, AddRows,
         RefuseShare, ToggleRestricted, OpenMenu, MenuRestrict, MenuTrust, MenuRemove, ShowBlocked,
         BlockedAllow, BlockedDeny, CloseBox, MainToggle, MainStart, ShowTransfer, CloseDialog,
         AssigneeChanged, DialogToggle, DialogRemove, ConfirmRemove, DialogRetry, DialogReselect

LEMMA UpdatedThread ==
  ASSUME NEW t \in ThreadRows, NEW p, NEW c, NEW a
  PROVE  /\ Updated(t, [pc |-> p]) = [pc |-> p, copy |-> t.copy, admitted |-> t.admitted]
         /\ Updated(t, [pc |-> p, copy |-> c]) = [pc |-> p, copy |-> c, admitted |-> t.admitted]
         /\ Updated(t, [pc |-> p, admitted |-> a]) = [pc |-> p, copy |-> t.copy, admitted |-> a]
         /\ Updated(t, [pc |-> p, copy |-> c, admitted |-> a]) = [pc |-> p, copy |-> c, admitted |-> a]
  <1>1. DOMAIN t = {"pc", "copy", "admitted"}
    BY DEF ThreadRows
  <1>2. Updated(t, [pc |-> p]) = [pc |-> p, copy |-> t.copy, admitted |-> t.admitted]
    <2>1. DOMAIN [pc |-> p] = {"pc"} /\ DOMAIN t \cup {"pc"} = {"pc", "copy", "admitted"}
      BY <1>1
    <2> QED BY <2>1 DEF Updated
  <1>3. Updated(t, [pc |-> p, copy |-> c]) = [pc |-> p, copy |-> c, admitted |-> t.admitted]
    <2>1. /\ DOMAIN [pc |-> p, copy |-> c] = {"pc", "copy"}
          /\ DOMAIN t \cup {"pc", "copy"} = {"pc", "copy", "admitted"}
      BY <1>1
    <2> QED BY <2>1 DEF Updated
  <1>4. Updated(t, [pc |-> p, admitted |-> a]) = [pc |-> p, copy |-> t.copy, admitted |-> a]
    <2>1. /\ DOMAIN [pc |-> p, admitted |-> a] = {"pc", "admitted"}
          /\ DOMAIN t \cup {"pc", "admitted"} = {"pc", "copy", "admitted"}
      BY <1>1
    <2> QED BY <2>1 DEF Updated
  <1>5. Updated(t, [pc |-> p, copy |-> c, admitted |-> a]) = [pc |-> p, copy |-> c, admitted |-> a]
    <2>1. /\ DOMAIN [pc |-> p, copy |-> c, admitted |-> a] = {"pc", "copy", "admitted"}
          /\ DOMAIN t \cup {"pc", "copy", "admitted"} = {"pc", "copy", "admitted"}
      BY <1>1
    <2> QED BY <2>1 DEF Updated
  <1> QED
    BY <1>2, <1>3, <1>4, <1>5

Row(p, c, a)     == [pc |-> p, copy |-> c, admitted |-> a]
Goes(k, p, c, a) == thread' = [thread EXCEPT ![k] = Row(p, c, a)]

LEMMA StepGoes ==
  ASSUME TypeInv, NEW k \in Thread, NEW p, NEW c, NEW a
  PROVE  /\ Step(k, [pc |-> p]) => Goes(k, p, thread[k].copy, thread[k].admitted)
         /\ Step(k, [pc |-> p, copy |-> c]) => Goes(k, p, c, thread[k].admitted)
         /\ Step(k, [pc |-> p, admitted |-> a]) => Goes(k, p, thread[k].copy, a)
         /\ Step(k, [pc |-> p, copy |-> c, admitted |-> a]) => Goes(k, p, c, a)
  <1>1. thread \in [Thread -> ThreadRows] /\ thread[k] \in ThreadRows
    BY DEF TypeInv
  <1>2. \A record : Step(k, record) => thread' = [thread EXCEPT ![k] = Updated(thread[k], record)]
    BY <1>1 DEF Step
  <1>3. /\ Updated(thread[k], [pc |-> p]) = Row(p, thread[k].copy, thread[k].admitted)
        /\ Updated(thread[k], [pc |-> p, copy |-> c]) = Row(p, c, thread[k].admitted)
        /\ Updated(thread[k], [pc |-> p, admitted |-> a]) = Row(p, thread[k].copy, a)
        /\ Updated(thread[k], [pc |-> p, copy |-> c, admitted |-> a]) = Row(p, c, a)
    BY <1>1, UpdatedThread DEF Row
  <1> QED
    BY <1>2, <1>3 DEF Goes

LEMMA ThreadFields ==
  ASSUME TypeInv, NEW k \in Thread
  PROVE  thread[k].pc \in Places /\ thread[k].copy \in DeviceRows /\ thread[k].admitted \in BOOLEAN
  BY DEF TypeInv, ThreadRows

LEMMA GoesIsTyped ==
  ASSUME TypeInv, NEW k \in Thread, NEW p \in Places, NEW c \in DeviceRows, NEW a \in BOOLEAN,
         Goes(k, p, c, a)
  PROVE  /\ thread' \in [Thread -> ThreadRows]
         /\ thread'[k] = Row(p, c, a)
         /\ \A j \in Thread : j # k => thread'[j] = thread[j]
  <1>1. Row(p, c, a) \in ThreadRows
    BY DEF Row, ThreadRows
  <1> QED
    BY <1>1 DEF TypeInv, Goes

LEMMA DeviceFields ==
  /\ UnknownDevice \in DeviceRows /\ UnknownDevice.deviceId = Nobody /\ ~UnknownDevice.isRestricted
  /\ \A d \in Peer : NewDevice(d) \in DeviceRows /\ NewDevice(d).deviceId = d /\ ~NewDevice(d).isRestricted
  /\ \A copy \in DeviceRows : /\ Restricted(copy) \in DeviceRows /\ Restricted(copy).deviceId = copy.deviceId
                              /\ Restricted(copy).isRestricted
  BY DEF UnknownDevice, NewDevice, DeviceRow, DeviceRows, Restricted

LEMMA OfPeer == TypeInv => \A k \in Thread : Of(k) \in Peer /\ Of(k) # Nobody
  BY SituationsAssumption DEF TypeInv, Of, Thread

Admits(d) == IsKnown(d) => ~Device(d).isRestricted

\* Where each step of a thread goes, and what it copies.
Follows(k) ==
  LET copy == thread[k].copy
      admitted == thread[k].admitted
  IN  /\ Connect(k) => Goes(k, IF Of(k) \in blocked THEN "over" ELSE "lookup", copy, admitted)
      /\ LookUp(k) => IF IsKnown(Of(k)) THEN Goes(k, "connect", Device(Of(k)), Admits(Of(k)))
                      ELSE Goes(k, "load", copy, Admits(Of(k)))
      /\ StartLoad(k) => Goes(k, "load", copy, admitted)
      /\ LoadDevice(k) =>
           \/ /\ Goes(k, "publish", IF IsKnown(Of(k)) THEN Device(Of(k)) ELSE NewDevice(Of(k)), admitted)
              /\ UNCHANGED trouble
           \/ /\ Goes(k, IF plan.threads[k].request = "load" THEN "over" ELSE "restrict", UnknownDevice, admitted)
              /\ Trouble /\ UNCHANGED mixed
      /\ PublishLoaded(k) => Goes(k, IF plan.threads[k].request = "load" THEN "over" ELSE "restrict", copy, admitted)
      /\ RestrictNew(k) => Goes(k, "connect", Restricted(copy), admitted)
      /\ RecordPeer(k) => \E p \in {"over", "text", "find"} : Goes(k, p, copy, admitted)
      /\ PublishText(k) => Goes(k, "over", copy, admitted)
      /\ FindShare(k) => \E p \in {"adapter", "over"} : Goes(k, p, copy, admitted)
      /\ UpdateAdapter(k) => Goes(k, "test", copy, admitted)
      /\ TestActive(k) => IF HasActive({Of(k)}) THEN Goes(k, "over", copy, admitted)
                          ELSE Goes(k, "start", copy, admitted)
      /\ StartJob(k) => Goes(k, "over", copy, admitted)

LEMMA ThreadSteps ==
  ASSUME TypeInv, NEW k \in Thread
  PROVE  Follows(k)
  <1> DEFINE copy == thread[k].copy
             admitted == thread[k].admitted
  <1> HIDE DEF copy, admitted
  <1>0. \A p, c, a :
          /\ Step(k, [pc |-> p]) => Goes(k, p, copy, admitted)
          /\ Step(k, [pc |-> p, copy |-> c]) => Goes(k, p, c, admitted)
          /\ Step(k, [pc |-> p, admitted |-> a]) => Goes(k, p, copy, a)
          /\ Step(k, [pc |-> p, copy |-> c, admitted |-> a]) => Goes(k, p, c, a)
    BY StepGoes DEF copy, admitted
  <1>1. Connect(k) => Goes(k, IF Of(k) \in blocked THEN "over" ELSE "lookup", copy, admitted)
    BY <1>0 DEF Connect
  <1>2. LookUp(k) => IF IsKnown(Of(k)) THEN Goes(k, "connect", Device(Of(k)), Admits(Of(k)))
                     ELSE Goes(k, "load", copy, Admits(Of(k)))
    BY <1>0 DEF LookUp, Admits
  <1>3. StartLoad(k) => Goes(k, "load", copy, admitted)
    BY <1>0 DEF StartLoad
  <1>4. LoadDevice(k) =>
          \/ /\ Goes(k, "publish", IF IsKnown(Of(k)) THEN Device(Of(k)) ELSE NewDevice(Of(k)), admitted)
             /\ UNCHANGED trouble
          \/ /\ Goes(k, IF plan.threads[k].request = "load" THEN "over" ELSE "restrict", UnknownDevice, admitted)
             /\ Trouble /\ UNCHANGED mixed
    BY <1>0 DEF LoadDevice, bounds
  <1>5. PublishLoaded(k) => Goes(k, IF plan.threads[k].request = "load" THEN "over" ELSE "restrict", copy, admitted)
    BY <1>0 DEF PublishLoaded
  <1>6. RestrictNew(k) => Goes(k, "connect", Restricted(copy), admitted)
    BY <1>0 DEF RestrictNew, copy
  <1>7. RecordPeer(k) => \E p \in {"over", "text", "find"} : Goes(k, p, copy, admitted)
    <2> SUFFICES ASSUME RecordPeer(k) PROVE \E p \in {"over", "text", "find"} : Step(k, [pc |-> p])
      BY <1>0
    <2> QED BY DEF RecordPeer
  <1>8. PublishText(k) => Goes(k, "over", copy, admitted)
    BY <1>0 DEF PublishText
  <1>9. FindShare(k) => \E p \in {"adapter", "over"} : Goes(k, p, copy, admitted)
    BY <1>0 DEF FindShare
  <1>10. UpdateAdapter(k) => Goes(k, "test", copy, admitted)
    BY <1>0 DEF UpdateAdapter
  <1>11. TestActive(k) => IF HasActive({Of(k)}) THEN Goes(k, "over", copy, admitted)
                          ELSE Goes(k, "start", copy, admitted)
    BY <1>0 DEF TestActive
  <1>12. StartJob(k) => Goes(k, "over", copy, admitted)
    BY <1>0 DEF StartJob
  <1> QED
    BY <1>1, <1>2, <1>3, <1>4, <1>5, <1>6, <1>7, <1>8, <1>9, <1>10, <1>11, <1>12 DEF copy, admitted, Follows

LEMMA ThreadsAreTyped ==
  ASSUME TypeInv, NEW k \in Thread, Threads(k)
  PROVE  thread' \in [Thread -> ThreadRows]
  <1>1. thread[k].pc \in Places /\ thread[k].copy \in DeviceRows /\ thread[k].admitted \in BOOLEAN
    BY ThreadFields
  <1>2. /\ NewDevice(Of(k)) \in DeviceRows /\ UnknownDevice \in DeviceRows
        /\ Restricted(thread[k].copy) \in DeviceRows
    BY <1>1, OfPeer, DeviceFields
  <1>3. IsKnown(Of(k)) => Device(Of(k)) \in DeviceRows
    BY KnownDevice DEF TypeInv, DataInv
  <1> DEFINE Typed == \E p \in Places, c \in DeviceRows, a \in BOOLEAN : Goes(k, p, c, a)
  <1>4. Follows(k)
    BY ThreadSteps
  <1>5. Admits(Of(k)) \in BOOLEAN
    BY DEF Admits
  <1>6. Connect(k) \/ StartLoad(k) \/ PublishLoaded(k) \/ PublishText(k) \/ UpdateAdapter(k) \/ StartJob(k)
          => \E p \in Places : Goes(k, p, thread[k].copy, thread[k].admitted)
    BY <1>1, <1>4 DEF Follows, Places
  <1>7. RecordPeer(k) \/ FindShare(k) \/ TestActive(k)
          => \E p \in Places : Goes(k, p, thread[k].copy, thread[k].admitted)
    BY <1>1, <1>4 DEF Follows, Places
  <1>8. LookUp(k) => Typed
    <2>1. LookUp(k) => IF IsKnown(Of(k)) THEN Goes(k, "connect", Device(Of(k)), Admits(Of(k)))
                       ELSE Goes(k, "load", thread[k].copy, Admits(Of(k)))
      BY <1>4 DEF Follows, Places
    <2> QED BY <1>1, <1>3, <1>5, <2>1 DEF Places
  <1>9. LoadDevice(k) => Typed
    <2>1. LoadDevice(k) =>
            \/ Goes(k, "publish", IF IsKnown(Of(k)) THEN Device(Of(k)) ELSE NewDevice(Of(k)), thread[k].admitted)
            \/ Goes(k, IF plan.threads[k].request = "load" THEN "over" ELSE "restrict", UnknownDevice, thread[k].admitted)
      BY <1>4 DEF Follows, Places
    <2> QED BY <1>1, <1>2, <1>3, <2>1 DEF Places
  <1>10. RestrictNew(k) => Typed
    BY <1>1, <1>2, <1>4 DEF Follows, Places
  <1>11. Typed
    BY <1>1, <1>6, <1>7, <1>8, <1>9, <1>10 DEF Threads
  <1> QED
    BY <1>11, GoesIsTyped

LEMMA TopWindow ==
  ASSUME windows \in Seq(WindowRows), windows # <<>>
  PROVE  /\ Last(windows) \in WindowRows /\ Last(windows) = windows[Len(windows)]
         /\ Len(windows) \in DOMAIN windows /\ DOMAIN windows = 1 .. Len(windows) /\ Len(windows) \in Nat
         /\ Front(windows) \in Seq(WindowRows)
         /\ DOMAIN Front(windows) = 1 .. Len(windows) - 1
         /\ \A i \in DOMAIN Front(windows) : Front(windows)[i] = windows[i]
  <1>1. Len(windows) \in Nat \ {0}
    BY EmptySeq, LenProperties
  <1>2. /\ Front(windows) = [i \in 1 .. Len(windows) - 1 |-> windows[i]]
        /\ Last(windows) = windows[Len(windows)]
    BY <1>1 DEF Front, Last
  <1> QED
    BY <1>1, <1>2

\* The fields of what is written of a copy.
LEMMA RewrittenCopies ==
  ASSUME NEW copy \in DeviceRows, NEW b \in BOOLEAN
  PROVE  /\ [copy EXCEPT !.isRestricted = b] \in DeviceRows
         /\ [copy EXCEPT !.isRestricted = b].deviceId = copy.deviceId
         /\ [copy EXCEPT !.isRestricted = b].isRestricted = b
         /\ [copy EXCEPT !.isTrusted = b] \in DeviceRows
         /\ [copy EXCEPT !.isTrusted = b].deviceId = copy.deviceId
         /\ [copy EXCEPT !.isTrusted = b].isRestricted = copy.isRestricted
  BY DEF DeviceRows

LEMMA WindowCopies ==
  ASSUME TypeInv, windows # <<>>
  PROVE  /\ Last(windows).copy \in DeviceRows
         /\ Last(windows).copy.isRestricted \in BOOLEAN /\ Last(windows).copy.isTrusted \in BOOLEAN
         /\ Last(windows).copy.deviceId \in Peer \cup {Nobody}
  BY TopWindow DEF TypeInv, WindowRows, DeviceRows

\* What the steps that write a device write.
LEMMA WritesOfThreads ==
  ASSUME TypeInv, NEW k \in Thread
  PROVE  /\ PublishLoaded(k) => DeviceWritten(db', db, thread[k].copy)
         /\ RestrictNew(k)   => DeviceWritten(db', db, Restricted(thread[k].copy))
  <1>1. /\ thread[k].copy \in DeviceRows /\ Restricted(thread[k].copy) \in DeviceRows
        /\ IsDatabase(db) /\ ToSet(db["devices"]) \subseteq DeviceRows
    BY ThreadFields, DeviceFields DEF TypeInv, DataInv
  <1>2. DeviceWritten(PublishDevice(thread[k].copy), db, thread[k].copy)
    BY <1>1, PublishDeviceWrites
  <1>3. DeviceWritten(PublishDevice(Restricted(thread[k].copy)), db, Restricted(thread[k].copy))
    BY <1>1, PublishDeviceWrites
  <1>4. ASSUME PublishLoaded(k) PROVE DeviceWritten(db', db, thread[k].copy)
    <2> DEFINE mid == PublishDevice(thread[k].copy)
    <2>1. db' = Connected(mid, Of(k), Of(k)) /\ IsDatabase(mid)
      BY <1>2, <1>4 DEF PublishLoaded, Changed, DeviceWritten, ChangesOnly
    <2> HIDE DEF mid
    <2>2. ChangesOnly(db', mid, {"deviceConnection"})
      BY <2>1, ConnectionsOnly
    <2>3. DeviceWritten(mid, db, thread[k].copy)
      BY <1>2 DEF mid
    <2> QED BY <2>2, <2>3, WrittenAndConnected
  <1>5. RestrictNew(k) => DeviceWritten(db', db, Restricted(thread[k].copy))
    BY <1>3 DEF RestrictNew, Changed
  <1> QED BY <1>4, <1>5

LEMMA WritesOfWindows ==
  ASSUME TypeInv
  PROVE  LET copy == Last(windows).copy
         IN  /\ \A d : ToggleRestricted(d) =>
                  DeviceWritten(db', db, [Device(d) EXCEPT !.isRestricted = ~Device(d).isRestricted])
             /\ MenuRestrict => DeviceWritten(db', db, [copy EXCEPT !.isRestricted = ~copy.isRestricted])
             /\ MenuTrust    => DeviceWritten(db', db, [copy EXCEPT !.isTrusted = ~copy.isTrusted])
             /\ BlockedAllow => DeviceWritten(db', db, [copy EXCEPT !.isRestricted = FALSE])
  <1> DEFINE copy == Last(windows).copy
  <1>0. IsDatabase(db) /\ ToSet(db["devices"]) \subseteq DeviceRows
    BY DEF TypeInv, DataInv
  <1>1. \A new \in DeviceRows : DeviceWritten(PublishDevice(new), db, new)
    BY <1>0, PublishDeviceWrites
  <1>2. windows # <<>> => copy \in DeviceRows /\ copy.isRestricted \in BOOLEAN /\ copy.isTrusted \in BOOLEAN
    BY WindowCopies
  <1>3. ASSUME NEW d, ToggleRestricted(d)
        PROVE  DeviceWritten(db', db, [Device(d) EXCEPT !.isRestricted = ~Device(d).isRestricted])
    <2>1. Device(d) \in DeviceRows
      BY <1>0, <1>3, KnownDevice DEF ToggleRestricted
    <2>2. [Device(d) EXCEPT !.isRestricted = ~Device(d).isRestricted] \in DeviceRows
      BY <2>1 DEF DeviceRows
    <2> QED BY <1>1, <1>3, <2>2 DEF ToggleRestricted, Changed
  <1> HIDE DEF copy
  <1>4. ASSUME MenuRestrict PROVE DeviceWritten(db', db, [copy EXCEPT !.isRestricted = ~copy.isRestricted])
    <2>1. copy \in DeviceRows /\ db' = PublishDevice([copy EXCEPT !.isRestricted = ~copy.isRestricted])
      BY <1>2, <1>4 DEF MenuRestrict, OnTop, Changed, copy
    <2>2. [copy EXCEPT !.isRestricted = ~copy.isRestricted] \in DeviceRows
      BY <2>1 DEF DeviceRows
    <2> QED BY <1>1, <2>1, <2>2
  <1>5. ASSUME MenuTrust PROVE DeviceWritten(db', db, [copy EXCEPT !.isTrusted = ~copy.isTrusted])
    <2>1. copy \in DeviceRows /\ db' = PublishDevice([copy EXCEPT !.isTrusted = ~copy.isTrusted])
      BY <1>2, <1>5 DEF MenuTrust, OnTop, Changed, copy
    <2>2. [copy EXCEPT !.isTrusted = ~copy.isTrusted] \in DeviceRows
      BY <2>1 DEF DeviceRows
    <2> QED BY <1>1, <2>1, <2>2
  <1>6. ASSUME BlockedAllow PROVE DeviceWritten(db', db, [copy EXCEPT !.isRestricted = FALSE])
    <2>1. copy \in DeviceRows /\ db' = PublishDevice([copy EXCEPT !.isRestricted = FALSE])
      BY <1>2, <1>6 DEF BlockedAllow, OnTop, Changed, copy
    <2>2. [copy EXCEPT !.isRestricted = FALSE] \in DeviceRows
      BY <2>1 DEF DeviceRows
    <2> QED BY <1>1, <2>1, <2>2
  <1> QED BY <1>3, <1>4, <1>5, <1>6 DEF copy

\* The dialog while the tables change.
LEMMA DialogKept ==
  ASSUME TypeInv, DialogInv, plan' = plan, NEW new, NEW table, Changed(new, table), NEW lost, DataInv(new, lost, plan),
         \/ table = "transferAssignee"
         \/ ~IsThere(new)
         \/ new["transferAssignee"] = db["transferAssignee"]
  PROVE  DialogInv'
  <1>1. db' = new /\ dialog' = IF IsThere(new) THEN FirstEntry(table) ELSE <<>>
    BY GroupIsThere DEF Changed
  <1>2. Len(Assignees(new)) \in Nat
    BY AssigneeRows
  <1>3. CASE dialog' = <<>>
    BY <1>3 DEF DialogInv
  <1>4. CASE dialog' # <<>>
    <2>1. IsThere(new) /\ dialog' = FirstEntry(table)
      BY <1>1, <1>4
    <2>2. dialog # <<>>
      BY <1>4, <2>1 DEF FirstEntry
    <2>3. PICK shown \in DialogRows : dialog = <<shown>> /\ ShowsEntry(shown)
      BY <2>2 DEF DialogInv
    <2>4. CASE table = "transferAssignee"
      <3>1. [shown EXCEPT !.index = 0] \in DialogRows /\ [shown EXCEPT !.index = 0].index = 0
            /\ [shown EXCEPT !.index = 0].deviceId = shown.deviceId
        BY DEF DialogRows
      <3>2. dialog' = <<[shown EXCEPT !.index = 0]>>
        BY <2>1, <2>2, <2>3, <2>4 DEF FirstEntry
      <3>3. ShowsEntry([shown EXCEPT !.index = 0])'
        BY <1>1, <1>2, <2>3, <3>1 DEF ShowsEntry
      <3> QED BY <3>1, <3>2, <3>3 DEF DialogInv
    <2>5. CASE table # "transferAssignee"
      <3>1. dialog' = <<shown>>
        BY <2>1, <2>3, <2>5 DEF FirstEntry
      <3>2. Assignees(new) = Assignees(db)
        BY <2>1, <2>5, SameAssignees
      <3>3. ShowsEntry(shown)'
        BY <1>1, <2>3, <3>2 DEF ShowsEntry
      <3> QED BY <3>1, <3>3 DEF DialogInv
    <2> QED BY <2>4, <2>5
  <1> QED BY <1>3, <1>4

\* The entries of the combo box.
LEMMA Entries ==
  ASSUME TypeInv
  PROVE  /\ DOMAIN ComboBox = 1 .. Len(ComboBox)
         /\ \A i \in DOMAIN ComboBox : ComboBox[i] \in Peer \cup {Nobody}
         /\ Len(Assignees(db)) > 1 =>
              /\ Len(ComboBox) = Len(Assignees(db)) + 1 /\ ComboBox[1] = Nobody
              /\ \A i \in 1 .. Len(Assignees(db)) : ComboBox[i + 1] = Assignees(db)[i].deviceId
         /\ Len(Assignees(db)) <= 1 =>
              /\ Len(ComboBox) = Len(Assignees(db))
              /\ \A i \in 1 .. Len(Assignees(db)) : ComboBox[i] = Assignees(db)[i].deviceId
  <1> DEFINE n == Len(Assignees(db))
             assigned == [i \in DOMAIN Assignees(db) |-> Assignees(db)[i].deviceId]
  <1>1. /\ DOMAIN Assignees(db) = 1 .. n /\ n \in Nat
        /\ \A i \in DOMAIN Assignees(db) : IsAssignee(Assignees(db)[i], plan)
    BY AssigneeRows DEF TypeInv
  <1>2. \A i \in 1 .. n : Assignees(db)[i].deviceId \in Peer
    BY <1>1 DEF IsAssignee
  <1>3. ComboBox = IF Len(assigned) > 1 THEN <<Nobody>> \o assigned ELSE assigned
    BY DEF ComboBox
  <1>4. assigned = [i \in 1 .. n |-> Assignees(db)[i].deviceId]
    BY <1>1
  <1> HIDE DEF assigned
  <1>5. assigned \in Seq(Peer) /\ Len(assigned) = n /\ \A i \in 1 .. n : assigned[i] = Assignees(db)[i].deviceId
    <2>1. assigned \in [1 .. n -> Peer]
      BY <1>2, <1>4
    <2> QED BY <1>1, <1>4, <2>1
  <1> HIDE DEF n
  <1>6. CASE n > 1
    <2>1. ComboBox = <<Nobody>> \o assigned
      BY <1>3, <1>5, <1>6
    <2>2. /\ Len(ComboBox) = n + 1 /\ ComboBox[1] = Nobody /\ DOMAIN ComboBox = 1 .. n + 1
          /\ \A i \in 1 .. n : ComboBox[i + 1] = assigned[i]
      BY <1>1, <1>5, <2>1
    <2>3. \A i \in 2 .. n + 1 : ComboBox[i] \in Peer
      <3>1. \A i \in 2 .. n + 1 : i - 1 \in 1 .. n /\ i = (i - 1) + 1
        BY <1>1
      <3> QED BY <1>2, <1>5, <2>2, <3>1
    <2>4. \A i \in DOMAIN ComboBox : ComboBox[i] \in Peer \cup {Nobody}
      <3>1. \A i \in 1 .. n + 1 : i = 1 \/ i \in 2 .. n + 1
        BY <1>1
      <3> QED BY <2>2, <2>3, <3>1
    <2>5. \A i \in 1 .. n : ComboBox[i + 1] = Assignees(db)[i].deviceId
      BY <1>5, <2>2
    <2> QED BY <1>6, <2>2, <2>4, <2>5 DEF n
  <1>7. CASE ~(n > 1)
    BY <1>1, <1>2, <1>3, <1>5, <1>7 DEF n
  <1> QED BY <1>6, <1>7

\* Who is about to be removed is an assignee, but never the sender of a group that comes in.
LEMMA ChosenToRemove ==
  ASSUME StoredInv, dialog # <<>>
  PROVE  LET chosen == IF dialog[1].index > 0 /\ ~HasIncoming THEN ComboBox[dialog[1].index + 1] ELSE Nobody
         IN  chosen \in Peer \cup {Nobody} /\ (plan.type = "Incoming" => chosen = Nobody)
  <1>1. PICK shown \in DialogRows : dialog = <<shown>> /\ ShowsEntry(shown)
    BY DEF StoredInv, DialogInv
  <1> DEFINE n == Len(Assignees(db))
  <1>2. dialog[1] = shown /\ shown.index \in Nat /\ shown.index <= n /\ (shown.index > 0 => n > 1) /\ n \in Nat
    BY <1>1, AssigneeRows DEF DialogRows, ShowsEntry, StoredInv, TypeInv
  <1>3. shown.index > 0 => ComboBox[shown.index + 1] \in Peer \cup {Nobody}
    <2>1. /\ DOMAIN ComboBox = 1 .. Len(ComboBox) /\ (n > 1 => Len(ComboBox) = n + 1)
          /\ \A i \in DOMAIN ComboBox : ComboBox[i] \in Peer \cup {Nobody}
      BY Entries DEF StoredInv
    <2>2. shown.index > 0 => shown.index + 1 \in DOMAIN ComboBox
      <3> HIDE DEF n
      <3>1. ASSUME shown.index > 0 PROVE shown.index + 1 \in 1 .. n + 1
        BY <1>2
      <3> QED BY <1>2, <2>1, <3>1
    <2> QED BY <2>1, <2>2
  <1>4. plan.type = "Incoming" => n <= 1
    <2>1. IsTable(db["transferAssignee"]) /\ n <= Len(db["transferAssignee"])
      BY AssigneeRows, RowTables DEF StoredInv, TypeInv, DataInv, IsDatabase
    <2>2. Len(db["transferAssignee"]) \in Nat
      BY <2>1, TableDomain
    <2> QED BY <1>2, <2>1, <2>2 DEF StoredInv, TypeInv, DataInv
  <1> QED
    BY <1>2, <1>3, <1>4

LEMMA ClosedWindow ==
  ASSUME TypeInv, RemoveInv, plan' = plan, windows # <<>>, Close
  PROVE  windows' \in Seq(WindowRows) /\ RemoveInv'
  <1>1. /\ windows' = Front(windows) /\ Front(windows) \in Seq(WindowRows)
        /\ \A i \in DOMAIN Front(windows) : i \in DOMAIN windows /\ Front(windows)[i] = windows[i]
    BY TopWindow DEF TypeInv, Close
  <1> QED
    BY <1>1 DEF RemoveInv

LEMMA WindowsStep ==
  ASSUME StoredInv, [DesktopNext]_desktopVars
  PROVE  windows' \in Seq(WindowRows) /\ signalled' \in Seq(Peer) /\ RemoveInv'
  <1>0. /\ windows \in Seq(WindowRows) /\ signalled \in Seq(Peer) /\ plan' = plan /\ TypeInv /\ RemoveInv
        /\ IsDatabase(db) /\ ToSet(db["devices"]) \subseteq DeviceRows
    BY PlanStays DEF StoredInv, TypeInv, DataInv
  <1>1. ASSUME UNCHANGED <<windows, signalled>> PROVE windows' \in Seq(WindowRows) /\ signalled' \in Seq(Peer) /\ RemoveInv'
    BY <1>0, <1>1 DEF RemoveInv
  <1>2. ASSUME NEW k \in Thread, RecordPeer(k) PROVE windows' \in Seq(WindowRows) /\ signalled' \in Seq(Peer) /\ RemoveInv'
    <2>1. windows' = windows /\ (signalled' = signalled \/ signalled' = Append(signalled, Of(k)))
      BY <1>2 DEF RecordPeer
    <2>2. Append(signalled, Of(k)) \in Seq(Peer)
      BY <1>0, OfPeer
    <2> QED BY <1>0, <2>1, <2>2 DEF RemoveInv
  <1>3. ASSUME NEW d, OpenMenu(d) PROVE windows' \in Seq(WindowRows) /\ signalled' \in Seq(Peer) /\ RemoveInv'
    <2> DEFINE w == [kind |-> "menu", copy |-> Device(d)]
    <2>1. w \in WindowRows
      BY <1>0, <1>3, KnownDevice DEF OpenMenu, WindowRows
    <2>2. windows' = <<w>> /\ signalled' = signalled
      BY <1>3 DEF OpenMenu
    <2> QED BY <1>0, <2>1, <2>2 DEF RemoveInv
  <1>4. ASSUME ShowBlocked PROVE windows' \in Seq(WindowRows) /\ signalled' \in Seq(Peer) /\ RemoveInv'
    <2> DEFINE w == [kind |-> "blocked", copy |-> Device(Head(signalled))]
    <2>1. signalled' \in Seq(Peer)
      BY <1>0, <1>4 DEF ShowBlocked
    <2>2. windows' = windows \/ (IsKnown(Head(signalled)) /\ windows' = Append(windows, w))
      BY <1>4 DEF ShowBlocked
    <2>3. IsKnown(Head(signalled)) => w \in WindowRows /\ w.kind = "blocked"
      BY <1>0, KnownDevice DEF WindowRows
    <2> HIDE DEF w
    <2>4. CASE windows' = windows
      BY <1>0, <2>1, <2>4 DEF RemoveInv
    <2>5. CASE w \in WindowRows /\ windows' = Append(windows, w)
      <3>1. /\ windows' \in Seq(WindowRows) /\ DOMAIN windows' = 1 .. Len(windows) + 1 /\ Len(windows) \in Nat
            /\ DOMAIN windows = 1 .. Len(windows)
            /\ \A i \in 1 .. Len(windows) : windows'[i] = windows[i]
            /\ windows'[Len(windows) + 1] = w
        BY <1>0, <2>5
      <3>2. \A i \in DOMAIN windows' : i \in DOMAIN windows \/ windows'[i].kind = "blocked"
        <4>1. \A i \in DOMAIN windows' : i \in DOMAIN windows \/ i = Len(windows) + 1
          BY <3>1
        <4>2. w.kind = "blocked"
          BY DEF w
        <4> QED BY <3>1, <4>1, <4>2
      <3> QED BY <1>0, <2>1, <3>1, <3>2 DEF RemoveInv
    <2> QED BY <2>2, <2>3, <2>4, <2>5
  <1>5. ASSUME MenuRestrict \/ MenuTrust \/ MenuRemove \/ BlockedAllow \/ BlockedDeny \/ CloseBox \/ ConfirmRemove
        PROVE  windows' \in Seq(WindowRows) /\ signalled' \in Seq(Peer) /\ RemoveInv'
    <2>1. windows # <<>> /\ Close /\ signalled' = signalled
      BY <1>5 DEF MenuRestrict, MenuTrust, MenuRemove, BlockedAllow, BlockedDeny, CloseBox, ConfirmRemove, OnTop
    <2> QED BY <1>0, <2>1, ClosedWindow
  <1>6. ASSUME DialogRemove PROVE windows' \in Seq(WindowRows) /\ signalled' \in Seq(Peer) /\ RemoveInv'
    <2> DEFINE chosen == IF dialog[1].index > 0 /\ ~HasIncoming THEN ComboBox[dialog[1].index + 1] ELSE Nobody
               w == [kind |-> "remove", copy |-> NewDevice(chosen)]
    <2>1. windows' = <<w>> /\ signalled' = signalled /\ dialog # <<>>
      BY <1>6 DEF DialogRemove, InDialog
    <2>2. chosen \in Peer \cup {Nobody} /\ (plan.type = "Incoming" => chosen = Nobody)
      BY <2>1, ChosenToRemove
    <2> HIDE DEF chosen
    <2>3. w \in WindowRows /\ w.copy.deviceId = chosen
      BY <2>2 DEF WindowRows, NewDevice, DeviceRow, DeviceRows
    <2> HIDE DEF w
    <2> QED BY <1>0, <2>1, <2>2, <2>3 DEF RemoveInv
  <1>7. CASE UNCHANGED desktopVars
    BY <1>1, <1>7 DEF desktopVars, devices
  <1>8. ASSUME NEW k \in Thread, Threads(k), ~RecordPeer(k) PROVE UNCHANGED <<windows, signalled>>
    BY <1>8 DEF Threads, Connect, LookUp, StartLoad, LoadDevice, PublishLoaded, RestrictNew, PublishText,
         FindShare, UpdateAdapter, TestActive, StartJob, devices
  <1>9. ASSUME NEW d, AttachTask(d) \/ DetachTask(d) \/ AddAssignee(d) \/ AddRows(d) \/ RefuseShare(d) \/ ToggleRestricted(d)
        PROVE  UNCHANGED <<windows, signalled>>
    BY <1>9 DEF AttachTask, DetachTask, AddAssignee, AddRows, RefuseShare, ToggleRestricted, devices
  <1>10. ASSUME \/ MainToggle \/ MainStart \/ ShowTransfer \/ CloseDialog \/ DialogToggle \/ DialogRetry \/ DialogReselect
                \/ \E i \in 1 .. Cardinality(Peer) + 1 : AssigneeChanged(i)
         PROVE  UNCHANGED <<windows, signalled>>
    BY <1>10 DEF MainToggle, MainStart, ShowTransfer, CloseDialog, DialogToggle, DialogRetry, DialogReselect,
         AssigneeChanged, devices
  <1> QED
    BY <1>1, <1>2, <1>3, <1>4, <1>5, <1>6, <1>7, <1>8, <1>9, <1>10 DEF DesktopNext, DeviceWindows, TransferWindows

LEMMA RowsStep ==
  ASSUME StoredInv, [DesktopNext]_desktopVars
  PROVE  DataInv(db', orphaned', plan') /\ DialogInv'
  <1> DEFINE Kept == DataInv(db', orphaned', plan') /\ DialogInv'
  <1>0. /\ TypeInv /\ DialogInv /\ DataInv(db, orphaned, plan) /\ IsDatabase(db) /\ plan' = plan
        /\ ToSet(db["devices"]) \subseteq DeviceRows
    BY PlanStays DEF StoredInv, TypeInv, DataInv
  \* The changes of tables, one after another.
  <1>1. ASSUME UNCHANGED <<db, dialog, orphaned>> PROVE Kept
    BY <1>0, <1>1 DEF DialogInv, ShowsEntry
  <1>2. ASSUME NEW copy \in DeviceRows, DeviceWritten(db', db, copy), Changed(db', "devices"), orphaned' = orphaned PROVE Kept
    <2>1. DataInv(db', orphaned, plan)
      BY <1>0, <1>2, DevicesKeepRows
    <2>2. db'["transferAssignee"] = db["transferAssignee"]
      BY <1>2, RowTables DEF DeviceWritten, ChangesOnly
    <2> QED BY <1>0, <1>2, <2>1, <2>2, DialogKept
  <1>3. ASSUME ChangesOnly(db', db, {"deviceConnection", "clipboard"}), NEW table, Changed(db', table), orphaned' = orphaned PROVE Kept
    <2>1. DataInv(db', orphaned, plan)
      BY <1>0, <1>3, OtherTables
    <2>2. db'["transferAssignee"] = db["transferAssignee"]
      BY <1>3, RowTables DEF ChangesOnly
    <2> QED BY <1>0, <1>3, <2>1, <2>2, DialogKept
  <1>4. ASSUME DataInv(db', orphaned', plan), Changed(db', "transferAssignee") PROVE Kept
    BY <1>0, <1>4, DialogKept
  <1>5. ASSUME DataInv(db', orphaned', plan), NEW table, Changed(db', table),
               ~IsThere(db') \/ db'["transferAssignee"] = db["transferAssignee"]
        PROVE  Kept
    BY <1>0, <1>5, DialogKept
  \* The threads
  <1>6. ASSUME NEW k \in Thread, PublishLoaded(k) \/ RestrictNew(k) PROVE Kept
    <2>1. thread[k].copy \in DeviceRows /\ Restricted(thread[k].copy) \in DeviceRows
      BY <1>0, ThreadFields, DeviceFields
    <2>2. DeviceWritten(db', db, thread[k].copy) \/ DeviceWritten(db', db, Restricted(thread[k].copy))
      BY <1>0, <1>6, WritesOfThreads
    <2>3. Changed(db', "devices") /\ orphaned' = orphaned
      BY <1>6 DEF PublishLoaded, RestrictNew, Changed, history
    <2> HIDE DEF Kept
    <2> QED BY <1>2, <2>1, <2>2, <2>3
  <1>7. ASSUME NEW k \in Thread, RecordPeer(k) PROVE Kept
    <2>1. Changed(db', "deviceConnection") /\ orphaned' = orphaned
          /\ db' = Connected(db, thread[k].copy.deviceId, Of(k))
      BY <1>7 DEF RecordPeer, Changed, history
    <2>2. ChangesOnly(db', db, {"deviceConnection"})
      BY <1>0, <2>1, ConnectionsOnly
    <2>3. ChangesOnly(db', db, {"deviceConnection", "clipboard"})
      BY <2>2 DEF ChangesOnly
    <2> HIDE DEF Kept
    <2> QED BY <1>3, <2>1, <2>3
  <1>8. ASSUME NEW k \in Thread, PublishText(k) PROVE Kept
    <2>1. PICK id \in {1, 2} : Changed(Publish(db, WhereText(id), [id |-> id]), "clipboard")
      BY <1>8 DEF PublishText
    <2> DEFINE S == WhereText(id)
               row == [id |-> id]
    <2>2. S.table = "clipboard" /\ "clipboard" \in Tables
      BY RowTables DEF WhereText
    <2>3. Changed(db', "clipboard") /\ orphaned' = orphaned /\ db' = Publish(db, S, row)
      BY <1>8, <2>1 DEF PublishText, Changed, history
    <2> HIDE DEF S, row, Kept
    <2>4. ChangesOnly(Publish(db, S, row), db, {S.table})
      BY <1>0, <2>2, PublishWritesRow
    <2>5. ChangesOnly(db', db, {"deviceConnection", "clipboard"})
      BY <2>2, <2>3, <2>4 DEF ChangesOnly
    <2> QED BY <1>3, <2>3, <2>5
  <1>9. ASSUME NEW k \in Thread, UpdateAdapter(k) PROVE Kept
    <2>1. /\ Changed(db', "transferAssignee") /\ orphaned' = orphaned
          /\ db' = Update(db, WhereAssignee(Group, Of(k)), [connectionAdapter |-> "lan"])
      BY <1>9 DEF UpdateAdapter, Changed, history
    <2>2. DataInv(db', orphaned, plan)
      BY <1>0, <2>1, AdapterKeepsRows
    <2> HIDE DEF Kept
    <2> QED BY <1>4, <2>1, <2>2
  <1>10. ASSUME NEW k \in Thread, \/ Connect(k) \/ LookUp(k) \/ StartLoad(k) \/ LoadDevice(k)
                                  \/ FindShare(k) \/ TestActive(k) \/ StartJob(k)
         PROVE  Kept
    <2>1. UNCHANGED <<db, dialog, orphaned>>
      BY <1>10 DEF Connect, LookUp, StartLoad, LoadDevice, FindShare, TestActive, StartJob, transfers, history
    <2> HIDE DEF Kept
    <2> QED BY <1>1, <2>1
  \* The windows of the devices
  <1>11. ASSUME NEW d \in Peer, ToggleRestricted(d) PROVE Kept
    <2> DEFINE new == [Device(d) EXCEPT !.isRestricted = ~Device(d).isRestricted]
    <2>1. new \in DeviceRows
      BY <1>0, <1>11, KnownDevice DEF ToggleRestricted, DeviceRows
    <2>2. DeviceWritten(db', db, new)
      BY <1>0, <1>11, WritesOfWindows
    <2>3. Changed(db', "devices") /\ orphaned' = orphaned
      BY <1>11 DEF ToggleRestricted, Changed
    <2> HIDE DEF Kept, new
    <2> QED BY <1>2, <2>1, <2>2, <2>3
  <1>12. ASSUME MenuRestrict \/ MenuTrust \/ BlockedAllow PROVE Kept
    <2> DEFINE copy == Last(windows).copy
    <2>1. windows # <<>>
      BY <1>12 DEF MenuRestrict, MenuTrust, BlockedAllow, OnTop
    <2>2. copy \in DeviceRows
      BY <1>0, <2>1, WindowCopies
    <2> HIDE DEF copy
    <2>3. /\ [copy EXCEPT !.isRestricted = ~copy.isRestricted] \in DeviceRows
          /\ [copy EXCEPT !.isTrusted = ~copy.isTrusted] \in DeviceRows
          /\ [copy EXCEPT !.isRestricted = FALSE] \in DeviceRows
      BY <2>2 DEF DeviceRows
    <2>4. \/ DeviceWritten(db', db, [copy EXCEPT !.isRestricted = ~copy.isRestricted])
          \/ DeviceWritten(db', db, [copy EXCEPT !.isTrusted = ~copy.isTrusted])
          \/ DeviceWritten(db', db, [copy EXCEPT !.isRestricted = FALSE])
      BY <1>0, <1>12, WritesOfWindows DEF copy
    <2>5. Changed(db', "devices") /\ orphaned' = orphaned
      BY <1>12 DEF MenuRestrict, MenuTrust, BlockedAllow, Changed, history
    <2> HIDE DEF Kept
    <2> QED BY <1>2, <2>3, <2>4, <2>5
  <1>13. ASSUME MenuRemove PROVE Kept
    <2>1. /\ Changed(db', "transferAssignee") /\ orphaned' = orphaned
          /\ db' = RemoveDevice(db, Last(windows).copy.deviceId)
      BY <1>13 DEF MenuRemove, Changed
    <2>2. DataInv(db', orphaned, plan)
      BY <1>0, <2>1, DeviceRemovalKeepsRows
    <2> HIDE DEF Kept
    <2> QED BY <1>4, <2>1, <2>2
  <1>14. ASSUME NEW d \in Peer, OpenMenu(d) PROVE Kept
    <2>1. UNCHANGED <<db, dialog, orphaned>>
      BY <1>14 DEF OpenMenu, transfers
    <2> HIDE DEF Kept
    <2> QED BY <1>1, <2>1
  <1>15. ASSUME ShowBlocked \/ BlockedDeny \/ CloseBox PROVE Kept
    <2>1. UNCHANGED <<db, dialog, orphaned>>
      BY <1>15 DEF ShowBlocked, BlockedDeny, CloseBox, transfers, history
    <2> HIDE DEF Kept
    <2> QED BY <1>1, <2>1
  \* The windows of the transfers
  <1>16. ASSUME MainToggle \/ MainStart \/ DialogToggle \/ DialogRemove PROVE Kept
    <2>1. UNCHANGED <<db, dialog, orphaned>>
      BY <1>16 DEF MainToggle, MainStart, DialogToggle, DialogRemove, transfers, history
    <2> HIDE DEF Kept
    <2> QED BY <1>1, <2>1
  <1>17. ASSUME ShowTransfer \/ CloseDialog PROVE Kept
    <2> DEFINE shown == [deviceId |-> Nobody, index |-> 0]
    <2>1. /\ db' = db /\ orphaned' = orphaned
          /\ dialog' = <<>> \/ dialog' = <<shown>>
      BY <1>17 DEF ShowTransfer, CloseDialog, history
    <2>2. shown \in DialogRows /\ shown.index = 0 /\ shown.deviceId = Nobody
      BY DEF DialogRows
    <2>3. Len(Assignees(db)) \in Nat
      BY <1>0, AssigneeRows
    <2> HIDE DEF shown
    <2>4. ShowsEntry(shown)'
      BY <1>0, <2>1, <2>2, <2>3 DEF ShowsEntry
    <2> QED BY <1>0, <2>1, <2>2, <2>4 DEF DialogInv
  <1>18. ASSUME NEW i, AssigneeChanged(i) PROVE Kept
    <2> DEFINE shown == [deviceId |-> ComboBox[i], index |-> i - 1]
               n == Len(Assignees(db))
    <2>1. db' = db /\ orphaned' = orphaned /\ dialog' = <<shown>> /\ i \in DOMAIN ComboBox
      BY <1>18 DEF AssigneeChanged, history
    <2>2. /\ DOMAIN ComboBox = 1 .. Len(ComboBox) /\ ComboBox[i] \in Peer \cup {Nobody}
          /\ n > 1 => Len(ComboBox) = n + 1
          /\ n <= 1 => Len(ComboBox) = n /\ \A j \in 1 .. n : ComboBox[j] = Assignees(db)[j].deviceId
      BY <1>0, <2>1, Entries
    <2>3. /\ n \in Nat /\ DOMAIN Assignees(db) = 1 .. n
          /\ \A j \in 1 .. n : IsAssignee(Assignees(db)[j], plan)
          /\ n <= Len(db["transferAssignee"])
      BY <1>0, AssigneeRows
    <2>4. plan.type = "Incoming" => n <= 1
      <3>1. Len(db["transferAssignee"]) \in Nat
        BY <1>0, RowTables, TableDomain DEF IsDatabase
      <3> QED BY <1>0, <2>3, <3>1 DEF DataInv
    <2> HIDE DEF n
    <2>5. i \in Nat \ {0} /\ i - 1 \in Nat /\ i - 1 <= n /\ (i - 1 > 0 => n > 1)
      <3>1. i \in 1 .. Len(ComboBox)
        BY <2>1, <2>2
      <3>2. CASE n > 1
        BY <2>2, <2>3, <3>1, <3>2
      <3>3. CASE ~(n > 1)
        <4>1. n <= 1
          BY <2>3, <3>3
        <4>2. Len(ComboBox) = n
          BY <2>2, <4>1
        <4> QED BY <2>3, <3>1, <4>1, <4>2
      <3> QED BY <3>2, <3>3
    <2>6. plan.type = "Incoming" => ComboBox[i] = plan.assignees[1]
      BY <2>1, <2>2, <2>3, <2>4 DEF IsAssignee
    <2>7. shown \in DialogRows /\ shown.index = i - 1 /\ shown.deviceId = ComboBox[i]
      BY <2>2, <2>5 DEF DialogRows
    <2> HIDE DEF shown
    <2>8. PICK entry \in DialogRows : entry = shown
      BY <2>7
    <2>9. ShowsEntry(entry)'
      BY <1>0, <2>1, <2>5, <2>6, <2>7, <2>8 DEF ShowsEntry, n
    <2> QED BY <1>0, <2>1, <2>8, <2>9 DEF DialogInv
  <1>19. ASSUME ConfirmRemove PROVE Kept
    <2> DEFINE chosen == Last(windows).copy.deviceId
    <2>1. /\ windows # <<>> /\ Last(windows).kind = "remove" /\ orphaned' = orphaned
          /\ IF chosen # Nobody THEN Changed(db', "transferAssignee") /\ db' = RemoveAssignee(db, Group, chosen)
             ELSE Changed(db', "transferGroup") /\ db' = RemoveGroup(db, Group)
      BY <1>19 DEF ConfirmRemove, Changed, OnTop, history
    <2> HIDE DEF Kept
    <2>2. CASE chosen # Nobody
      <3>1. plan.type # "Incoming"
        BY <2>1, <2>2, TopWindow DEF StoredInv, TypeInv, RemoveInv
      <3>2. DataInv(db', orphaned, plan)
        BY <1>0, <2>1, <2>2, <3>1, ShareRemovalKeepsRows
      <3> QED BY <1>4, <2>1, <2>2, <3>2
    <2>3. CASE chosen = Nobody
      <3>1. DataInv(db', orphaned, plan) /\ ~IsThere(db')
        BY <1>0, <2>1, <2>3, GroupRemovalKeepsRows
      <3> QED BY <1>5, <2>1, <2>3, <3>1
    <2> QED BY <2>2, <2>3
  <1>20. ASSUME DialogRetry PROVE Kept
    <2>1. /\ Changed(db', "transfer") /\ orphaned' = orphaned
          /\ db' = Update(db, [table |-> "transfer", where |-> [groupId |-> Group, flag |-> "Interrupted"]],
                          [flag |-> "Pending"])
      BY <1>20 DEF DialogRetry, Changed, history
    <2>2. DataInv(db', orphaned, plan)
      BY <1>0, <2>1, FlagsKeepRows
    <2>3. db'["transferAssignee"] = db["transferAssignee"]
      BY <2>1 DEF Update
    <2> HIDE DEF Kept
    <2> QED BY <1>5, <2>1, <2>2, <2>3
  <1>21. ASSUME DialogReselect PROVE Kept
    <2>1. PICK c \in ToSet(Rows(db, ConnectionsOf(FirstAssignee))) :
            Changed(Update(db, WhereAssignee(Group, FirstAssignee), [connectionAdapter |-> c.adapterName]),
                    "transferAssignee")
      BY <1>21 DEF DialogReselect
    <2>2. /\ Changed(db', "transferAssignee") /\ orphaned' = orphaned
          /\ db' = Update(db, WhereAssignee(Group, FirstAssignee), [connectionAdapter |-> c.adapterName])
      BY <1>21, <2>1 DEF DialogReselect, Changed, history
    <2>3. DataInv(db', orphaned, plan)
      BY <1>0, <2>2, AdapterKeepsRows
    <2> HIDE DEF Kept
    <2> QED BY <1>4, <2>2, <2>3
  \* What the requests make of the group
  <1>22. ASSUME NEW d \in Peer, AddAssignee(d) PROVE Kept
    <2>1. /\ Changed(db', "transferAssignee") /\ db' = Insert(db, "transferAssignee", AssigneeRow(d))
          /\ orphaned' = (IF IsKnown(d) THEN orphaned ELSE orphaned \cup {d}) /\ d \in plan.added
      BY <1>22 DEF AddAssignee, Changed
    <2>2. plan.type # "Incoming"
      BY <1>0, <2>1, SituationsAssumption DEF TypeInv
    <2>3. IsKnown(d) <=> IsStored(db, d)
      BY <1>0, KnownDevice
    <2>4. DataInv(db', IF IsStored(db, d) THEN orphaned ELSE orphaned \cup {d}, plan)
      BY <1>0, <2>1, <2>2, NewAssigneeKeepsRows
    <2>5. DataInv(db', orphaned', plan)
      BY <2>1, <2>3, <2>4
    <2> HIDE DEF Kept
    <2> QED BY <1>4, <2>1, <2>5
  <1>23. ASSUME NEW d \in Peer, AddRows(d) PROVE Kept
    <2>1. /\ Changed(db', "transfer") /\ db' = Insert(db, "transfer", TransferRow(d))
          /\ orphaned' = (IF Has(db, WhereAssignee(Group, d)) THEN orphaned ELSE orphaned \cup {d}) /\ d \in plan.added
      BY <1>23 DEF AddRows, Changed
    <2>2. plan.type # "Incoming"
      BY <1>0, <2>1, SituationsAssumption DEF TypeInv
    <2>3. Has(db, WhereAssignee(Group, d)) <=> IsAssigned(db, d)
      BY <1>0, HasShare DEF IsAssigned, DataInv, IsAssignee
    <2>4. IsObject(TransferRow(d), plan) /\ TransferRow(d).deviceId = d
      BY DEF TransferRow, IsObject
    <2>5. DataInv(db', IF IsAssigned(db, d) THEN orphaned ELSE orphaned \cup {d}, plan)
      BY <1>0, <2>1, <2>2, <2>4, NewRowsKeepRows
    <2>6. DataInv(db', orphaned', plan)
      BY <2>1, <2>3, <2>5
    <2>7. db'["transferAssignee"] = db["transferAssignee"]
      BY <2>1 DEF Insert
    <2> HIDE DEF Kept
    <2> QED BY <1>5, <2>1, <2>6, <2>7
  <1>24. ASSUME NEW d \in Peer, RefuseShare(d) PROVE Kept
    <2>1. /\ Changed(db', "transferAssignee") /\ db' = RemoveAssignee(db, Group, d)
          /\ orphaned' = orphaned /\ plan.type = "Outgoing"
      BY <1>24 DEF RefuseShare, Changed, history
    <2>2. DataInv(db', orphaned', plan)
      BY <1>0, <2>1, ShareRemovalKeepsRows
    <2> HIDE DEF Kept
    <2> QED BY <1>4, <2>1, <2>2
  <1>25. ASSUME NEW d \in Peer, AttachTask(d) \/ DetachTask(d) PROVE Kept
    <2>1. UNCHANGED <<db, dialog, orphaned>>
      BY <1>25 DEF AttachTask, DetachTask, transfers, history
    <2> HIDE DEF Kept
    <2> QED BY <1>1, <2>1
  <1>26. ASSUME UNCHANGED desktopVars PROVE Kept
    <2>1. UNCHANGED <<db, dialog, orphaned>>
      BY <1>26 DEF desktopVars, transfers, history
    <2> HIDE DEF Kept
    <2> QED BY <1>1, <2>1
  <1> HIDE DEF Kept
  <1>27. ASSUME NEW k \in Thread, Threads(k) PROVE Kept
    BY <1>6, <1>7, <1>8, <1>9, <1>10, <1>27 DEF Threads
  <1>28. ASSUME DeviceWindows PROVE Kept
    BY <1>11, <1>12, <1>13, <1>14, <1>15, <1>28 DEF DeviceWindows
  <1>29. ASSUME TransferWindows PROVE Kept
    BY <1>16, <1>17, <1>18, <1>19, <1>20, <1>21, <1>29 DEF TransferWindows
  <1>30. Kept
    BY <1>22, <1>23, <1>24, <1>25, <1>26, <1>27, <1>28, <1>29 DEF DesktopNext
  <1> QED BY <1>30 DEF Kept

LEMMA InitStores == DesktopInit => StoredInv
  <1> SUFFICES ASSUME DesktopInit PROVE StoredInv
    OBVIOUS
  <1> DEFINE D == DOMAIN plan.known
             known == SetToSeq(D)
             n == Cardinality(D)
             A == plan.assignees
             devs == [i \in DOMAIN known |-> plan.known[known[i]]]
             conns == [i \in DOMAIN known |-> Connection(known[i])]
             groups == IF A = <<>> THEN <<>> ELSE <<[id |-> Group]>>
             shares == [i \in DOMAIN A |-> AssigneeRow(A[i])]
             rows == [i \in DOMAIN A |-> TransferRow(A[i])]
  <1>1. /\ plan \in Situations /\ IsFiniteSet(D) /\ D \subseteq Peer
        /\ \A d \in D : plan.known[d] \in [deviceId: {d}, isTrusted: BOOLEAN, isRestricted: BOOLEAN]
        /\ A \in Seq(D)
        /\ plan.type = "Incoming" => Len(A) <= 1
    BY SituationsAssumption DEF DesktopInit
  <1>2. /\ DOMAIN known = 1 .. n /\ n \in Nat
        /\ \A i \in 1 .. n : known[i] \in D
        /\ \A d \in D : \E i \in 1 .. n : known[i] = d
    BY <1>1, SequenceOfSet
  <1>3. /\ DOMAIN A = 1 .. Len(A) /\ Len(A) \in Nat /\ \A i \in 1 .. Len(A) : A[i] \in D
    BY <1>1, LenProperties, ElementOfSeq
  <1>4. db = [NewDatabase EXCEPT !["devices"] = devs, !["deviceConnection"] = conns, !["transferGroup"] = groups,
                                 !["transferAssignee"] = shares, !["transfer"] = rows]
    BY DEF DesktopInit
  <1>5. IsTable(devs) /\ Len(devs) = n /\ ToSet(devs) = {plan.known[known[i]] : i \in 1 .. n}
    <2>1. devs = [i \in 1 .. n |-> plan.known[known[i]]]
      BY <1>2
    <2> HIDE DEF known, n, D
    <2>2. DOMAIN devs = 1 .. n /\ devs = [i \in 1 .. n |-> devs[i]]
      BY <2>1
    <2> HIDE DEF devs
    <2>3. IsTable(devs) /\ Len(devs) = n /\ ToSet(devs) = {devs[i] : i \in 1 .. n}
      BY <1>2, <2>2, RowsAsFunction
    <2> QED BY <2>1, <2>3
  <1>6. IsTable(conns)
    <2>1. conns = [i \in 1 .. n |-> Connection(known[i])]
      BY <1>2
    <2> HIDE DEF known, n, D
    <2>2. DOMAIN conns = 1 .. n /\ conns = [i \in 1 .. n |-> conns[i]]
      BY <2>1
    <2> HIDE DEF conns
    <2> QED BY <1>2, <2>2, RowsAsFunction
  <1>7. IsTable(groups) /\ (A = <<>> => ToSet(groups) = {})
    <2>1. <<>> \in Seq({[id |-> Group]}) /\ <<[id |-> Group]>> \in Seq({[id |-> Group]})
      OBVIOUS
    <2>2. ToSet(<<>>) = {}
      BY DEF ToSet
    <2> QED BY <2>1, <2>2 DEF IsTable
  <1>8. IsTable(shares) /\ Len(shares) = Len(A) /\ ToSet(shares) = {AssigneeRow(A[i]) : i \in 1 .. Len(A)}
    <2>1. shares = [i \in 1 .. Len(A) |-> AssigneeRow(A[i])]
      BY <1>3
    <2> HIDE DEF A
    <2>2. DOMAIN shares = 1 .. Len(A) /\ shares = [i \in 1 .. Len(A) |-> shares[i]]
      BY <2>1
    <2> HIDE DEF shares
    <2>3. IsTable(shares) /\ Len(shares) = Len(A) /\ ToSet(shares) = {shares[i] : i \in 1 .. Len(A)}
      BY <1>3, <2>2, RowsAsFunction
    <2> QED BY <2>1, <2>3
  <1>9. IsTable(rows) /\ ToSet(rows) = {TransferRow(A[i]) : i \in 1 .. Len(A)}
    <2>1. rows = [i \in 1 .. Len(A) |-> TransferRow(A[i])]
      BY <1>3
    <2> HIDE DEF A
    <2>2. DOMAIN rows = 1 .. Len(A) /\ rows = [i \in 1 .. Len(A) |-> rows[i]]
      BY <2>1
    <2> HIDE DEF rows
    <2>3. IsTable(rows) /\ ToSet(rows) = {rows[i] : i \in 1 .. Len(A)}
      BY <1>3, <2>2, RowsAsFunction
    <2> QED BY <2>1, <2>3
  <1> HIDE DEF devs, conns, groups, shares, rows
  <1>10. IsDatabase(db)
    BY <1>4, <1>5, <1>6, <1>7, <1>8, <1>9, NewDatabaseIsOne, FilesIsNoTable DEF IsDatabase, NewDatabase
  <1>11. /\ db["devices"] = devs /\ db["transferAssignee"] = shares /\ db["transfer"] = rows
         /\ db["transferGroup"] = groups
    BY <1>4, RowTables DEF NewDatabase
  <1>12. /\ ToSet(db["devices"]) \subseteq DeviceRows
         /\ \A d \in D : IsStored(db, d)
    <2>1. \A d \in D : plan.known[d] \in DeviceRows /\ plan.known[d].deviceId = d
      BY <1>1 DEF DeviceRows
    <2> HIDE DEF D, known, n
    <2> QED BY <1>2, <1>5, <1>11, <2>1 DEF IsStored
  <1>13. \A a \in ToSet(shares) : IsAssignee(a, plan) /\ IsStored(db, a.deviceId)
    <2>1. ASSUME NEW i \in 1 .. Len(A) PROVE IsAssignee(AssigneeRow(A[i]), plan) /\ IsStored(db, AssigneeRow(A[i]).deviceId)
      <3>1. A[i] \in D /\ A[i] \in Peer /\ (plan.type = "Incoming" => i = 1)
        BY <1>1, <1>3
      <3> QED BY <1>12, <3>1 DEF IsAssignee, AssigneeRow
    <2> QED BY <1>8, <2>1
  <1>14. \A row \in ToSet(rows) : IsObject(row, plan) /\ IsAssigned(db, row.deviceId)
    <2>1. ASSUME NEW i \in 1 .. Len(A) PROVE IsObject(TransferRow(A[i]), plan) /\ IsAssigned(db, TransferRow(A[i]).deviceId)
      <3>1. AssigneeRow(A[i]) \in ToSet(db["transferAssignee"]) /\ AssigneeRow(A[i]).deviceId = A[i]
        BY <1>8, <1>11 DEF AssigneeRow
      <3>2. IsObject(TransferRow(A[i]), plan) /\ TransferRow(A[i]).deviceId = A[i]
        BY DEF IsObject, TransferRow
      <3> QED BY <3>1, <3>2 DEF IsAssigned
    <2> QED BY <1>9, <2>1
  <1>15. IsThere(db) => ToSet(shares) # {}
    <2>1. IsThere(db) => A # <<>>
      BY <1>7, <1>11 DEF IsThere
    <2>2. A # <<>> => 1 \in 1 .. Len(A)
      BY <1>1, <1>3, EmptySeq
    <2> QED BY <1>8, <2>1, <2>2
  <1>16. DataInv(db, orphaned, plan)
    BY <1>1, <1>8, <1>10, <1>11, <1>12, <1>13, <1>14, <1>15 DEF DataInv
  <1>17. thread \in [Thread -> ThreadRows]
    BY DeviceFields DEF DesktopInit, ThreadRows, Places
  <1> QED
    <2>1. windows = <<>> /\ signalled = <<>> /\ dialog = <<>>
      BY DEF DesktopInit
    <2>2. windows \in Seq(WindowRows) /\ signalled \in Seq(Peer) /\ DOMAIN windows = {}
      BY <2>1
    <2> QED BY <1>1, <1>16, <1>17, <2>1, <2>2 DEF StoredInv, TypeInv, DialogInv, RemoveInv

LEMMA NextStores == StoredInv /\ [DesktopNext]_desktopVars => StoredInv'
  <1> SUFFICES ASSUME StoredInv, [DesktopNext]_desktopVars PROVE StoredInv'
    OBVIOUS
  <1>1. plan' = plan /\ TypeInv
    BY PlanStays DEF StoredInv
  <1>2. windows' \in Seq(WindowRows) /\ signalled' \in Seq(Peer) /\ RemoveInv'
    BY WindowsStep
  <1>3. DataInv(db', orphaned', plan') /\ DialogInv'
    BY RowsStep
  <1>4. thread' \in [Thread -> ThreadRows]
    <2>1. ASSUME NEW k \in Thread, Threads(k) PROVE thread' \in [Thread -> ThreadRows]
      BY <1>1, <2>1, ThreadsAreTyped
    <2>2. ASSUME thread' = thread PROVE thread' \in [Thread -> ThreadRows]
      BY <1>1, <2>2 DEF TypeInv
    <2>3. (DesktopNext /\ ~\E k \in Thread : Threads(k)) \/ UNCHANGED desktopVars => thread' = thread
      BY DEF DesktopNext, DeviceWindows, TransferWindows, desktopVars, AttachTask, DetachTask, AddAssignee, AddRows,
             RefuseShare, ToggleRestricted, OpenMenu, MenuRestrict, MenuTrust, MenuRemove, ShowBlocked,
             BlockedAllow, BlockedDeny, CloseBox, MainToggle, MainStart, ShowTransfer, CloseDialog,
             AssigneeChanged, DialogToggle, DialogRemove, ConfirmRemove, DialogRetry, DialogReselect
    <2> QED BY <2>1, <2>2, <2>3
  <1> QED
    BY <1>1, <1>2, <1>3, <1>4 DEF StoredInv, TypeInv, Thread

\* What is stored fits together in every situation: threads, windows and tables have their types, a
\* share has a device and a row a share unless one was inserted for a device that had gone, an
\* incoming group has one assignee, and the entry of the dialog's combo box is one of its list
\* (AccessDatabase, ShowTransferDialog::updateAssignees).
THEOREM StoredInvariant == DesktopSpec => []StoredInv
  <1> QED
    BY InitStores, NextStores, PTL DEF DesktopSpec

\* Every assignee is a device of the table, every row belongs to an assignee, and a group that came
\* in has one, whatever is removed (NetworkDevice::onRemovingObject and the ones it calls), unless a
\* share was added for a device that had gone.
THEOREM RemovalsLeaveNothing == DesktopSpec => []SharesHaveDevices
  <1>1. StoredInv => SharesHaveDevices
    <2> SUFFICES ASSUME StoredInv PROVE SharesHaveDevices
      OBVIOUS
    <2>1. DataInv(db, orphaned, plan) /\ IsDatabase(db) /\ ToSet(db["devices"]) \subseteq DeviceRows
      BY DEF StoredInv, TypeInv, DataInv
    <2>2. ToSet(Assignees(db)) = ToSet(db["transferAssignee"]) /\ (Assignees(db) # <<>> <=> ToSet(db["transferAssignee"]) # {})
      BY <2>1, AssigneeRows
    <2>3. \A d : IsKnown(d) <=> IsStored(db, d)
      BY <2>1, KnownDevice
    <2>4. \A d : Has(db, WhereAssignee(Group, d)) <=> IsAssigned(db, d)
      BY <2>1, HasShare DEF IsAssigned, DataInv, IsAssignee
    <2> QED BY <2>1, <2>2, <2>3, <2>4, GroupIsThere DEF SharesHaveDevices, DataInv
  <1> QED BY <1>1, StoredInvariant, PTL

-----------------------------------------------------------------------------
(* The dialog *)

\* What is shown are rows of the table, of the device that is chosen.
LEMMA ShownAreRows ==
  ASSUME StoredInv
  PROVE  \A row \in ToSet(ShownRows) :
           /\ row \in ToSet(db["transfer"])
           /\ dialog[1].deviceId # Nobody => row.deviceId = dialog[1].deviceId
  <1> DEFINE d == dialog[1].deviceId
             All == [table |-> "transfer", where |-> [groupId |-> Group]]
             Share == ShareOf(Group, d)
  <1>1. IsTable(db["transfer"])
    BY RowTables DEF StoredInv, TypeInv, DataInv, IsDatabase
  <1>2. All.table = "transfer" /\ Share.table = "transfer"
    BY SelectedTables
  <1>3. \A row : Matches(row, Share.where) => row.deviceId = d
    BY MatchesShare
  <1>4. ShownRows = Rows(db, IF d = Nobody THEN All ELSE Share)
    BY DEF ShownRows
  <1> HIDE DEF d, All, Share
  <1>5. /\ ToSet(Rows(db, All)) = Matching(db["transfer"], All.where)
        /\ ToSet(Rows(db, Share)) = Matching(db["transfer"], Share.where)
    BY <1>1, <1>2, RowsOfSelection
  <1> QED
    BY <1>3, <1>4, <1>5 DEF Matching, d

LEMMA TheDialog ==
  ASSUME StoredInv, dialog # <<>>
  PROVE  /\ dialog[1] \in DialogRows /\ dialog = <<dialog[1]>>
         /\ ShowsEntry(dialog[1])
  BY DEF StoredInv, DialogInv

LEMMA OrphansStay == [DesktopNext]_desktopVars => orphaned \subseteq orphaned'
  BY DEF DesktopNext, Threads, DeviceWindows, TransferWindows, desktopVars, history,
         Connect, LookUp, StartLoad, LoadDevice, PublishLoaded, RestrictNew, RecordPeer, PublishText,
         FindShare, UpdateAdapter, TestActive, StartJob, AttachTask, DetachTask, AddAssignee, AddRows,
         RefuseShare, ToggleRestricted, OpenMenu, MenuRestrict, MenuTrust, MenuRemove, ShowBlocked,
         BlockedAllow, BlockedDeny, CloseBox, MainToggle, MainStart, ShowTransfer, CloseDialog,
         AssigneeChanged, DialogToggle, DialogRemove, ConfirmRemove, DialogRetry, DialogReselect

LEMMA OnlyDialogAsks == [DesktopNext]_desktopVars => job' = job \/ DialogToggle
  BY DEF DesktopNext, Threads, DeviceWindows, TransferWindows, desktopVars, transfers,
         Connect, LookUp, StartLoad, LoadDevice, PublishLoaded, RestrictNew, RecordPeer, PublishText,
         FindShare, UpdateAdapter, TestActive, StartJob, AttachTask, DetachTask, AddAssignee, AddRows,
         RefuseShare, ToggleRestricted, OpenMenu, MenuRestrict, MenuTrust, MenuRemove, ShowBlocked,
         BlockedAllow, BlockedDeny, CloseBox, MainToggle, MainStart, ShowTransfer, CloseDialog,
         AssigneeChanged, DialogRemove, ConfirmRemove, DialogRetry, DialogReselect

LEMMA NextReachesShown ==
  ASSUME StoredInv, JobReachesShown, [DesktopNext]_desktopVars
  PROVE  JobReachesShown'
  <1>1. orphaned \subseteq orphaned'
    BY OrphansStay
  <1>2. CASE job' = job
    BY <1>1, <1>2 DEF JobReachesShown
  <1>3. CASE job' # job /\ DialogToggle
    <2> DEFINE shown == dialog[1].deviceId
               at == dialog[1].index + 1
               to == IF at \in DOMAIN Assignees(db) THEN Assignees(db)[at].deviceId ELSE Nobody
    <2>1. /\ dialog # <<>> /\ HasOutgoing /\ shown # Nobody /\ orphaned' = orphaned
          /\ job' = <<[to |-> to, shown |-> shown, listed |-> Len(Assignees(db))]>>
      BY <1>3 DEF DialogToggle, InDialog
    <2>2. PICK row \in ToSet(db["transfer"]) : row.deviceId = shown
      BY <2>1, ShownAreRows DEF HasOutgoing
    <2>3. IsAssigned(db, shown) \/ shown \in orphaned
      BY <2>2 DEF StoredInv, TypeInv, DataInv
    <2>4. ASSUME Len(Assignees(db)) = 1, IsAssigned(db, shown) PROVE to = shown
      <3>1. dialog[1].index = 0
        <4>1. dialog[1].index \in Nat /\ ~(dialog[1].index > 0)
          BY <2>1, <2>4, TheDialog DEF DialogRows, ShowsEntry
        <4> QED BY <4>1
      <3>2. DOMAIN Assignees(db) = 1 .. 1 /\ ToSet(Assignees(db)) = ToSet(db["transferAssignee"])
        BY <2>4, AssigneeRows DEF StoredInv, TypeInv
      <3>3. Assignees(db)[1].deviceId = shown
        BY <2>4, <3>2 DEF IsAssigned, ToSet
      <3> QED BY <3>1, <3>2, <3>3
    <2> HIDE DEF shown, to, at
    <2>5. job'[1].listed = Len(Assignees(db)) /\ job'[1].to = to /\ job'[1].shown = shown
      BY <2>1
    <2> QED BY <2>1, <2>3, <2>4, <2>5 DEF JobReachesShown
  <1> QED BY <1>2, <1>3, OnlyDialogAsks

\* While one device is listed, the request to start goes to the device whose rows are shown,
\* although assignees come and go while the dialog is open; rows that were inserted for a device
\* that was no assignee any more are the exception (ShowTransferDialog::taskToggle).
THEOREM RequestsReachShown == DesktopSpec => []JobReachesShown
  <1>1. DesktopInit => JobReachesShown
    BY DEF DesktopInit, JobReachesShown
  <1>2. StoredInv /\ JobReachesShown /\ [DesktopNext]_desktopVars => JobReachesShown'
    BY NextReachesShown
  <1> QED BY <1>1, <1>2, StoredInvariant, PTL DEF DesktopSpec

-----------------------------------------------------------------------------
(* The clients *)

ClientRows == [starting: Nat, attached: Nat, interrupted: Nat]

Clients(d)    == client[d].starting + client[d].attached + client[d].interrupted
Decides(k, d) == Of(k) = d /\ thread[k].pc = "start"

\* One client of a device that is not doubled, or one thread that has decided to start it.
OneOf(d) ==
  /\ Clients(d) <= 1
  /\ \A k \in Thread : Decides(k, d) => Clients(d) = 0
  /\ \A j, k \in Thread : Decides(j, d) /\ Decides(k, d) => j = k

ClientsInv == client \in [Peer -> ClientRows] /\ \A d \in Peer \ doubled : OneOf(d)

LEMMA ClientFields ==
  ASSUME ClientsInv, NEW d \in Peer
  PROVE  /\ client[d].starting \in Nat /\ client[d].attached \in Nat /\ client[d].interrupted \in Nat
         /\ Clients(d) \in Nat
         /\ client[d] = [starting |-> client[d].starting, attached |-> client[d].attached,
                         interrupted |-> client[d].interrupted]
  BY DEF ClientsInv, ClientRows, Clients

\* Nothing is decided and nothing starts.
LEMMA OthersKeepClients ==
  ASSUME TypeInv, ClientsInv, plan' = plan, doubled \subseteq doubled',
         client' \in [Peer -> ClientRows], \A d \in Peer : Clients(d)' <= Clients(d),
         \A k \in Thread : thread'[k].pc = "start" => thread[k].pc = "start"
  PROVE  ClientsInv'
  <1> SUFFICES ASSUME NEW d \in Peer \ doubled' PROVE OneOf(d)'
    BY DEF ClientsInv
  <1>1. OneOf(d)
    BY DEF ClientsInv
  <1>2. Clients(d) \in Nat /\ Clients(d)' \in Nat
    <2>1. client'[d] \in ClientRows
      OBVIOUS
    <2>2. Clients(d)' \in Nat
      BY <2>1 DEF Clients, ClientRows
    <2> QED BY <2>2, ClientFields
  <1>3. Clients(d)' <= Clients(d)
    OBVIOUS
  <1>4. Thread' = Thread /\ \A k \in Thread : Decides(k, d)' => Decides(k, d)
    BY DEF Thread, Decides, Of
  <1> QED
    BY <1>1, <1>2, <1>3, <1>4 DEF OneOf

\* The main thread starts a client.
LEMMA StartKeepsClients ==
  ASSUME TypeInv, ClientsInv, plan' = plan, NEW d \in Peer, thread' = thread, StartTransfer(d),
         doubled \subseteq doubled', d \notin doubled' => ~HasActive({d}) /\ ~Decided(d)
  PROVE  ClientsInv'
  <1>1. client' = [client EXCEPT ![d].starting = client[d].starting + 1] /\ client \in [Peer -> ClientRows]
    BY DEF StartTransfer, ClientsInv
  <1>2. client' \in [Peer -> ClientRows]
    BY <1>1, ClientFields DEF ClientRows
  <1>3. ASSUME NEW e \in Peer \ doubled' PROVE OneOf(e)'
    <2>1. OneOf(e) /\ Thread' = Thread /\ \A k \in Thread : Decides(k, e)' <=> Decides(k, e)
      BY DEF ClientsInv, Thread, Decides, Of
    <2>2. CASE e # d
      <3>1. Clients(e)' = Clients(e)
        BY <1>1, <2>2 DEF Clients
      <3> QED BY <2>1, <3>1 DEF OneOf
    <2>3. CASE e = d
      <3>1. /\ client[d].starting = 0 /\ client[d].attached = 0 /\ client[d].interrupted = 0
            /\ \A k \in Thread : ~Decides(k, d)
        <4>1. ~(client[d].starting > 0) /\ ~(client[d].attached + client[d].interrupted > 0)
          BY <1>3, <2>3 DEF HasActive, Decided
        <4>2. \A k \in Thread : ~Decides(k, d)
          BY <1>3, <2>3 DEF Decided, Decides
        <4>3. client[d].starting \in Nat /\ client[d].attached \in Nat /\ client[d].interrupted \in Nat
          BY ClientFields
        <4> QED BY <4>1, <4>2, <4>3
      <3>2. client'[d].starting = 1 /\ client'[d].attached = 0 /\ client'[d].interrupted = 0
        BY <1>1, <3>1, ClientFields DEF ClientRows
      <3>3. Clients(d)' = 1
        BY <3>2 DEF Clients
      <3> QED BY <2>1, <2>3, <3>1, <3>3 DEF OneOf
    <2> QED BY <2>2, <2>3
  <1> QED BY <1>2, <1>3 DEF ClientsInv

\* The first assignee is a device, the one that is shown when the group comes in.
LEMMA TheFirstAssignee ==
  ASSUME TypeInv, Assignees(db) # <<>>
  PROVE  FirstAssignee \in Peer /\ (plan.type = "Incoming" => FirstAssignee = plan.assignees[1])
  <1>1. 1 \in DOMAIN Assignees(db) /\ \A i \in DOMAIN Assignees(db) : IsAssignee(Assignees(db)[i], plan)
    BY AssigneeRows DEF TypeInv
  <1> QED BY <1>1 DEF FirstAssignee, IsAssignee

LEMMA PausesKeepClients ==
  ASSUME ClientsInv, NEW ds, PauseTasks(ds)
  PROVE  client' \in [Peer -> ClientRows] /\ \A d \in Peer : Clients(d)' = Clients(d)
  <1> SUFFICES ASSUME NEW d \in Peer PROVE client'[d] \in ClientRows /\ Clients(d)' = Clients(d)
    BY DEF PauseTasks
  <1> DEFINE s == client[d].starting
             a == client[d].attached
             i == client[d].interrupted
  <1>1. s \in Nat /\ a \in Nat /\ i \in Nat
    BY ClientFields
  <1>2. client'[d] = IF d \in ds THEN [client[d] EXCEPT !.attached = 0, !.interrupted = i + a] ELSE client[d]
    BY DEF PauseTasks
  <1> HIDE DEF s, a, i
  <1>3. client[d] \in ClientRows
    BY DEF ClientsInv
  <1>4. CASE d \in ds
    <2>1. /\ client'[d] \in ClientRows /\ client'[d].starting = s /\ client'[d].attached = 0
          /\ client'[d].interrupted = i + a
      <3>1. i + a \in Nat /\ 0 \in Nat
        BY <1>1
      <3>2. client'[d] = [client[d] EXCEPT !.attached = 0, !.interrupted = i + a]
        BY <1>2, <1>4
      <3> HIDE DEF i, a
      <3>4. PICK c \in ClientRows, x \in Nat, y \in Nat : c = client[d] /\ x = 0 /\ y = i + a
        BY <1>3, <3>1
      <3>5. client'[d] = [c EXCEPT !.attached = x, !.interrupted = y]
        BY <3>2, <3>4
      <3>6. LET paused == [c EXCEPT !.attached = x, !.interrupted = y]
            IN  /\ paused \in ClientRows /\ paused.starting = c.starting
                /\ paused.attached = x /\ paused.interrupted = y
        BY DEF ClientRows
      <3>7. /\ client'[d] \in ClientRows /\ client'[d].starting = c.starting
            /\ client'[d].attached = x /\ client'[d].interrupted = y
        BY <3>5, <3>6
      <3> QED BY <3>4, <3>7 DEF s
    <2> QED BY <1>1, <2>1 DEF Clients, s, a, i
  <1>5. CASE d \notin ds
    BY <1>2, <1>3, <1>5 DEF Clients
  <1> QED BY <1>4, <1>5

LEMMA TasksKeepClients ==
  ASSUME ClientsInv, NEW d \in Peer, AttachTask(d) \/ DetachTask(d)
  PROVE  client' \in [Peer -> ClientRows] /\ \A e \in Peer : Clients(e)' <= Clients(e)
  <1> DEFINE s == client[d].starting
             a == client[d].attached
             i == client[d].interrupted
  <1>1. /\ s \in Nat /\ a \in Nat /\ i \in Nat /\ client[d] = [starting |-> s, attached |-> a, interrupted |-> i]
        /\ client \in [Peer -> ClientRows]
    BY ClientFields DEF ClientsInv
  <1>2. \/ s > 0 /\ client' = [client EXCEPT ![d].starting = s - 1, ![d].attached = a + 1]
        \/ a > 0 /\ client' = [client EXCEPT ![d].attached = a - 1]
        \/ i > 0 /\ client' = [client EXCEPT ![d].interrupted = i - 1]
    BY DEF AttachTask, DetachTask
  <1> HIDE DEF s, a, i
  <1>3. \E t \in ClientRows : /\ client' = [client EXCEPT ![d] = t]
                              /\ t.starting + t.attached + t.interrupted <= s + a + i
    <2>1. ASSUME s > 0, client' = [client EXCEPT ![d].starting = s - 1, ![d].attached = a + 1]
          PROVE  client' = [client EXCEPT ![d] = [starting |-> s - 1, attached |-> a + 1, interrupted |-> i]]
      BY <1>1, <2>1
    <2>2. ASSUME client' = [client EXCEPT ![d].attached = a - 1]
          PROVE  client' = [client EXCEPT ![d] = [starting |-> s, attached |-> a - 1, interrupted |-> i]]
      <3>1. client' = [client EXCEPT ![d] = [client[d] EXCEPT !.attached = a - 1]]
        BY <2>2
      <3>2. [client[d] EXCEPT !.attached = a - 1] = [starting |-> s, attached |-> a - 1, interrupted |-> i]
        BY <1>1
      <3> QED BY <3>1, <3>2
    <2>3. ASSUME client' = [client EXCEPT ![d].interrupted = i - 1]
          PROVE  client' = [client EXCEPT ![d] = [starting |-> s, attached |-> a, interrupted |-> i - 1]]
      <3>1. client' = [client EXCEPT ![d] = [client[d] EXCEPT !.interrupted = i - 1]]
        BY <2>3
      <3>2. [client[d] EXCEPT !.interrupted = i - 1] = [starting |-> s, attached |-> a, interrupted |-> i - 1]
        BY <1>1
      <3> QED BY <3>1, <3>2
    <2>4. /\ s > 0 => [starting |-> s - 1, attached |-> a + 1, interrupted |-> i] \in ClientRows
          /\ a > 0 => [starting |-> s, attached |-> a - 1, interrupted |-> i] \in ClientRows
          /\ i > 0 => [starting |-> s, attached |-> a, interrupted |-> i - 1] \in ClientRows
      BY <1>1 DEF ClientRows
    <2> QED BY <1>1, <1>2, <2>1, <2>2, <2>3, <2>4
  <1>4. PICK t \in ClientRows : /\ client' = [client EXCEPT ![d] = t]
                                /\ t.starting + t.attached + t.interrupted <= s + a + i
    BY <1>3
  <1>5. client' \in [Peer -> ClientRows]
    BY <1>1, <1>4
  <1>6. ASSUME NEW e \in Peer PROVE Clients(e)' <= Clients(e)
    <2>1. CASE e = d
      BY <1>1, <1>4, <2>1 DEF Clients, s, a, i
    <2>2. CASE e # d
      <3>1. Clients(e)' = Clients(e) /\ Clients(e) \in Nat
        BY <1>1, <1>4, <2>2, ClientFields DEF Clients
      <3> QED BY <3>1
    <2> QED BY <2>1, <2>2
  <1> QED BY <1>5, <1>6

\* The threads that do not decide.
LEMMA OthersDecideNothing ==
  ASSUME TypeInv, NEW k \in Thread, Threads(k), ~TestActive(k)
  PROVE  \A j \in Thread : thread'[j].pc = "start" => thread[j].pc = "start"
  <1> DEFINE Undecided == \A j \in Thread : thread'[j].pc = "start" => thread[j].pc = "start"
  <1>1. ASSUME NEW p, NEW c, NEW a, Goes(k, p, c, a), p # "start" PROVE Undecided
    <2>1. thread' = [thread EXCEPT ![k] = Row(p, c, a)] /\ Row(p, c, a).pc = p
      BY <1>1 DEF Goes, Row
    <2>2. DOMAIN thread = Thread
      BY DEF TypeInv
    <2> QED BY <1>1, <2>1, <2>2
  <1>2. Follows(k)
    BY ThreadSteps
  <1> HIDE DEF Undecided
  <1>3. ASSUME LookUp(k) PROVE Undecided
    <2>1. \/ Goes(k, "connect", Device(Of(k)), Admits(Of(k)))
          \/ Goes(k, "load", thread[k].copy, Admits(Of(k)))
      BY <1>2, <1>3 DEF Follows
    <2> QED BY <1>1, <2>1
  <1>4. ASSUME LoadDevice(k) PROVE Undecided
    <2> DEFINE p == IF plan.threads[k].request = "load" THEN "over" ELSE "restrict"
    <2>1. \/ Goes(k, "publish", IF IsKnown(Of(k)) THEN Device(Of(k)) ELSE NewDevice(Of(k)), thread[k].admitted)
          \/ Goes(k, p, UnknownDevice, thread[k].admitted)
      BY <1>2, <1>4 DEF Follows
    <2>2. p # "start"
      OBVIOUS
    <2> HIDE DEF p
    <2> QED BY <1>1, <2>1, <2>2
  <1>5. ASSUME Connect(k) PROVE Undecided
    <2> DEFINE p == IF Of(k) \in blocked THEN "over" ELSE "lookup"
    <2>1. Goes(k, p, thread[k].copy, thread[k].admitted) /\ p # "start"
      BY <1>2, <1>5 DEF Follows
    <2> HIDE DEF p
    <2> QED BY <1>1, <2>1
  <1>6. ASSUME PublishLoaded(k) PROVE Undecided
    <2> DEFINE p == IF plan.threads[k].request = "load" THEN "over" ELSE "restrict"
    <2>1. Goes(k, p, thread[k].copy, thread[k].admitted) /\ p # "start"
      BY <1>2, <1>6 DEF Follows
    <2> HIDE DEF p
    <2> QED BY <1>1, <2>1
  <1>7. ASSUME \/ StartLoad(k) \/ RestrictNew(k) \/ PublishText(k) \/ UpdateAdapter(k) \/ StartJob(k)
        PROVE  Undecided
    <2>1. \/ Goes(k, "load", thread[k].copy, thread[k].admitted)
          \/ Goes(k, "connect", Restricted(thread[k].copy), thread[k].admitted)
          \/ Goes(k, "over", thread[k].copy, thread[k].admitted)
          \/ Goes(k, "test", thread[k].copy, thread[k].admitted)
      BY <1>2, <1>7 DEF Follows
    <2> QED BY <1>1, <2>1
  <1>8. ASSUME RecordPeer(k) \/ FindShare(k) PROVE Undecided
    <2>1. \/ Goes(k, "over", thread[k].copy, thread[k].admitted)
          \/ Goes(k, "text", thread[k].copy, thread[k].admitted)
          \/ Goes(k, "find", thread[k].copy, thread[k].admitted)
          \/ Goes(k, "adapter", thread[k].copy, thread[k].admitted)
      BY <1>2, <1>8 DEF Follows
    <2> QED BY <1>1, <2>1
  <1>9. Undecided
    BY <1>3, <1>4, <1>5, <1>6, <1>7, <1>8 DEF Threads
  <1> QED BY <1>9 DEF Undecided

LEMMA DecisionKeepsClients ==
  ASSUME TypeInv, ClientsInv, plan' = plan, NEW k \in Thread, TestActive(k)
  PROVE  ClientsInv'
  <1>1. thread[k].pc = "test" /\ client' = client /\ Thread' = Thread /\ DOMAIN thread = Thread /\ Of(k) \in Peer
    BY OfPeer DEF TestActive, Thread, TypeInv
  <1>2. Follows(k)
    BY ThreadSteps
  <1>3. CASE HasActive({Of(k)})
    <2>1. /\ Goes(k, "over", thread[k].copy, thread[k].admitted)
          /\ doubled' = doubled
      BY <1>2, <1>3 DEF TestActive, Follows
    <2>2. \A j \in Thread : thread'[j].pc = "start" => thread[j].pc = "start"
      BY <1>1, <2>1 DEF Goes, Row
    <2>3. client' \in [Peer -> ClientRows] /\ \A d \in Peer : Clients(d)' <= Clients(d)
      <3>1. \A d \in Peer : Clients(d)' = Clients(d) /\ Clients(d) \in Nat
        BY <1>1, ClientFields DEF Clients
      <3> QED BY <1>1, <3>1 DEF ClientsInv
    <2> QED BY <2>1, <2>2, <2>3, OthersKeepClients
  <1>4. CASE ~HasActive({Of(k)})
    <2>1. /\ Goes(k, "start", thread[k].copy, thread[k].admitted)
          /\ doubled' = IF Decided(Of(k)) THEN doubled \cup {Of(k)} ELSE doubled
      BY <1>2, <1>4 DEF TestActive, Follows, Double
    <2>2. thread'[k].pc = "start" /\ \A j \in Thread : j # k => thread'[j] = thread[j]
      BY <1>1, <2>1 DEF Goes, Row
    <2>3. ASSUME NEW e \in Peer \ doubled' PROVE OneOf(e)'
      <3>1. OneOf(e) /\ Clients(e)' = Clients(e)
        BY <1>1, <2>1 DEF ClientsInv, Clients
      <3>2. \A j \in Thread : Decides(j, e)' => Decides(j, e) \/ (j = k /\ e = Of(k))
        BY <2>2 DEF Decides, Of
      <3>3. CASE e # Of(k)
        BY <1>1, <3>1, <3>2, <3>3 DEF OneOf
      <3>4. CASE e = Of(k)
        <4>1. ~Decided(e) /\ ~HasActive({e})
          BY <1>4, <2>1, <2>3, <3>4
        <4>2. \A j \in Thread : ~Decides(j, e)
          BY <4>1 DEF Decided, Decides
        <4>3. Clients(e) = 0
          <5>1. ~(client[e].starting > 0) /\ ~(client[e].attached + client[e].interrupted > 0)
            BY <4>1 DEF HasActive, Decided
          <5>2. client[e].starting \in Nat /\ client[e].attached \in Nat /\ client[e].interrupted \in Nat
            BY ClientFields
          <5> QED BY <5>1, <5>2 DEF Clients
        <4> QED BY <1>1, <3>1, <3>2, <4>2, <4>3 DEF OneOf
      <3> QED BY <3>3, <3>4
    <2> QED BY <1>1, <2>3 DEF ClientsInv
  <1> QED BY <1>3, <1>4

LEMMA JobKeepsClients ==
  ASSUME TypeInv, ClientsInv, plan' = plan, NEW k \in Thread, StartJob(k)
  PROVE  ClientsInv'
  <1> DEFINE d == Of(k)
  <1>1. /\ thread[k].pc = "start" /\ client' = [client EXCEPT ![d].starting = client[d].starting + 1]
        /\ doubled' = doubled /\ Thread' = Thread /\ DOMAIN thread = Thread /\ d \in Peer
        /\ client \in [Peer -> ClientRows]
    BY OfPeer DEF StartJob, StartTransfer, history, Thread, TypeInv, ClientsInv
  <1>2. Goes(k, "over", thread[k].copy, thread[k].admitted)
    BY ThreadSteps DEF Follows
  <1>3. thread'[k].pc = "over" /\ \A j \in Thread : j # k => thread'[j] = thread[j]
    BY <1>1, <1>2 DEF Goes, Row
  <1>4. client' \in [Peer -> ClientRows]
    BY <1>1, ClientFields DEF ClientRows
  <1>5. ASSUME NEW e \in Peer \ doubled' PROVE OneOf(e)'
    <2>1. OneOf(e) /\ \A j \in Thread : Decides(j, e)' => Decides(j, e) /\ j # k
      BY <1>1, <1>3, <1>5 DEF ClientsInv, Decides, Of
    <2>2. CASE e # d
      <3>1. Clients(e)' = Clients(e)
        BY <1>1, <2>2 DEF Clients
      <3> QED BY <1>1, <2>1, <3>1 DEF OneOf
    <2>3. CASE e = d
      <3>1. Decides(k, e)
        BY <1>1, <2>3 DEF Decides
      <3>2. Clients(e) = 0 /\ \A j \in Thread : Decides(j, e) => j = k
        BY <2>1, <3>1 DEF OneOf
      <3>3. \A j \in Thread : ~Decides(j, e)'
        BY <2>1, <3>2
      <3>4. client[e].starting = 0 /\ client[e].attached = 0 /\ client[e].interrupted = 0
        <4>1. client[e].starting \in Nat /\ client[e].attached \in Nat /\ client[e].interrupted \in Nat
          BY ClientFields
        <4> QED BY <3>2, <4>1 DEF Clients
      <3>5. Clients(e)' = 1
        <4>1. client'[e].starting = 1 /\ client'[e].attached = 0 /\ client'[e].interrupted = 0
          BY <1>1, <2>3, <3>4 DEF ClientRows
        <4> QED BY <4>1 DEF Clients
      <3> QED BY <1>1, <3>3, <3>5 DEF OneOf
    <2> QED BY <2>2, <2>3
  <1> QED BY <1>4, <1>5 DEF ClientsInv

LEMMA NextKeepsClients ==
  ASSUME StoredInv, ClientsInv, [DesktopNext]_desktopVars
  PROVE  ClientsInv'
  <1>0. plan' = plan /\ TypeInv
    BY PlanStays DEF StoredInv
  <1>1. ASSUME UNCHANGED client, doubled \subseteq doubled', \A k \in Thread : thread'[k].pc = "start" => thread[k].pc = "start"
        PROVE  ClientsInv'
    <2>1. \A d \in Peer : Clients(d)' = Clients(d) /\ Clients(d) \in Nat
      BY <1>1, ClientFields DEF Clients
    <2>2. client' \in [Peer -> ClientRows] /\ \A d \in Peer : Clients(d)' <= Clients(d)
      BY <1>1, <2>1 DEF ClientsInv
    <2> QED BY <1>0, <1>1, <2>2, OthersKeepClients
  <1>2. ASSUME NEW k \in Thread, Threads(k) PROVE ClientsInv'
    <2>1. CASE TestActive(k)
      BY <1>0, <2>1, DecisionKeepsClients
    <2>2. CASE StartJob(k)
      BY <1>0, <2>2, JobKeepsClients
    <2>3. CASE ~TestActive(k) /\ ~StartJob(k)
      <3>1. UNCHANGED client /\ doubled' = doubled
        BY <1>2, <2>3 DEF Threads, Connect, LookUp, StartLoad, LoadDevice, PublishLoaded, RestrictNew, RecordPeer,
             PublishText, FindShare, UpdateAdapter, history
      <3>2. \A j \in Thread : thread'[j].pc = "start" => thread[j].pc = "start"
        BY <1>0, <1>2, <2>3, OthersDecideNothing
      <3> QED BY <1>1, <3>1, <3>2
    <2> QED BY <2>1, <2>2, <2>3
  <1>3. ASSUME NEW d \in Peer, AttachTask(d) \/ DetachTask(d) PROVE ClientsInv'
    <2>1. client' \in [Peer -> ClientRows] /\ \A e \in Peer : Clients(e)' <= Clients(e)
      BY <1>3, TasksKeepClients
    <2>2. thread' = thread /\ doubled' = doubled
      BY <1>3 DEF AttachTask, DetachTask, history
    <2> QED BY <1>0, <2>1, <2>2, OthersKeepClients
  <1>4. ASSUME NEW ds, PauseTasks(ds), thread' = thread, doubled' = doubled PROVE ClientsInv'
    <2>1. client' \in [Peer -> ClientRows] /\ \A d \in Peer : Clients(d)' = Clients(d) /\ Clients(d) \in Nat
      BY <1>4, PausesKeepClients, ClientFields
    <2>2. \A d \in Peer : Clients(d)' <= Clients(d)
      BY <2>1
    <2> QED BY <1>0, <1>4, <2>1, <2>2, OthersKeepClients
  <1>5. ASSUME MainToggle PROVE ClientsInv'
    <2>0. thread' = thread
      BY <1>5 DEF MainToggle
    <2>1. CASE HasActive(Peer)
      <3>1. PauseTasks(Peer) /\ doubled' = doubled
        BY <1>5, <2>1 DEF MainToggle
      <3> QED BY <1>4, <2>0, <3>1
    <2>2. CASE ~HasActive(Peer) /\ CanReceive
      <3>1. StartTransfer(FirstAssignee) /\ Double(FirstAssignee) /\ Assignees(db) # <<>>
        BY <1>5, <2>2 DEF MainToggle, CanReceive
      <3>2. FirstAssignee \in Peer
        BY <1>0, <3>1, TheFirstAssignee
      <3>3. ~HasActive({FirstAssignee})
        BY <2>2, <3>2 DEF HasActive
      <3>4. doubled' = IF Decided(FirstAssignee) THEN doubled \cup {FirstAssignee} ELSE doubled
        BY <3>1 DEF Double
      <3> QED BY <1>0, <2>0, <3>1, <3>2, <3>3, <3>4, StartKeepsClients
    <2>3. CASE ~HasActive(Peer) /\ ~CanReceive
      <3>1. UNCHANGED client /\ doubled' = doubled
        BY <1>5, <2>3 DEF MainToggle
      <3> QED BY <1>1, <2>0, <3>1
    <2> QED BY <2>1, <2>2, <2>3
  <1>6. ASSUME MainStart PROVE ClientsInv'
    <2>1. /\ StartTransfer(FirstAssignee) /\ Assignees(db) # <<>> /\ thread' = thread
          /\ doubled' = IF HasActive({FirstAssignee}) \/ Decided(FirstAssignee) THEN doubled \cup {FirstAssignee} ELSE doubled
      BY <1>6 DEF MainStart, CanReceive
    <2>2. FirstAssignee \in Peer
      BY <1>0, <2>1, TheFirstAssignee
    <2> QED BY <1>0, <2>1, <2>2, StartKeepsClients
  <1>7. ASSUME DialogToggle PROVE ClientsInv'
    <2>0. thread' = thread /\ dialog # <<>>
      BY <1>7 DEF DialogToggle, InDialog
    <2>1. CASE HasActive(ShownDevices)
      <3>1. PauseTasks(ShownDevices) /\ doubled' = doubled
        BY <1>7, <2>1 DEF DialogToggle
      <3> QED BY <1>4, <2>0, <3>1
    <2>2. CASE ~HasActive(ShownDevices) /\ HasIncoming /\ Assignees(db) # <<>>
      <3>1. StartTransfer(FirstAssignee) /\ Double(FirstAssignee)
        BY <1>7, <2>2 DEF DialogToggle
      <3>2. plan.type = "Incoming"
        <4>1. PICK row \in ToSet(ShownRows) : row.type = "Incoming"
          BY <2>2 DEF HasIncoming
        <4> QED BY <4>1, ShownAreRows DEF StoredInv, TypeInv, DataInv, IsObject
      <3>3. FirstAssignee \in Peer /\ FirstAssignee = plan.assignees[1]
        BY <1>0, <2>2, <3>2, TheFirstAssignee
      <3>4. FirstAssignee \in ShownDevices
        <4>1. dialog[1].deviceId \in {Nobody, plan.assignees[1]}
          BY <2>0, <3>2, TheDialog DEF ShowsEntry
        <4> QED BY <3>3, <4>1 DEF ShownDevices
      <3>5. ~HasActive({FirstAssignee})
        BY <2>2, <3>4 DEF HasActive
      <3>6. doubled' = IF Decided(FirstAssignee) THEN doubled \cup {FirstAssignee} ELSE doubled
        BY <3>1 DEF Double
      <3> QED BY <1>0, <2>0, <3>1, <3>3, <3>5, <3>6, StartKeepsClients
    <2>3. CASE ~HasActive(ShownDevices) /\ ~(HasIncoming /\ Assignees(db) # <<>>)
      <3>1. UNCHANGED client /\ doubled' = doubled
        BY <1>7, <2>3 DEF DialogToggle
      <3> QED BY <1>1, <2>0, <3>1
    <2> QED BY <2>1, <2>2, <2>3
  <1>8. ASSUME thread' = thread, client' = client, doubled' = doubled PROVE ClientsInv'
    BY <1>1, <1>8
  <1>9. ASSUME NEW d \in Peer, AddAssignee(d) \/ AddRows(d) \/ RefuseShare(d) PROVE ClientsInv'
    BY <1>8, <1>9 DEF AddAssignee, AddRows, RefuseShare, history
  <1>10. ASSUME DeviceWindows PROVE ClientsInv'
    BY <1>8, <1>10 DEF DeviceWindows, ToggleRestricted, OpenMenu, MenuRestrict, MenuTrust, MenuRemove, ShowBlocked,
         BlockedAllow, BlockedDeny, CloseBox, history
  <1>11. ASSUME TransferWindows, ~MainToggle, ~MainStart, ~DialogToggle PROVE ClientsInv'
    BY <1>8, <1>11 DEF TransferWindows, ShowTransfer, CloseDialog, AssigneeChanged, DialogRemove, ConfirmRemove,
         DialogRetry, DialogReselect, history
  <1>12. CASE UNCHANGED desktopVars
    BY <1>8, <1>12 DEF desktopVars, history
  <1>13. CASE TransferWindows
    BY <1>5, <1>6, <1>7, <1>11, <1>13
  <1> QED
    BY <1>2, <1>3, <1>9, <1>10, <1>12, <1>13 DEF DesktopNext

LEMMA InitClients == DesktopInit => ClientsInv
  <1> SUFFICES ASSUME DesktopInit PROVE ClientsInv
    OBVIOUS
  <1>1. \A d \in Peer : client[d] = [starting |-> 0, attached |-> 0, interrupted |-> 0]
    BY DEF DesktopInit
  <1>2. client \in [Peer -> ClientRows]
    BY DEF DesktopInit, ClientRows
  <1>3. \A d \in Peer : Clients(d) = 0
    BY <1>1 DEF Clients
  <1>4. \A k \in Thread : thread[k].pc = "closed"
    BY DEF DesktopInit
  <1> QED BY <1>2, <1>3, <1>4 DEF ClientsInv, OneOf, Decides

\* A device for which no start was decided upon unseen has one client at most, on its way, attached
\* or interrupted, and while a thread is about to start one it has none, and no other thread is
\* about to (TransferTaskManager, TransferUtils::startTransfer).
THEOREM ClientsInvariant == DesktopSpec => []ClientsInv
  <1>1. StoredInv /\ ClientsInv /\ [DesktopNext]_desktopVars => ClientsInv'
    BY NextKeepsClients
  <1> QED BY <1>1, InitClients, StoredInvariant, PTL DEF DesktopSpec

\* Requests of the peer, the main window and the dialog start one client at a time, unless two
\* starts were decided before the first client had attached, or by a button that does not test
\* (TransferTaskManager::hasActiveTasksFor and those who call it).
THEOREM StartsAreSingle == DesktopSpec => []OneClientPerShare
  <1>1. ClientsInv => OneClientPerShare
    BY DEF ClientsInv, OneOf, Clients, OneClientPerShare
  <1> QED BY <1>1, ClientsInvariant, PTL

-----------------------------------------------------------------------------
(* The copies *)

Shows(i, d)    == i \in DOMAIN windows /\ windows[i].kind # "remove" /\ windows[i].copy.deviceId = d
LoadStarted(d) == \E k \in Thread : Of(k) = d /\ plan.threads[k].request = "load" /\ thread[k].pc # "closed"
Fresh(d)       == choice[d] = "none" /\ trouble = 0 /\ ~LoadStarted(d)

AllRestricted(data, d) == \A row \in ToSet(data["devices"]) : row.deviceId = d => row.isRestricted

\* One thread or one window has a copy of a device that is not mixed.
OneCopy(d) ==
  /\ \A j, k \in Thread : HasCopy(j, d) /\ HasCopy(k, d) => j = k
  /\ \A i, j \in DOMAIN windows : Shows(i, d) /\ Shows(j, d) => i = j
  /\ \A k \in Thread : HasCopy(k, d) => \A i \in DOMAIN windows : ~Shows(i, d)

\* What the user has restricted is so in every row and in every copy that is written back as it is.
StaysRestricted(d) ==
  choice[d] = "restricted" =>
    /\ IsStored(db, d) /\ AllRestricted(db, d)
    /\ \A k \in Thread : HasCopy(k, d) /\ thread[k].pc = "publish" => thread[k].copy.isRestricted
    /\ \A i \in DOMAIN windows : Shows(i, d) => windows[i].copy.isRestricted

\* A device nobody knew is served, and from then on there is a thread that will restrict it, or it
\* is restricted.
ServedOnce(d) ==
  Fresh(d) =>
    /\ served[d] <= 1
    /\ served[d] = 0 => \A k \in Thread : ~HasCopy(k, d)
    /\ \A k \in Thread : HasCopy(k, d) /\ thread[k].pc = "restrict" => thread[k].copy.deviceId = d
    /\ served[d] = 1 => (\E k \in Thread : HasCopy(k, d)) \/ (IsStored(db, d) /\ AllRestricted(db, d))
    /\ IsStored(db, d) => \/ AllRestricted(db, d)
                          \/ \E k \in Thread : HasCopy(k, d) /\ thread[k].pc = "restrict"
    /\ \A i \in DOMAIN windows : Shows(i, d) => windows[i].copy.isRestricted

Unmixed(d) == OneCopy(d) /\ StaysRestricted(d) /\ ServedOnce(d)

\* A copy that is written back is one of the peer, or of nobody.
CopiesOfThreads ==
  \A k \in Thread : /\ thread[k].pc = "publish" => thread[k].copy.deviceId = Of(k)
                    /\ thread[k].pc = "restrict" => thread[k].copy.deviceId \in {Of(k), Nobody}
CopiesOfWindows == \A i \in DOMAIN windows : windows[i].kind # "remove" => windows[i].copy.deviceId \in Peer

CopyInv ==
  /\ choice \in [Peer -> {"none", "restricted", "allowed"}] /\ served \in [Peer -> Nat] /\ trouble \in Nat
  /\ CopiesOfThreads /\ CopiesOfWindows
  /\ \A d \in Peer \ mixed : Unmixed(d)

LEMMA NothingIsUnmixed == [DesktopNext]_desktopVars => mixed \subseteq mixed'
  BY DEF DesktopNext, Threads, DeviceWindows, TransferWindows, desktopVars, history, Mix,
         Connect, LookUp, StartLoad, LoadDevice, PublishLoaded, RestrictNew, RecordPeer, PublishText,
         FindShare, UpdateAdapter, TestActive, StartJob, AttachTask, DetachTask, AddAssignee, AddRows,
         RefuseShare, ToggleRestricted, OpenMenu, MenuRestrict, MenuTrust, MenuRemove, ShowBlocked,
         BlockedAllow, BlockedDeny, CloseBox, MainToggle, MainStart, ShowTransfer, CloseDialog,
         AssigneeChanged, DialogToggle, DialogRemove, ConfirmRemove, DialogRetry, DialogReselect

\* A step that leaves the copies of a device, its rows and its history alone.
SameHolders(d) == \A k \in Thread : /\ HasCopy(k, d)' <=> HasCopy(k, d)
                                    /\ HasCopy(k, d) => thread'[k] = thread[k]
SameWindows(d) == \A i \in DOMAIN windows' : Shows(i, d)' => Shows(i, d) /\ windows'[i] = windows[i]
SameRows(d)    == \A row : row.deviceId = d => (row \in ToSet(db'["devices"]) <=> row \in ToSet(db["devices"]))
SameChoice(d)  == choice'[d] = choice[d] /\ (Fresh(d)' => Fresh(d) /\ served'[d] = served[d])

LEMMA UntouchedStaysUnmixed ==
  ASSUME NEW d, Unmixed(d), plan' = plan, SameHolders(d), SameWindows(d), SameRows(d), SameChoice(d)
  PROVE  Unmixed(d)'
  <1>0. Thread' = Thread /\ \A k \in Thread : Of(k)' = Of(k)
    BY DEF Thread, Of
  <1>1. \A i : Shows(i, d) => i \in DOMAIN windows
    BY DEF Shows
  <1>2. /\ IsStored(db', d) <=> IsStored(db, d)
        /\ AllRestricted(db', d) <=> AllRestricted(db, d)
    BY DEF SameRows, IsStored, AllRestricted
  <1>3. OneCopy(d)'
    BY <1>0, <1>1 DEF Unmixed, OneCopy, SameHolders, SameWindows
  <1>4. StaysRestricted(d)'
    BY <1>0, <1>1, <1>2 DEF Unmixed, StaysRestricted, SameHolders, SameWindows, SameChoice
  <1>5. ServedOnce(d)'
    <2> SUFFICES ASSUME Fresh(d)' PROVE ServedOnce(d)'
      BY DEF ServedOnce
    <2>1. Fresh(d)
      BY DEF SameChoice
    <2>2. /\ \A k \in Thread : HasCopy(k, d) /\ thread[k].pc = "restrict" => thread[k].copy.deviceId = d
          /\ served[d] <= 1
          /\ served[d] = 0 => \A k \in Thread : ~HasCopy(k, d)
          /\ served[d] = 1 => (\E k \in Thread : HasCopy(k, d)) \/ (IsStored(db, d) /\ AllRestricted(db, d))
          /\ IsStored(db, d) => \/ AllRestricted(db, d)
                                \/ \E k \in Thread : HasCopy(k, d) /\ thread[k].pc = "restrict"
          /\ \A i \in DOMAIN windows : Shows(i, d) => windows[i].copy.isRestricted
      BY <2>1 DEF Unmixed, ServedOnce
    <2>3. \A i \in DOMAIN windows' : Shows(i, d)' => windows'[i].copy.isRestricted
      BY <1>1, <2>2 DEF SameWindows
    <2>4. \A k \in Thread : HasCopy(k, d)' /\ thread'[k].pc = "restrict" => thread'[k].copy.deviceId = d
      BY <2>2 DEF SameHolders
    <2>5. served'[d] = 0 => \A k \in Thread : ~HasCopy(k, d)'
      BY <2>2 DEF SameHolders, SameChoice
    <2>6. served'[d] = 1 => (\E k \in Thread : HasCopy(k, d)') \/ (IsStored(db', d) /\ AllRestricted(db', d))
      BY <1>2, <2>2 DEF SameHolders, SameChoice
    <2>7. IsStored(db', d) => \/ AllRestricted(db', d)
                              \/ \E k \in Thread : HasCopy(k, d)' /\ thread'[k].pc = "restrict"
      BY <1>2, <2>2 DEF SameHolders
    <2>8. served'[d] <= 1
      BY <2>2 DEF SameChoice
    <2> QED BY <1>0, <2>3, <2>4, <2>5, <2>6, <2>7, <2>8 DEF ServedOnce
  <1> QED BY <1>3, <1>4, <1>5 DEF Unmixed

Holding == {"load", "publish", "restrict"}

\* A thread moves: what that is to other devices, and to its own when it holds no copy.
LEMMA MovesElsewhere ==
  ASSUME TypeInv, plan' = plan, NEW k \in Thread, NEW p, NEW c, NEW a, Goes(k, p, c, a), NEW d,
         Of(k) # d \/ (thread[k].pc \notin Holding /\ p \notin Holding)
  PROVE  SameHolders(d)
  <1>1. thread'[k].pc = p /\ \A j \in Thread : j # k => thread'[j] = thread[j]
    BY DEF Goes, Row, TypeInv
  <1>2. \A j \in Thread : Of(j)' = Of(j)
    BY DEF Of
  <1>3. \A j \in Thread : j # k => (HasCopy(j, d)' <=> HasCopy(j, d))
    BY <1>1, <1>2 DEF HasCopy
  <1>4. ~HasCopy(k, d) /\ ~HasCopy(k, d)'
    BY <1>1, <1>2 DEF HasCopy, Holding
  <1> QED BY <1>1, <1>3, <1>4 DEF SameHolders

LEMMA NobodyMoves == plan' = plan /\ thread' = thread => \A d : SameHolders(d)
  BY DEF SameHolders, HasCopy, Of

LEMMA NoneIsClosed ==
  ASSUME TypeInv, [DesktopNext]_desktopVars
  PROVE  \A j \in Thread : thread[j].pc # "closed" => thread'[j].pc # "closed"
  <1> DEFINE Open == \A j \in Thread : thread[j].pc # "closed" => thread'[j].pc # "closed"
  <1>1. ASSUME NEW k \in Thread, NEW p, NEW c, NEW a, Goes(k, p, c, a), p # "closed" PROVE Open
    <2>1. thread'[k].pc = p /\ \A j \in Thread : j # k => thread'[j] = thread[j]
      BY <1>1 DEF Goes, Row, TypeInv
    <2> QED BY <1>1, <2>1
  <1>2. ASSUME NEW k \in Thread, Threads(k) PROVE Open
    <2>0. Follows(k)
      BY ThreadSteps
    <2> DEFINE p == IF plan.threads[k].request = "load" THEN "over" ELSE "restrict"
               q == IF Of(k) \in blocked THEN "over" ELSE "lookup"
    <2>1. p # "closed" /\ q # "closed"
      OBVIOUS
    <2>2. ASSUME LookUp(k) \/ LoadDevice(k) PROVE Open
      <3>1. \/ Goes(k, "connect", Device(Of(k)), Admits(Of(k)))
            \/ Goes(k, "load", thread[k].copy, Admits(Of(k)))
            \/ Goes(k, "publish", IF IsKnown(Of(k)) THEN Device(Of(k)) ELSE NewDevice(Of(k)), thread[k].admitted)
            \/ Goes(k, p, UnknownDevice, thread[k].admitted)
        BY <2>0, <2>2 DEF Follows
      <3> HIDE DEF Open, p
      <3> QED BY <1>1, <2>1, <3>1
    <2>3. ASSUME \/ Connect(k) \/ PublishLoaded(k) \/ StartLoad(k) \/ RestrictNew(k) \/ PublishText(k)
                 \/ UpdateAdapter(k) \/ StartJob(k)
          PROVE  Open
      <3>1. \/ Goes(k, q, thread[k].copy, thread[k].admitted)
            \/ Goes(k, p, thread[k].copy, thread[k].admitted)
            \/ Goes(k, "load", thread[k].copy, thread[k].admitted)
            \/ Goes(k, "connect", Restricted(thread[k].copy), thread[k].admitted)
            \/ Goes(k, "over", thread[k].copy, thread[k].admitted)
            \/ Goes(k, "test", thread[k].copy, thread[k].admitted)
        BY <2>0, <2>3 DEF Follows
      <3> HIDE DEF Open, p, q
      <3> QED BY <1>1, <2>1, <3>1
    <2>4. ASSUME RecordPeer(k) \/ FindShare(k) \/ TestActive(k) PROVE Open
      <3>1. \/ Goes(k, "over", thread[k].copy, thread[k].admitted)
            \/ Goes(k, "text", thread[k].copy, thread[k].admitted)
            \/ Goes(k, "find", thread[k].copy, thread[k].admitted)
            \/ Goes(k, "adapter", thread[k].copy, thread[k].admitted)
            \/ Goes(k, "start", thread[k].copy, thread[k].admitted)
        BY <2>0, <2>4 DEF Follows
      <3> HIDE DEF Open
      <3> QED BY <1>1, <3>1
    <2> HIDE DEF Open
    <2> QED BY <1>2, <2>2, <2>3, <2>4 DEF Threads
  <1>3. (DesktopNext /\ ~\E k \in Thread : Threads(k)) \/ UNCHANGED desktopVars => thread' = thread
    BY DEF DesktopNext, DeviceWindows, TransferWindows, desktopVars, AttachTask, DetachTask, AddAssignee, AddRows,
           RefuseShare, ToggleRestricted, OpenMenu, MenuRestrict, MenuTrust, MenuRemove, ShowBlocked,
           BlockedAllow, BlockedDeny, CloseBox, MainToggle, MainStart, ShowTransfer, CloseDialog,
           AssigneeChanged, DialogToggle, DialogRemove, ConfirmRemove, DialogRetry, DialogReselect
  <1> QED BY <1>2, <1>3

LEMMA TroubleGrows == trouble \in Nat /\ [DesktopNext]_desktopVars => trouble' \in Nat /\ (trouble' = 0 => trouble = 0)
  <1> SUFFICES ASSUME trouble \in Nat, [DesktopNext]_desktopVars PROVE trouble' = trouble \/ trouble' = trouble + 1
    OBVIOUS
  <1> QED
  BY DEF DesktopNext, Threads, DeviceWindows, TransferWindows, desktopVars, bounds, Click, Trouble,
         Connect, LookUp, StartLoad, LoadDevice, PublishLoaded, RestrictNew, RecordPeer, PublishText,
         FindShare, UpdateAdapter, TestActive, StartJob, AttachTask, DetachTask, AddAssignee, AddRows,
         RefuseShare, ToggleRestricted, OpenMenu, MenuRestrict, MenuTrust, MenuRemove, ShowBlocked,
         BlockedAllow, BlockedDeny, CloseBox, MainToggle, MainStart, ShowTransfer, CloseDialog,
         AssigneeChanged, DialogToggle, DialogRemove, ConfirmRemove, DialogRetry, DialogReselect

\* Nothing becomes fresh but by forgetting it.
LEMMA FreshBefore ==
  ASSUME TypeInv, trouble \in Nat, [DesktopNext]_desktopVars, NEW d, choice'[d] = choice[d]
  PROVE  Fresh(d)' => Fresh(d)
  <1>1. plan' = plan /\ Thread' = Thread /\ \A k \in Thread : Of(k)' = Of(k)
    BY PlanStays DEF Thread, Of
  <1>2. LoadStarted(d) => LoadStarted(d)'
    BY <1>1, NoneIsClosed DEF LoadStarted
  <1> QED BY <1>2, TroubleGrows DEF Fresh

LEMMA ClosingShowsNothing ==
  ASSUME TypeInv, windows # <<>>, Close, NEW d
  PROVE  /\ SameWindows(d)
         /\ Shows(Len(windows), d) /\ OneCopy(d) => \A i \in DOMAIN windows' : ~Shows(i, d)'
  <1>1. /\ Len(windows) \in DOMAIN windows /\ DOMAIN windows' = 1 .. Len(windows) - 1 /\ Len(windows) \in Nat
        /\ DOMAIN windows = 1 .. Len(windows)
        /\ \A i \in DOMAIN windows' : windows'[i] = windows[i]
    BY TopWindow DEF TypeInv, Close
  <1>2. \A i \in DOMAIN windows' : i \in DOMAIN windows /\ i # Len(windows)
    BY <1>1
  <1> QED BY <1>1, <1>2 DEF SameWindows, Shows, OneCopy

LEMMA WrittenElsewhere ==
  ASSUME NEW copy, DeviceWritten(db', db, copy), NEW d, d # copy.deviceId
  PROVE  SameRows(d)
  BY DEF DeviceWritten, SameRows

LEMMA WrittenHere ==
  ASSUME NEW copy, DeviceWritten(db', db, copy), copy.deviceId # Nobody
  PROVE  /\ IsStored(db', copy.deviceId)
         /\ \A row \in ToSet(db'["devices"]) : row.deviceId = copy.deviceId => row = copy
  BY DEF DeviceWritten, IsStored

\* A step of neither the threads nor the windows that have copies of devices.
Others ==
  \/ \E d \in Peer : AttachTask(d) \/ DetachTask(d) \/ AddAssignee(d) \/ AddRows(d) \/ RefuseShare(d)
  \/ BlockedDeny \/ CloseBox \/ TransferWindows \/ UNCHANGED desktopVars

\* They leave the devices as they are.
LEMMA OthersKeepDevices ==
  ASSUME StoredInv, Others
  PROVE  db'["devices"] = db["devices"]
  <1>0. IsDatabase(db)
    BY DEF StoredInv, TypeInv, DataInv
  <1>1. ASSUME db' = db PROVE db'["devices"] = db["devices"]
    BY <1>1
  <1>2. \A s, values : s.table # "devices" => Update(db, s, values)["devices"] = db["devices"]
    BY DEF Update
  <1>3. \A t, object : t # "devices" => Insert(db, t, object)["devices"] = db["devices"]
    BY DEF Insert
  <1>4. ASSUME NEW d, AttachTask(d) \/ DetachTask(d) PROVE db'["devices"] = db["devices"]
    BY <1>1, <1>4 DEF AttachTask, DetachTask
  <1>5. ASSUME \/ BlockedDeny \/ CloseBox \/ MainToggle \/ MainStart \/ DialogToggle \/ DialogRemove
               \/ ShowTransfer \/ CloseDialog \/ (\E i \in 1 .. Cardinality(Peer) + 1 : AssigneeChanged(i))
               \/ UNCHANGED desktopVars
        PROVE  db'["devices"] = db["devices"]
    BY <1>1, <1>5 DEF BlockedDeny, CloseBox, MainToggle, MainStart, DialogToggle, DialogRemove,
         ShowTransfer, CloseDialog, AssigneeChanged, desktopVars
  <1>6. ASSUME ConfirmRemove PROVE db'["devices"] = db["devices"]
    <2>1. \/ db' = RemoveAssignee(db, Group, Last(windows).copy.deviceId)
          \/ db' = RemoveGroup(db, Group)
      BY <1>6 DEF ConfirmRemove, Changed
    <2>2. \A d : RemoveAssignee(db, Group, d)["devices"] = db["devices"]
      BY <1>0, RemoveAssigneeRemovesShare, RowTables DEF ChangesOnly
    <2>3. RemoveGroup(db, Group)["devices"] = db["devices"]
      BY <1>0, RemoveGroupRemovesAll, RowTables DEF ChangesOnly
    <2> QED BY <2>1, <2>2, <2>3
  <1>7. ASSUME DialogRetry PROVE db'["devices"] = db["devices"]
    BY <1>2, <1>7 DEF DialogRetry, Changed
  <1>8. ASSUME DialogReselect PROVE db'["devices"] = db["devices"]
    BY <1>2, <1>8, SelectedTables DEF DialogReselect, Changed
  <1>9. ASSUME NEW d, AddAssignee(d) \/ AddRows(d) PROVE db'["devices"] = db["devices"]
    BY <1>3, <1>9 DEF AddAssignee, AddRows, Changed
  <1>10. ASSUME NEW d, RefuseShare(d) PROVE db'["devices"] = db["devices"]
    <2>1. db' = RemoveAssignee(db, Group, d)
      BY <1>10 DEF RefuseShare, Changed
    <2> QED BY <1>0, <2>1, RemoveAssigneeRemovesShare, RowTables DEF ChangesOnly
  <1> QED
    BY <1>4, <1>5, <1>6, <1>7, <1>8, <1>9, <1>10 DEF Others, TransferWindows

\* Of the threads, those that load a device write one.
LEMMA ThreadsKeepDevices ==
  ASSUME StoredInv, NEW k \in Thread, Threads(k), ~PublishLoaded(k), ~RestrictNew(k)
  PROVE  db'["devices"] = db["devices"]
  <1>0. IsDatabase(db)
    BY DEF StoredInv, TypeInv, DataInv
  <1>1. \A s, values : s.table # "devices" => Update(db, s, values)["devices"] = db["devices"]
    BY DEF Update
  <1>2. \A t, object : t # "devices" => Insert(db, t, object)["devices"] = db["devices"]
    BY DEF Insert
  <1>3. CASE RecordPeer(k)
    <2>1. db' = Connected(db, thread[k].copy.deviceId, Of(k))
      BY <1>3 DEF RecordPeer, Changed
    <2> QED BY <1>0, <2>1, ConnectionsOnly, RowTables DEF ChangesOnly
  <1>4. CASE PublishText(k)
    <2>1. PICK id \in {1, 2} : db' = Publish(db, WhereText(id), [id |-> id])
      BY <1>4 DEF PublishText, Changed
    <2> QED BY <1>1, <1>2, <2>1 DEF Publish, WhereText
  <1>5. CASE UpdateAdapter(k)
    BY <1>1, <1>5, SelectedTables DEF UpdateAdapter, Changed
  <1>6. CASE \/ Connect(k) \/ LookUp(k) \/ StartLoad(k) \/ LoadDevice(k) \/ FindShare(k) \/ TestActive(k)
             \/ StartJob(k)
    BY <1>6 DEF Connect, LookUp, StartLoad, LoadDevice, FindShare, TestActive, StartJob
  <1> QED
    BY <1>3, <1>4, <1>5, <1>6 DEF Threads

LEMMA SameDevices == db'["devices"] = db["devices"] => \A d : SameRows(d)
  BY DEF SameRows

\* What is not mixed after a step, and what that step leaves as it was.
LEMMA BeforeStep ==
  ASSUME StoredInv, CopyInv, [DesktopNext]_desktopVars, NEW d \in Peer \ mixed'
  PROVE  /\ d \in Peer /\ d # Nobody /\ Unmixed(d) /\ TypeInv
         /\ plan' = plan /\ Thread' = Thread /\ \A k \in Thread : Of(k)' = Of(k)
         /\ choice'[d] = choice[d] => (Fresh(d)' => Fresh(d))
  <1>1. d \in Peer /\ d # Nobody /\ d \notin mixed
    BY NothingIsUnmixed, SituationsAssumption
  <1>2. TypeInv /\ trouble \in Nat /\ plan' = plan /\ Unmixed(d)
    BY <1>1, PlanStays DEF StoredInv, CopyInv
  <1>3. choice'[d] = choice[d] => (Fresh(d)' => Fresh(d))
    BY <1>2, FreshBefore
  <1> QED BY <1>1, <1>2, <1>3 DEF Thread, Of

LEMMA ThreadsAreSteps == \A k \in Thread : Threads(k) => DesktopNext
  BY DEF DesktopNext

\* A thread moves alone, shows nothing, and serves its own device.
LEMMA ThreadMoves ==
  ASSUME TypeInv, CopyInv, NEW k \in Thread, Threads(k)
  PROVE  /\ \A j \in Thread : j # k => thread'[j] = thread[j]
         /\ windows' = windows /\ choice' = choice
         /\ \A d \in Peer : d # Of(k) => served'[d] = served[d]
         /\ ~LookUp(k) => served' = served
  <1>1. \A j \in Thread : j # k => thread'[j] = thread[j]
    <2>1. \E record : Step(k, record)
      BY DEF Threads, Connect, LookUp, StartLoad, LoadDevice, PublishLoaded, RestrictNew, RecordPeer, PublishText,
             FindShare, UpdateAdapter, TestActive, StartJob
    <2> QED BY <2>1 DEF Step, TypeInv
  <1>2. windows' = windows /\ choice' = choice /\ (~LookUp(k) => served' = served)
    BY DEF Threads, Connect, LookUp, StartLoad, LoadDevice, PublishLoaded, RestrictNew, RecordPeer, PublishText,
           FindShare, UpdateAdapter, TestActive, StartJob, devices, history
  <1>3. LookUp(k) => served' = served \/ served' = [served EXCEPT ![Of(k)] = @ + 1]
    BY DEF LookUp
  <1> QED BY <1>1, <1>2, <1>3 DEF CopyInv

LEMMA WindowsAsBefore == plan' = plan /\ windows' = windows => \A d : SameWindows(d)
  BY DEF SameWindows, Shows

\* The devices of others.
LEMMA ThreadKeepsOthers ==
  ASSUME StoredInv, CopyInv, NEW k \in Thread, Threads(k), NEW d \in Peer \ mixed', d # Of(k)
  PROVE  Unmixed(d)'
  <1>0. DesktopNext
    BY ThreadsAreSteps
  <1>1. /\ d \in Peer /\ d # Nobody /\ Unmixed(d) /\ TypeInv /\ plan' = plan /\ \A j \in Thread : Of(j)' = Of(j)
        /\ choice'[d] = choice[d] => (Fresh(d)' => Fresh(d))
    BY <1>0, BeforeStep
  <1>2. /\ \A j \in Thread : j # k => thread'[j] = thread[j]
        /\ windows' = windows /\ choice' = choice /\ served'[d] = served[d]
    BY <1>1, ThreadMoves
  <1>3. SameHolders(d)
    BY <1>1, <1>2 DEF SameHolders, HasCopy
  <1>4. SameWindows(d)
    BY <1>1, <1>2, WindowsAsBefore
  <1>5. SameRows(d)
    <2>1. CASE PublishLoaded(k)
      <3>1. thread[k].copy.deviceId = Of(k) /\ DeviceWritten(db', db, thread[k].copy)
        BY <1>1, <2>1, WritesOfThreads DEF PublishLoaded, CopyInv, CopiesOfThreads
      <3> QED BY <3>1, WrittenElsewhere
    <2>2. CASE RestrictNew(k)
      <3>1. /\ thread[k].copy.deviceId \in {Of(k), Nobody} /\ DeviceWritten(db', db, Restricted(thread[k].copy))
            /\ Restricted(thread[k].copy).deviceId = thread[k].copy.deviceId
        BY <1>1, <2>2, WritesOfThreads, ThreadFields, DeviceFields DEF RestrictNew, CopyInv, CopiesOfThreads
      <3> QED BY <1>1, <3>1, WrittenElsewhere
    <2> QED BY <2>1, <2>2, ThreadsKeepDevices, SameDevices
  <1>6. SameChoice(d)
    BY <1>1, <1>2 DEF SameChoice
  <1> QED BY <1>1, <1>3, <1>4, <1>5, <1>6, UntouchedStaysUnmixed

\* A thread that has no copy before or after its step.
LEMMA WithoutCopyStaysUnmixed ==
  ASSUME StoredInv, CopyInv, NEW k \in Thread, NEW d \in Peer \ mixed', d = Of(k),
         \/ Connect(k) \/ RecordPeer(k) \/ PublishText(k) \/ FindShare(k) \/ UpdateAdapter(k) \/ TestActive(k)
         \/ StartJob(k)
  PROVE  Unmixed(d)'
  <1> DEFINE q == IF d \in blocked THEN "over" ELSE "lookup"
  <1>0. Threads(k) /\ DesktopNext /\ ~PublishLoaded(k) /\ ~RestrictNew(k) /\ ~LookUp(k)
    <2>1. Threads(k)
      BY DEF Threads
    <2>2. thread[k].pc \notin {"publish", "restrict", "lookup"}
      BY DEF Connect, RecordPeer, PublishText, FindShare, UpdateAdapter, TestActive, StartJob
    <2> QED BY <2>1, <2>2, ThreadsAreSteps DEF PublishLoaded, RestrictNew, LookUp
  <1>1. /\ d \in Peer /\ Unmixed(d) /\ TypeInv /\ plan' = plan
        /\ choice'[d] = choice[d] => (Fresh(d)' => Fresh(d))
    BY <1>0, BeforeStep
  <1>2. /\ \A j \in Thread : j # k => thread'[j] = thread[j]
        /\ windows' = windows /\ choice' = choice /\ served' = served
    BY <1>0, <1>1, ThreadMoves
  <1>3. thread[k].pc \notin Holding
    BY DEF Holding, Connect, RecordPeer, PublishText, FindShare, UpdateAdapter, TestActive, StartJob
  <1>4. \E p : p \notin Holding /\ Goes(k, p, thread[k].copy, thread[k].admitted)
    <2>1. Follows(k)
      BY <1>1, ThreadSteps
    <2> HIDE DEF q
    <2>2. \/ Goes(k, q, thread[k].copy, thread[k].admitted)
          \/ \E p \in {"over", "text", "find", "adapter", "test", "start"} : Goes(k, p, thread[k].copy, thread[k].admitted)
      BY <2>1 DEF Follows, q
    <2>3. q \notin Holding
      BY DEF Holding, q
    <2>4. \A p \in {"over", "text", "find", "adapter", "test", "start"} : p \notin Holding
      BY DEF Holding
    <2> QED BY <2>2, <2>3, <2>4
  <1>5. SameHolders(d)
    BY <1>1, <1>3, <1>4, MovesElsewhere
  <1>6. SameWindows(d) /\ SameRows(d)
    BY <1>0, <1>1, <1>2, WindowsAsBefore, ThreadsKeepDevices, SameDevices
  <1>7. SameChoice(d)
    BY <1>1, <1>2 DEF SameChoice
  <1> QED BY <1>1, <1>5, <1>6, <1>7, UntouchedStaysUnmixed

\* When a copy is made of a device that does not become mixed, nobody else has one.
LEMMA NobodyElseCopied ==
  ASSUME NEW d, d \notin mixed', NEW others, Mix(d, others, windows), windows \in Seq(WindowRows)
  PROVE  /\ \A k \in others : ~HasCopy(k, d)
         /\ \A i \in DOMAIN windows : ~Shows(i, d)
  <1>1. /\ ~\E k \in others : HasCopy(k, d)
        /\ ~\E w \in ToSet(windows) : w.kind # "remove" /\ w.copy.deviceId = d
    BY DEF Mix
  <1>2. \A i \in DOMAIN windows : windows[i] \in ToSet(windows)
    BY DEF ToSet
  <1> QED BY <1>1, <1>2 DEF Shows

LEMMA LookUpStaysUnmixed ==
  ASSUME StoredInv, CopyInv, NEW k \in Thread, LookUp(k), NEW d \in Peer \ mixed', d = Of(k)
  PROVE  Unmixed(d)'
  <1>0. Threads(k) /\ DesktopNext /\ ~PublishLoaded(k) /\ ~RestrictNew(k)
    BY ThreadsAreSteps DEF Threads, LookUp, PublishLoaded, RestrictNew
  <1>1. /\ d \in Peer /\ d # Nobody /\ Unmixed(d) /\ TypeInv
        /\ plan' = plan /\ Thread' = Thread /\ \A j \in Thread : Of(j)' = Of(j)
        /\ choice'[d] = choice[d] => (Fresh(d)' => Fresh(d))
    BY <1>0, BeforeStep
  <1>2. /\ \A j \in Thread : j # k => thread'[j] = thread[j]
        /\ windows' = windows /\ choice' = choice /\ db' = db
    BY <1>0, <1>1, ThreadMoves DEF LookUp
  <1>3. /\ \A j \in Thread : ~HasCopy(j, d)
        /\ \A i \in DOMAIN windows : ~Shows(i, d)
    <2>1. Mix(d, Thread \ {k}, windows) /\ windows \in Seq(WindowRows) /\ thread[k].pc = "lookup"
      BY <1>1 DEF LookUp, TypeInv
    <2>2. /\ \A j \in Thread \ {k} : ~HasCopy(j, d)
          /\ \A i \in DOMAIN windows : ~Shows(i, d)
      BY <1>1, <2>1, NobodyElseCopied
    <2> QED BY <2>1, <2>2 DEF HasCopy
  <1>4. /\ IsKnown(d) <=> IsStored(db, d)
        /\ IsKnown(d) => /\ Device(d) \in ToSet(db["devices"]) /\ Device(d).deviceId = d
    BY <1>1, KnownDevice DEF TypeInv, DataInv
  <1>5. Follows(k)
    BY <1>1, ThreadSteps
  <1>6. SameWindows(d) /\ SameRows(d)
    BY <1>1, <1>2, WindowsAsBefore, SameDevices
  <1>7. CASE IsKnown(d)
    <2>1. Goes(k, "connect", Device(d), Admits(d)) /\ thread[k].pc \notin Holding /\ "connect" \notin Holding
      BY <1>5, <1>7 DEF Follows, LookUp, Holding
    <2>2. SameHolders(d)
      BY <1>1, <2>1, MovesElsewhere
    <2>3. Fresh(d)' => Fresh(d) /\ served'[d] = served[d]
      <3>1. Fresh(d)' => Fresh(d)
        BY <1>1, <1>2
      <3>2. Fresh(d) => Device(d).isRestricted
        BY <1>1, <1>3, <1>4, <1>7 DEF Unmixed, ServedOnce, AllRestricted
      <3>3. Device(d).isRestricted => served' = served
        BY <1>7 DEF LookUp
      <3> QED BY <3>1, <3>2, <3>3
    <2>4. SameChoice(d)
      BY <1>2, <2>3 DEF SameChoice
    <2> QED BY <1>1, <1>6, <2>2, <2>4, UntouchedStaysUnmixed
  <1>8. CASE ~IsKnown(d)
    <2>1. Goes(k, "load", thread[k].copy, Admits(d))
      BY <1>5, <1>8 DEF Follows, LookUp
    <2>2. thread'[k].pc = "load"
      BY <1>1, <2>1 DEF Goes, Row, TypeInv
    <2>3. served' = [served EXCEPT ![d] = @ + 1]
      BY <1>8 DEF LookUp
    <2>4. served[d] \in Nat /\ served'[d] = served[d] + 1
      BY <1>1, <2>3 DEF CopyInv
    <2>5. \A j \in Thread : HasCopy(j, d)' <=> j = k
      BY <1>1, <1>2, <1>3, <2>2 DEF HasCopy
    <2>6. \A i \in DOMAIN windows' : ~Shows(i, d)'
      <3>1. \A i : Shows(i, d)' <=> Shows(i, d)
        BY <1>2 DEF Shows
      <3> QED BY <1>2, <1>3, <3>1
    <2>7. OneCopy(d)'
      BY <1>1, <2>5, <2>6 DEF OneCopy
    <2>8. StaysRestricted(d)'
      BY <1>1, <1>2, <1>4, <1>8 DEF Unmixed, StaysRestricted
    <2>9. ServedOnce(d)'
      <3> SUFFICES ASSUME Fresh(d)' PROVE ServedOnce(d)'
        BY DEF ServedOnce
      <3>1. Fresh(d)
        BY <1>1, <1>2
      <3>2. served[d] <= 1 /\ served[d] # 1
        BY <1>1, <1>3, <1>4, <1>8, <3>1 DEF Unmixed, ServedOnce
      <3>3. served'[d] = 1
        BY <2>4, <3>2
      <3>4. \E j \in Thread : HasCopy(j, d)'
        BY <2>5
      <3>5. ~IsStored(db', d)
        BY <1>2, <1>4, <1>8
      <3> QED BY <1>1, <2>2, <2>5, <2>6, <3>3, <3>4, <3>5 DEF ServedOnce
    <2> QED BY <2>7, <2>8, <2>9 DEF Unmixed
  <1> QED BY <1>7, <1>8

\* What the window and the history of a device are after the step of a thread of its own.
LEMMA OwnThread ==
  ASSUME StoredInv, CopyInv, NEW k \in Thread, Threads(k), ~LookUp(k), NEW d \in Peer \ mixed', d = Of(k)
  PROVE  /\ d \in Peer /\ d # Nobody /\ Unmixed(d) /\ TypeInv
         /\ plan' = plan /\ Thread' = Thread /\ \A j \in Thread : Of(j)' = Of(j)
         /\ Fresh(d)' => Fresh(d)
         /\ \A j \in Thread : j # k => thread'[j] = thread[j]
         /\ \A j \in Thread : j # k => (HasCopy(j, d)' <=> HasCopy(j, d))
         /\ windows' = windows /\ \A i : Shows(i, d)' <=> Shows(i, d)
         /\ choice' = choice /\ served' = served /\ served[d] \in Nat
  <1>1. /\ d \in Peer /\ d # Nobody /\ Unmixed(d) /\ TypeInv
        /\ plan' = plan /\ Thread' = Thread /\ \A j \in Thread : Of(j)' = Of(j)
        /\ choice'[d] = choice[d] => (Fresh(d)' => Fresh(d))
    BY ThreadsAreSteps, BeforeStep
  <1>2. /\ \A j \in Thread : j # k => thread'[j] = thread[j]
        /\ windows' = windows /\ choice' = choice /\ served' = served
    BY <1>1, ThreadMoves
  <1>3. \A j \in Thread : j # k => (HasCopy(j, d)' <=> HasCopy(j, d))
    BY <1>1, <1>2 DEF HasCopy
  <1>4. \A i : Shows(i, d)' <=> Shows(i, d)
    BY <1>2 DEF Shows
  <1>5. served[d] \in Nat
    BY <1>1 DEF CopyInv
  <1> QED BY <1>1, <1>2, <1>3, <1>4, <1>5

LEMMA StartLoadStaysUnmixed ==
  ASSUME StoredInv, CopyInv, NEW k \in Thread, StartLoad(k), NEW d \in Peer \ mixed', d = Of(k)
  PROVE  Unmixed(d)'
  <1>1. Threads(k) /\ ~LookUp(k)
    BY DEF Threads, LookUp, StartLoad
  <1>2. /\ d \in Peer /\ Unmixed(d) /\ TypeInv
        /\ plan' = plan /\ Thread' = Thread /\ \A j \in Thread : Of(j)' = Of(j)
        /\ \A j \in Thread : j # k => thread'[j] = thread[j]
        /\ \A j \in Thread : j # k => (HasCopy(j, d)' <=> HasCopy(j, d))
        /\ windows' = windows /\ \A i : Shows(i, d)' <=> Shows(i, d)
        /\ choice' = choice
    BY <1>1, OwnThread
  <1>3. thread'[k].pc = "load"
    <2>1. Follows(k)
      BY <1>2, ThreadSteps
    <2>2. Goes(k, "load", thread[k].copy, thread[k].admitted)
      BY <2>1 DEF Follows
    <2> QED BY <1>2, <2>2 DEF Goes, Row, TypeInv
  <1>4. /\ \A j \in Thread \ {k} : ~HasCopy(j, d)
        /\ \A i \in DOMAIN windows : ~Shows(i, d)
    BY <1>2, NobodyElseCopied DEF StartLoad, TypeInv
  <1>5. OneCopy(d)'
    BY <1>2, <1>4 DEF OneCopy
  <1>6. StaysRestricted(d)'
    <2>1. db' = db
      BY DEF StartLoad
    <2> QED BY <1>2, <1>3, <1>4, <2>1 DEF Unmixed, StaysRestricted
  <1>7. ~Fresh(d)'
    BY <1>2, <1>3 DEF Fresh, LoadStarted, StartLoad
  <1> QED BY <1>5, <1>6, <1>7 DEF Unmixed, ServedOnce

LEMMA LoadDeviceStaysUnmixed ==
  ASSUME StoredInv, CopyInv, NEW k \in Thread, LoadDevice(k), NEW d \in Peer \ mixed', d = Of(k)
  PROVE  Unmixed(d)'
  <1>1. Threads(k) /\ ~LookUp(k)
    BY DEF Threads, LookUp, LoadDevice
  <1>2. /\ d \in Peer /\ Unmixed(d) /\ TypeInv
        /\ plan' = plan /\ Thread' = Thread /\ \A j \in Thread : Of(j)' = Of(j)
        /\ Fresh(d)' => Fresh(d)
        /\ \A j \in Thread : j # k => thread'[j] = thread[j]
        /\ \A j \in Thread : j # k => (HasCopy(j, d)' <=> HasCopy(j, d))
        /\ windows' = windows /\ \A i : Shows(i, d)' <=> Shows(i, d)
        /\ choice' = choice /\ served' = served
    BY <1>1, OwnThread
  <1>3. db' = db /\ HasCopy(k, d) /\ thread[k].pc = "load"
    BY DEF LoadDevice, HasCopy
  <1> DEFINE copy == IF IsKnown(d) THEN Device(d) ELSE NewDevice(d)
             p == IF plan.threads[k].request = "load" THEN "over" ELSE "restrict"
  <1>4. \/ Goes(k, "publish", copy, thread[k].admitted) /\ trouble' = trouble
        \/ Goes(k, p, UnknownDevice, thread[k].admitted) /\ Trouble
    <2>1. Follows(k)
      BY <1>2, ThreadSteps
    <2> QED BY <2>1 DEF Follows
  <1>5. CASE Goes(k, "publish", copy, thread[k].admitted) /\ trouble' = trouble
    <2>1. thread'[k].pc = "publish" /\ thread'[k].copy = copy
      BY <1>2, <1>5 DEF Goes, Row, TypeInv
    <2>2. Mix(d, Thread \ {k}, windows)
      <3>1. ~Trouble
        BY <1>5 DEF Trouble, CopyInv
      <3> QED BY <3>1 DEF LoadDevice
    <2>3. /\ \A j \in Thread \ {k} : ~HasCopy(j, d)
          /\ \A i \in DOMAIN windows : ~Shows(i, d)
      BY <1>2, <2>2, NobodyElseCopied DEF TypeInv
    <2>4. \A j \in Thread : HasCopy(j, d)' <=> j = k
      BY <1>2, <2>1, <2>3 DEF HasCopy
    <2>5. OneCopy(d)'
      BY <1>2, <2>3, <2>4 DEF OneCopy
    <2>6. choice[d] = "restricted" => copy.isRestricted
      <3>1. choice[d] = "restricted" => IsStored(db, d) /\ AllRestricted(db, d)
        BY <1>2 DEF Unmixed, StaysRestricted
      <3>2. /\ IsKnown(d) <=> IsStored(db, d)
            /\ IsKnown(d) => Device(d) \in ToSet(db["devices"]) /\ Device(d).deviceId = d
        BY <1>2, KnownDevice DEF TypeInv, DataInv
      <3> QED BY <3>1, <3>2 DEF AllRestricted
    <2> HIDE DEF copy
    <2>7. StaysRestricted(d)'
      BY <1>2, <1>3, <2>1, <2>3, <2>4, <2>6 DEF Unmixed, StaysRestricted
    <2>8. ServedOnce(d)'
      <3> SUFFICES ASSUME Fresh(d)' PROVE ServedOnce(d)'
        BY DEF ServedOnce
      <3>1. /\ served[d] <= 1
            /\ served[d] # 0
            /\ IsStored(db, d) => AllRestricted(db, d)
        BY <1>2, <1>3, <2>3 DEF Unmixed, ServedOnce
      <3>2. \A i \in DOMAIN windows' : ~Shows(i, d)'
        BY <1>2, <2>3
      <3> QED BY <1>2, <1>3, <2>1, <2>4, <3>1, <3>2 DEF ServedOnce
    <2> QED BY <2>5, <2>7, <2>8 DEF Unmixed
  <1>6. CASE Goes(k, p, UnknownDevice, thread[k].admitted) /\ Trouble
    <2>1. thread'[k].pc # "publish"
      BY <1>2, <1>6 DEF Goes, Row, TypeInv
    <2>2. \A j \in Thread : HasCopy(j, d)' => HasCopy(j, d)
      BY <1>2, <1>3
    <2>3. OneCopy(d)'
      BY <1>2, <2>2 DEF Unmixed, OneCopy
    <2>4. StaysRestricted(d)'
      BY <1>2, <1>3, <2>1, <2>2 DEF Unmixed, StaysRestricted
    <2>5. ~Fresh(d)'
      BY <1>6 DEF Trouble, Fresh, CopyInv
    <2> QED BY <2>3, <2>4, <2>5 DEF Unmixed, ServedOnce
  <1> QED BY <1>4, <1>5, <1>6

LEMMA PublishLoadedStaysUnmixed ==
  ASSUME StoredInv, CopyInv, NEW k \in Thread, PublishLoaded(k), NEW d \in Peer \ mixed', d = Of(k)
  PROVE  Unmixed(d)'
  <1>1. Threads(k) /\ ~LookUp(k)
    BY DEF Threads, LookUp, PublishLoaded
  <1>2. /\ d \in Peer /\ d # Nobody /\ Unmixed(d) /\ TypeInv
        /\ plan' = plan /\ Thread' = Thread /\ \A j \in Thread : Of(j)' = Of(j)
        /\ Fresh(d)' => Fresh(d)
        /\ \A j \in Thread : j # k => thread'[j] = thread[j]
        /\ \A j \in Thread : j # k => (HasCopy(j, d)' <=> HasCopy(j, d))
        /\ windows' = windows /\ \A i : Shows(i, d)' <=> Shows(i, d)
        /\ choice' = choice /\ served' = served /\ served[d] \in Nat
    BY <1>1, OwnThread
  <1>3. HasCopy(k, d) /\ thread[k].pc = "publish"
    BY DEF PublishLoaded, HasCopy
  <1> DEFINE p == IF plan.threads[k].request = "load" THEN "over" ELSE "restrict"
  <1>4. thread'[k].pc = p /\ thread'[k].copy = thread[k].copy
    <2>1. Follows(k)
      BY <1>2, ThreadSteps
    <2>2. Goes(k, p, thread[k].copy, thread[k].admitted)
      BY <2>1 DEF Follows
    <2> QED BY <1>2, <2>2 DEF Goes, Row, TypeInv
  <1>5. DeviceWritten(db', db, thread[k].copy) /\ thread[k].copy.deviceId = d
    BY <1>2, <1>3, WritesOfThreads DEF CopyInv, CopiesOfThreads
  <1>6. /\ IsStored(db', d)
        /\ \A row \in ToSet(db'["devices"]) : row.deviceId = d => row = thread[k].copy
    BY <1>2, <1>5, WrittenHere
  <1>7. /\ \A j \in Thread \ {k} : ~HasCopy(j, d)
        /\ \A i \in DOMAIN windows : ~Shows(i, d)
    BY <1>2, <1>3 DEF Unmixed, OneCopy
  <1>8. OneCopy(d)'
    BY <1>2, <1>7 DEF OneCopy
  <1>9. StaysRestricted(d)'
    <2>1. choice[d] = "restricted" => thread[k].copy.isRestricted
      BY <1>2, <1>3 DEF Unmixed, StaysRestricted
    <2>2. choice[d] = "restricted" => AllRestricted(db', d)
      BY <1>6, <2>1 DEF AllRestricted
    <2> QED BY <1>2, <1>4, <1>6, <1>7, <2>2 DEF StaysRestricted
  <1>10. ServedOnce(d)'
    <2> SUFFICES ASSUME Fresh(d)' PROVE ServedOnce(d)'
      BY DEF ServedOnce
    <2>1. Fresh(d)
      BY <1>2
    <2>2. p = "restrict"
      BY <1>3, <2>1 DEF Fresh, LoadStarted, HasCopy
    <2>3. HasCopy(k, d)'
      BY <1>2, <1>4, <2>2 DEF HasCopy, PublishLoaded
    <2>4. served[d] <= 1 /\ served[d] # 0
      BY <1>2, <1>3, <2>1 DEF Unmixed, ServedOnce
    <2>5. \A j \in Thread : HasCopy(j, d)' => j = k
      BY <1>2, <1>7
    <2>6. \A i \in DOMAIN windows' : ~Shows(i, d)'
      BY <1>2, <1>7
    <2>7. \A j \in Thread : HasCopy(j, d)' => thread'[j].copy.deviceId = d
      BY <1>4, <1>5, <2>5
    <2> HIDE DEF p
    <2> QED BY <1>2, <1>4, <2>2, <2>3, <2>4, <2>6, <2>7 DEF ServedOnce
  <1> QED BY <1>8, <1>9, <1>10 DEF Unmixed

LEMMA RestrictNewStaysUnmixed ==
  ASSUME StoredInv, CopyInv, NEW k \in Thread, RestrictNew(k), NEW d \in Peer \ mixed', d = Of(k)
  PROVE  Unmixed(d)'
  <1>1. Threads(k) /\ ~LookUp(k)
    BY DEF Threads, LookUp, RestrictNew
  <1>2. /\ d \in Peer /\ d # Nobody /\ Unmixed(d) /\ TypeInv
        /\ plan' = plan /\ Thread' = Thread /\ \A j \in Thread : Of(j)' = Of(j)
        /\ Fresh(d)' => Fresh(d)
        /\ \A j \in Thread : j # k => thread'[j] = thread[j]
        /\ \A j \in Thread : j # k => (HasCopy(j, d)' <=> HasCopy(j, d))
        /\ windows' = windows /\ \A i : Shows(i, d)' <=> Shows(i, d)
        /\ choice' = choice /\ served' = served /\ served[d] \in Nat
    BY <1>1, OwnThread
  <1>3. HasCopy(k, d) /\ thread[k].pc = "restrict"
    BY DEF RestrictNew, HasCopy
  <1>4. thread'[k].pc = "connect"
    <2>1. Follows(k)
      BY <1>2, ThreadSteps
    <2>2. Goes(k, "connect", Restricted(thread[k].copy), thread[k].admitted)
      BY <2>1 DEF Follows
    <2> QED BY <1>2, <2>2 DEF Goes, Row, TypeInv
  <1>5. /\ DeviceWritten(db', db, Restricted(thread[k].copy))
        /\ Restricted(thread[k].copy).deviceId = thread[k].copy.deviceId
        /\ Restricted(thread[k].copy).isRestricted
        /\ thread[k].copy.deviceId \in {d, Nobody}
    <2>1. thread[k].copy \in DeviceRows
      BY <1>2, ThreadFields
    <2> QED BY <1>2, <1>3, <2>1, WritesOfThreads, DeviceFields DEF CopyInv, CopiesOfThreads
  <1>6. /\ \A j \in Thread \ {k} : ~HasCopy(j, d)
        /\ \A i \in DOMAIN windows : ~Shows(i, d)
    BY <1>2, <1>3 DEF Unmixed, OneCopy
  <1>7. /\ \A j \in Thread : ~HasCopy(j, d)'
        /\ \A i \in DOMAIN windows' : ~Shows(i, d)'
    BY <1>2, <1>4, <1>6 DEF HasCopy
  <1>8. OneCopy(d)'
    BY <1>2, <1>7 DEF OneCopy
  <1>9. thread[k].copy.deviceId = d => IsStored(db', d) /\ AllRestricted(db', d)
    <2> SUFFICES ASSUME thread[k].copy.deviceId = d PROVE IsStored(db', d) /\ AllRestricted(db', d)
      OBVIOUS
    <2>1. /\ IsStored(db', d)
          /\ \A row \in ToSet(db'["devices"]) : row.deviceId = d => row = Restricted(thread[k].copy)
      BY <1>2, <1>5, WrittenHere
    <2> QED BY <1>5, <2>1 DEF AllRestricted
  <1>10. StaysRestricted(d)'
    <2>1. ASSUME choice[d] = "restricted", thread[k].copy.deviceId = Nobody
          PROVE  IsStored(db', d) /\ AllRestricted(db', d)
      <3>1. IsStored(db, d) /\ AllRestricted(db, d)
        BY <1>2, <2>1 DEF Unmixed, StaysRestricted
      <3>2. SameRows(d)
        BY <1>2, <1>5, <2>1, WrittenElsewhere
      <3> QED BY <3>1, <3>2 DEF SameRows, IsStored, AllRestricted
    <2> QED BY <1>2, <1>5, <1>7, <1>9, <2>1 DEF StaysRestricted
  <1>11. ServedOnce(d)'
    <2> SUFFICES ASSUME Fresh(d)' PROVE ServedOnce(d)'
      BY DEF ServedOnce
    <2>1. thread[k].copy.deviceId = d /\ served[d] <= 1
      BY <1>2, <1>3 DEF Unmixed, ServedOnce
    <2> QED BY <1>2, <1>7, <1>9, <2>1 DEF ServedOnce
  <1> QED BY <1>8, <1>10, <1>11 DEF Unmixed

LEMMA ThreadsStayUnmixed ==
  ASSUME StoredInv, CopyInv, NEW k \in Thread, Threads(k), NEW d \in Peer \ mixed'
  PROVE  Unmixed(d)'
  <1>1. CASE d # Of(k)
    BY <1>1, ThreadKeepsOthers
  <1>2. CASE d = Of(k)
    <2>1. CASE \/ Connect(k) \/ RecordPeer(k) \/ PublishText(k) \/ FindShare(k) \/ UpdateAdapter(k) \/ TestActive(k)
               \/ StartJob(k)
      BY <1>2, <2>1, WithoutCopyStaysUnmixed
    <2>2. CASE LookUp(k)
      BY <1>2, <2>2, LookUpStaysUnmixed
    <2>3. CASE StartLoad(k)
      BY <1>2, <2>3, StartLoadStaysUnmixed
    <2>4. CASE LoadDevice(k)
      BY <1>2, <2>4, LoadDeviceStaysUnmixed
    <2>5. CASE PublishLoaded(k)
      BY <1>2, <2>5, PublishLoadedStaysUnmixed
    <2>6. CASE RestrictNew(k)
      BY <1>2, <2>6, RestrictNewStaysUnmixed
    <2> QED BY <2>1, <2>2, <2>3, <2>4, <2>5, <2>6 DEF Threads
  <1> QED BY <1>1, <1>2

\* The windows in which a device is read or written.
OfDevices ==
  \/ \E d \in Peer : ToggleRestricted(d) \/ OpenMenu(d)
  \/ MenuRestrict \/ MenuTrust \/ MenuRemove \/ ShowBlocked \/ BlockedAllow

LEMMA OwnWindow ==
  ASSUME StoredInv, CopyInv, OfDevices \/ Others, NEW d \in Peer \ mixed'
  PROVE  /\ d \in Peer /\ d # Nobody /\ Unmixed(d) /\ TypeInv
         /\ plan' = plan /\ Thread' = Thread /\ thread' = thread
         /\ choice'[d] = choice[d] => (Fresh(d)' => Fresh(d))
         /\ SameHolders(d) /\ \A j \in Thread : HasCopy(j, d)' <=> HasCopy(j, d)
  <1>1. [DesktopNext]_desktopVars
    BY DEF OfDevices, Others, DesktopNext, DeviceWindows
  <1>2. thread' = thread
    BY DEF OfDevices, ToggleRestricted, OpenMenu, MenuRestrict, MenuTrust, MenuRemove, ShowBlocked, BlockedAllow,
           Others, AttachTask, DetachTask, AddAssignee, AddRows, RefuseShare, BlockedDeny, CloseBox, TransferWindows,
           MainToggle, MainStart, ShowTransfer, CloseDialog, AssigneeChanged, DialogToggle, DialogRemove,
           ConfirmRemove, DialogRetry, DialogReselect, desktopVars
  <1>3. /\ d \in Peer /\ d # Nobody /\ Unmixed(d) /\ TypeInv /\ plan' = plan /\ Thread' = Thread
        /\ \A j \in Thread : Of(j)' = Of(j)
        /\ choice'[d] = choice[d] => (Fresh(d)' => Fresh(d))
    BY <1>1, BeforeStep
  <1>4. SameHolders(d) /\ \A j \in Thread : HasCopy(j, d)' <=> HasCopy(j, d)
    BY <1>2, <1>3 DEF SameHolders, HasCopy
  <1> QED BY <1>2, <1>3, <1>4

LEMMA OthersStayUnmixed ==
  ASSUME StoredInv, CopyInv, Others, NEW d \in Peer \ mixed'
  PROVE  Unmixed(d)'
  <1>1. /\ d \in Peer /\ Unmixed(d) /\ TypeInv /\ plan' = plan
        /\ choice'[d] = choice[d] => (Fresh(d)' => Fresh(d))
        /\ SameHolders(d)
    BY OwnWindow
  <1>2. choice' = choice /\ served' = served
    BY DEF Others, AttachTask, DetachTask, AddAssignee, AddRows, RefuseShare, BlockedDeny, CloseBox, TransferWindows,
           MainToggle, MainStart, ShowTransfer, CloseDialog, AssigneeChanged, DialogToggle, DialogRemove,
           ConfirmRemove, DialogRetry, DialogReselect, desktopVars, history
  <1>3. windows' = windows \/ (windows # <<>> /\ Close) \/ DialogRemove
    BY DEF Others, AttachTask, DetachTask, AddAssignee, AddRows, RefuseShare, BlockedDeny, CloseBox, TransferWindows,
           MainToggle, MainStart, ShowTransfer, CloseDialog, AssigneeChanged, DialogToggle,
           ConfirmRemove, DialogRetry, DialogReselect, desktopVars, devices, OnTop
  <1>4. DialogRemove => SameWindows(d)
    BY DEF DialogRemove, SameWindows, Shows
  <1>5. SameWindows(d)
    BY <1>1, <1>3, <1>4, WindowsAsBefore, ClosingShowsNothing
  <1>6. SameRows(d)
    BY OthersKeepDevices, SameDevices
  <1>7. SameChoice(d)
    BY <1>1, <1>2 DEF SameChoice
  <1> QED BY <1>1, <1>5, <1>6, <1>7, UntouchedStaysUnmixed

\* A device whose rows are written while nobody has a copy of it, as the user has chosen.
LEMMA ChosenStaysUnmixed ==
  ASSUME NEW d, d # Nobody, Thread' = Thread, \A k \in Thread : ~HasCopy(k, d)', \A i \in DOMAIN windows' : ~Shows(i, d)',
         NEW copy, copy.deviceId = d, DeviceWritten(db', db, copy),
         choice'[d] = IF copy.isRestricted THEN "restricted" ELSE "allowed"
  PROVE  Unmixed(d)'
  <1>1. /\ IsStored(db', d)
        /\ \A row \in ToSet(db'["devices"]) : row.deviceId = d => row = copy
    BY WrittenHere
  <1>2. OneCopy(d)'
    BY DEF OneCopy
  <1>3. StaysRestricted(d)'
    <2>1. choice'[d] = "restricted" => AllRestricted(db', d)
      BY <1>1 DEF AllRestricted
    <2> QED BY <1>1, <2>1 DEF StaysRestricted
  <1>4. ~Fresh(d)'
    BY DEF Fresh
  <1> QED BY <1>2, <1>3, <1>4 DEF Unmixed, ServedOnce

LEMMA ToggleStaysUnmixed ==
  ASSUME StoredInv, CopyInv, NEW e \in Peer, ToggleRestricted(e), NEW d \in Peer \ mixed'
  PROVE  Unmixed(d)'
  <1>1. /\ d \in Peer /\ d # Nobody /\ Unmixed(d) /\ TypeInv /\ plan' = plan /\ Thread' = Thread
        /\ choice'[d] = choice[d] => (Fresh(d)' => Fresh(d))
        /\ SameHolders(d) /\ \A j \in Thread : HasCopy(j, d)' <=> HasCopy(j, d)
    BY OwnWindow DEF OfDevices
  <1> DEFINE b == ~Device(e).isRestricted
             new == [Device(e) EXCEPT !.isRestricted = b]
  <1>2. DeviceWritten(db', db, new) /\ new.deviceId = e /\ new.isRestricted = b
    <2>1. Device(e) \in DeviceRows /\ Device(e).deviceId = e
      BY <1>1, KnownDevice DEF ToggleRestricted, TypeInv, DataInv
    <2>2. DeviceWritten(db', db, [Device(e) EXCEPT !.isRestricted = ~Device(e).isRestricted])
      BY <1>1, WritesOfWindows
    <2> QED BY <2>1, <2>2, RewrittenCopies
  <1>3. windows' = windows /\ windows = <<>>
    BY DEF ToggleRestricted, devices, AtMainWindow
  <1>4. choice' = [choice EXCEPT ![e] = IF b THEN "restricted" ELSE "allowed"] /\ served' = served
    BY DEF ToggleRestricted, Choose
  <1> HIDE DEF b, new
  <1>5. CASE d # e
    <2>1. SameRows(d)
      BY <1>2, <1>5, WrittenElsewhere
    <2>2. SameWindows(d)
      BY <1>1, <1>3, WindowsAsBefore
    <2>3. SameChoice(d)
      BY <1>1, <1>4, <1>5 DEF SameChoice, CopyInv
    <2> QED BY <1>1, <2>1, <2>2, <2>3, UntouchedStaysUnmixed
  <1>6. CASE d = e
    <2>1. Mix(d, Thread, windows)
      BY <1>6 DEF ToggleRestricted
    <2>2. \A j \in Thread : ~HasCopy(j, d)
      BY <1>1, <2>1, NobodyElseCopied DEF TypeInv
    <2>3. \A i \in DOMAIN windows' : ~Shows(i, d)'
      BY <1>3
    <2>4. choice'[d] = IF new.isRestricted THEN "restricted" ELSE "allowed"
      BY <1>1, <1>2, <1>4, <1>6 DEF CopyInv
    <2> QED BY <1>1, <1>2, <1>6, <2>2, <2>3, <2>4, ChosenStaysUnmixed
  <1> QED BY <1>5, <1>6

\* The window on top, which closes: it was the only copy of its device.
LEMMA TopCopy ==
  ASSUME StoredInv, CopyInv, NEW kind, kind # "remove", OnTop(kind), Close
  PROVE  /\ windows # <<>> /\ Last(windows).copy \in DeviceRows /\ Last(windows).copy.deviceId \in Peer
         /\ Last(windows).copy.isRestricted \in BOOLEAN /\ Last(windows).copy.isTrusted \in BOOLEAN
         /\ Shows(Len(windows), Last(windows).copy.deviceId) /\ windows[Len(windows)] = Last(windows)
         /\ \A d : SameWindows(d)
         /\ \A d : d = Last(windows).copy.deviceId /\ Unmixed(d) =>
              /\ \A i \in DOMAIN windows' : ~Shows(i, d)'
              /\ \A k \in Thread : ~HasCopy(k, d)
  <1>1. windows # <<>> /\ TypeInv /\ Last(windows).kind # "remove"
    BY DEF OnTop, StoredInv
  <1>2. Last(windows) = windows[Len(windows)] /\ Len(windows) \in DOMAIN windows
    BY <1>1, TopWindow DEF TypeInv
  <1>3. Shows(Len(windows), Last(windows).copy.deviceId)
    BY <1>1, <1>2 DEF Shows
  <1>4. Last(windows).copy.deviceId \in Peer
    BY <1>1, <1>2 DEF CopyInv, CopiesOfWindows
  <1>5. /\ Last(windows).copy \in DeviceRows
        /\ Last(windows).copy.isRestricted \in BOOLEAN /\ Last(windows).copy.isTrusted \in BOOLEAN
    BY <1>1, WindowCopies
  <1>6. \A d : SameWindows(d) /\ (Shows(Len(windows), d) /\ OneCopy(d) => \A i \in DOMAIN windows' : ~Shows(i, d)')
    BY <1>1, ClosingShowsNothing
  <1>7. \A d : d = Last(windows).copy.deviceId /\ Unmixed(d) => \A k \in Thread : ~HasCopy(k, d)
    BY <1>2, <1>3 DEF Unmixed, OneCopy
  <1> QED BY <1>1, <1>2, <1>3, <1>4, <1>5, <1>6, <1>7 DEF Unmixed

LEMMA ChoosingStaysUnmixed ==
  ASSUME StoredInv, CopyInv, MenuRestrict \/ BlockedAllow, NEW d \in Peer \ mixed'
  PROVE  Unmixed(d)'
  <1>1. /\ d \in Peer /\ d # Nobody /\ Unmixed(d) /\ TypeInv /\ plan' = plan /\ Thread' = Thread
        /\ choice'[d] = choice[d] => (Fresh(d)' => Fresh(d))
        /\ SameHolders(d) /\ \A j \in Thread : HasCopy(j, d)' <=> HasCopy(j, d)
    BY OwnWindow DEF OfDevices
  <1> DEFINE copy == Last(windows).copy
             b == IF MenuRestrict THEN ~copy.isRestricted ELSE FALSE
             new == [copy EXCEPT !.isRestricted = b]
  <1>2. /\ copy \in DeviceRows /\ copy.deviceId \in Peer /\ copy.isRestricted \in BOOLEAN
        /\ SameWindows(d)
        /\ d = copy.deviceId => /\ \A i \in DOMAIN windows' : ~Shows(i, d)'
                                /\ \A k \in Thread : ~HasCopy(k, d)
    <2>1. (OnTop("menu") \/ OnTop("blocked")) /\ Close
      BY DEF MenuRestrict, BlockedAllow
    <2> QED BY <1>1, <2>1, TopCopy
  <1>3. new.deviceId = copy.deviceId /\ new.isRestricted = b /\ b \in BOOLEAN
    <2>1. b \in BOOLEAN
      BY <1>2
    <2> HIDE DEF b, copy
    <2> QED BY <1>2, <2>1, RewrittenCopies
  <1>4. DeviceWritten(db', db, new)
    BY <1>1, WritesOfWindows
  <1>5. choice' = [choice EXCEPT ![copy.deviceId] = IF b THEN "restricted" ELSE "allowed"] /\ served' = served
    <2>1. CASE MenuRestrict
      <3>1. Choose(new.deviceId, new.isRestricted)
        BY <2>1 DEF MenuRestrict
      <3> HIDE DEF new, copy
      <3> QED BY <1>3, <2>1, <3>1 DEF Choose, MenuRestrict
    <2>2. CASE ~MenuRestrict /\ BlockedAllow
      <3>1. Choose(new.deviceId, FALSE) /\ ~b
        BY <2>2 DEF BlockedAllow
      <3> HIDE DEF new, copy
      <3> QED BY <1>3, <2>2, <3>1 DEF Choose, BlockedAllow
    <2> QED BY <2>1, <2>2
  <1> HIDE DEF b, new, copy
  <1>6. CASE d # copy.deviceId
    <2>1. SameRows(d)
      BY <1>3, <1>4, <1>6, WrittenElsewhere
    <2>2. SameChoice(d)
      BY <1>1, <1>5, <1>6 DEF SameChoice, CopyInv
    <2> QED BY <1>1, <1>2, <2>1, <2>2, UntouchedStaysUnmixed
  <1>7. CASE d = copy.deviceId
    <2>1. choice'[d] = IF new.isRestricted THEN "restricted" ELSE "allowed"
      BY <1>1, <1>3, <1>5, <1>7 DEF CopyInv
    <2> QED BY <1>1, <1>2, <1>3, <1>4, <1>7, <2>1, ChosenStaysUnmixed
  <1> QED BY <1>6, <1>7

LEMMA TrustStaysUnmixed ==
  ASSUME StoredInv, CopyInv, MenuTrust, NEW d \in Peer \ mixed'
  PROVE  Unmixed(d)'
  <1>1. /\ d \in Peer /\ d # Nobody /\ Unmixed(d) /\ TypeInv /\ plan' = plan /\ Thread' = Thread
        /\ choice'[d] = choice[d] => (Fresh(d)' => Fresh(d))
        /\ SameHolders(d) /\ \A j \in Thread : HasCopy(j, d)' <=> HasCopy(j, d)
    BY OwnWindow DEF OfDevices
  <1> DEFINE copy == Last(windows).copy
             new == [copy EXCEPT !.isTrusted = ~copy.isTrusted]
  <1>2. /\ copy \in DeviceRows /\ copy.deviceId \in Peer /\ copy.isTrusted \in BOOLEAN
        /\ SameWindows(d)
        /\ Shows(Len(windows), copy.deviceId) /\ windows[Len(windows)].copy = copy
        /\ d = copy.deviceId => /\ \A i \in DOMAIN windows' : ~Shows(i, d)'
                                /\ \A k \in Thread : ~HasCopy(k, d)
    <2>1. OnTop("menu") /\ Close
      BY DEF MenuTrust
    <2> QED BY <1>1, <2>1, TopCopy
  <1>3. new.deviceId = copy.deviceId /\ new.isRestricted = copy.isRestricted
    <2> HIDE DEF copy
    <2> QED BY <1>2, RewrittenCopies
  <1>4. DeviceWritten(db', db, new)
    BY <1>1, WritesOfWindows
  <1>5. choice' = choice /\ served' = served
    BY DEF MenuTrust, history
  <1> HIDE DEF new, copy
  <1>6. CASE d # copy.deviceId
    <2>1. SameRows(d)
      BY <1>3, <1>4, <1>6, WrittenElsewhere
    <2>2. SameChoice(d)
      BY <1>1, <1>5 DEF SameChoice
    <2> QED BY <1>1, <1>2, <2>1, <2>2, UntouchedStaysUnmixed
  <1>7. CASE d = copy.deviceId
    <2>1. /\ IsStored(db', d)
          /\ \A row \in ToSet(db'["devices"]) : row.deviceId = d => row = new
      BY <1>1, <1>3, <1>4, <1>7, WrittenHere
    <2>2. /\ \A k \in Thread : ~HasCopy(k, d)'
          /\ \A i \in DOMAIN windows' : ~Shows(i, d)'
      BY <1>1, <1>2, <1>7
    <2>3. copy.isRestricted => AllRestricted(db', d)
      BY <1>3, <2>1 DEF AllRestricted
    <2>4. OneCopy(d)'
      BY <1>1, <2>2 DEF OneCopy
    <2>5. Len(windows) \in DOMAIN windows /\ Shows(Len(windows), d)
      BY <1>2, <1>7 DEF Shows
    <2>6. StaysRestricted(d)'
      <3>1. choice[d] = "restricted" => copy.isRestricted
        BY <1>1, <1>2, <2>5 DEF Unmixed, StaysRestricted
      <3> QED BY <1>1, <1>5, <2>1, <2>2, <2>3, <3>1 DEF StaysRestricted
    <2>7. ServedOnce(d)'
      <3> SUFFICES ASSUME Fresh(d)' PROVE ServedOnce(d)'
        BY DEF ServedOnce
      <3>1. Fresh(d)
        BY <1>1, <1>5
      <3>2. copy.isRestricted /\ served[d] <= 1
        BY <1>1, <1>2, <2>5, <3>1 DEF Unmixed, ServedOnce
      <3> QED BY <1>1, <1>5, <2>1, <2>2, <2>3, <3>2 DEF ServedOnce
    <2> QED BY <2>4, <2>6, <2>7 DEF Unmixed
  <1> QED BY <1>6, <1>7

LEMMA RemovalStaysUnmixed ==
  ASSUME StoredInv, CopyInv, MenuRemove, NEW d \in Peer \ mixed'
  PROVE  Unmixed(d)'
  <1>1. /\ d \in Peer /\ d # Nobody /\ Unmixed(d) /\ TypeInv /\ plan' = plan /\ Thread' = Thread
        /\ choice'[d] = choice[d] => (Fresh(d)' => Fresh(d))
        /\ SameHolders(d) /\ \A j \in Thread : HasCopy(j, d)' <=> HasCopy(j, d)
    BY OwnWindow DEF OfDevices
  <1> DEFINE e == Last(windows).copy.deviceId
  <1>2. /\ e \in Peer /\ SameWindows(d)
        /\ d = e => /\ \A i \in DOMAIN windows' : ~Shows(i, d)'
                    /\ \A k \in Thread : ~HasCopy(k, d)
    <2>1. OnTop("menu") /\ Close
      BY DEF MenuRemove
    <2> QED BY <1>1, <2>1, TopCopy
  <1>3. db' = RemoveDevice(db, e) /\ choice' = [choice EXCEPT ![e] = "none"] /\ served' = [served EXCEPT ![e] = 0]
    BY DEF MenuRemove, Changed
  <1> HIDE DEF e
  <1>4. \A row : row \in ToSet(db'["devices"]) <=> row \in ToSet(db["devices"]) /\ row.deviceId # e
    <2>1. RemovesDevice(db', db, e)
      BY <1>1, <1>3, RemoveDeviceRemovesAll DEF TypeInv, DataInv
    <2> QED BY <2>1, MatchesDevice DEF RemovesDevice, Remaining
  <1>5. CASE d # e
    <2>1. SameRows(d)
      BY <1>4, <1>5 DEF SameRows
    <2>2. SameChoice(d)
      BY <1>1, <1>3, <1>5 DEF SameChoice, CopyInv
    <2> QED BY <1>1, <1>2, <2>1, <2>2, UntouchedStaysUnmixed
  <1>6. CASE d = e
    <2>1. choice'[d] = "none" /\ served'[d] = 0
      BY <1>1, <1>3, <1>6 DEF CopyInv
    <2>2. /\ \A k \in Thread : ~HasCopy(k, d)'
          /\ \A i \in DOMAIN windows' : ~Shows(i, d)'
      BY <1>1, <1>2, <1>6
    <2>3. ~IsStored(db', d)
      BY <1>4, <1>6 DEF IsStored
    <2>4. OneCopy(d)' /\ StaysRestricted(d)'
      BY <1>1, <2>1, <2>2 DEF OneCopy, StaysRestricted
    <2>5. ServedOnce(d)'
      BY <1>1, <2>1, <2>2, <2>3 DEF ServedOnce
    <2> QED BY <2>4, <2>5 DEF Unmixed
  <1> QED BY <1>5, <1>6

\* A copy that is the only one, shown in a window.
LEMMA ShownStaysUnmixed ==
  ASSUME StoredInv, NEW d, d \in Peer, Unmixed(d), IsKnown(d), Thread' = Thread, db' = db,
         \A j \in Thread : ~HasCopy(j, d)', \A j \in Thread : ~HasCopy(j, d),
         choice'[d] = choice[d], served'[d] = served[d], Fresh(d)' => Fresh(d),
         NEW n, \A i \in DOMAIN windows' : Shows(i, d)' => i = n /\ windows'[i].copy = Device(d)
  PROVE  Unmixed(d)'
  <1>1. IsStored(db, d) /\ Device(d) \in ToSet(db["devices"]) /\ Device(d).deviceId = d
    BY KnownDevice DEF StoredInv, TypeInv, DataInv
  <1>2. AllRestricted(db, d) => Device(d).isRestricted
    BY <1>1 DEF AllRestricted
  <1>3. OneCopy(d)'
    BY DEF OneCopy
  <1>4. StaysRestricted(d)'
    BY <1>1, <1>2 DEF Unmixed, StaysRestricted
  <1>5. ServedOnce(d)'
    <2> SUFFICES ASSUME Fresh(d)' PROVE ServedOnce(d)'
      BY DEF ServedOnce
    <2>1. AllRestricted(db, d) /\ served[d] <= 1
      BY <1>1 DEF Unmixed, ServedOnce
    <2> QED BY <1>1, <1>2, <2>1 DEF ServedOnce
  <1> QED BY <1>3, <1>4, <1>5 DEF Unmixed

LEMMA MenuStaysUnmixed ==
  ASSUME StoredInv, CopyInv, NEW e \in Peer, OpenMenu(e), NEW d \in Peer \ mixed'
  PROVE  Unmixed(d)'
  <1>1. /\ d \in Peer /\ d # Nobody /\ Unmixed(d) /\ TypeInv /\ plan' = plan /\ Thread' = Thread
        /\ choice'[d] = choice[d] => (Fresh(d)' => Fresh(d))
        /\ SameHolders(d) /\ \A j \in Thread : HasCopy(j, d)' <=> HasCopy(j, d)
    BY OwnWindow DEF OfDevices
  <1> DEFINE w == [kind |-> "menu", copy |-> Device(e)]
  <1>2. /\ windows' = <<w>> /\ IsKnown(e) /\ db' = db /\ choice' = choice /\ served' = served
        /\ Mix(e, Thread, windows)
    BY DEF OpenMenu
  <1>3. w.copy = Device(e) /\ Device(e).deviceId = e
    BY <1>1, <1>2, KnownDevice DEF TypeInv, DataInv
  <1> HIDE DEF w
  <1>4. \A i \in DOMAIN windows' : i = 1 /\ windows'[i] = w
    BY <1>2
  <1>5. CASE d # e
    <2>1. SameWindows(d)
      BY <1>3, <1>4, <1>5 DEF SameWindows, Shows
    <2>2. SameRows(d) /\ SameChoice(d)
      BY <1>1, <1>2, SameDevices DEF SameChoice
    <2> QED BY <1>1, <2>1, <2>2, UntouchedStaysUnmixed
  <1>6. CASE d = e
    <2>1. \A j \in Thread : ~HasCopy(j, d)
      BY <1>1, <1>2, <1>6, NobodyElseCopied DEF TypeInv
    <2>2. \A i \in DOMAIN windows' : Shows(i, d)' => i = 1 /\ windows'[i].copy = Device(d)
      BY <1>3, <1>4, <1>6
    <2> QED BY <1>1, <1>2, <1>6, <2>1, <2>2, ShownStaysUnmixed
  <1> QED BY <1>5, <1>6

LEMMA AppendedWindow ==
  ASSUME windows \in Seq(WindowRows), NEW w, windows' = Append(windows, w)
  PROVE  \A i \in DOMAIN windows' : \/ i \in DOMAIN windows /\ windows'[i] = windows[i]
                                    \/ i = Len(windows) + 1 /\ windows'[i] = w
  <1>1. /\ DOMAIN windows' = 1 .. Len(windows) + 1 /\ Len(windows) \in Nat /\ DOMAIN windows = 1 .. Len(windows)
        /\ \A i \in 1 .. Len(windows) : windows'[i] = windows[i]
        /\ windows'[Len(windows) + 1] = w
    <2> DEFINE S == WindowRows \cup {w}
    <2>1. windows \in Seq(S) /\ w \in S
      BY SeqMonotonic
    <2> HIDE DEF S
    <2> QED BY <2>1
  <1>2. \A i \in DOMAIN windows' : i \in DOMAIN windows \/ i = Len(windows) + 1
    BY <1>1
  <1> QED BY <1>1, <1>2

LEMMA BlockedBoxStaysUnmixed ==
  ASSUME StoredInv, CopyInv, ShowBlocked, NEW d \in Peer \ mixed'
  PROVE  Unmixed(d)'
  <1>1. /\ d \in Peer /\ d # Nobody /\ Unmixed(d) /\ TypeInv /\ plan' = plan /\ Thread' = Thread
        /\ choice'[d] = choice[d] => (Fresh(d)' => Fresh(d))
        /\ SameHolders(d) /\ \A j \in Thread : HasCopy(j, d)' <=> HasCopy(j, d)
    BY OwnWindow DEF OfDevices
  <1> DEFINE e == Head(signalled)
             w == [kind |-> "blocked", copy |-> Device(e)]
  <1>2. /\ windows' = IF IsKnown(e) THEN Append(windows, w) ELSE windows
        /\ db' = db /\ choice' = choice /\ served' = served
        /\ Mix(e, Thread, windows)
    BY DEF ShowBlocked
  <1>3. IsKnown(e) => w.copy = Device(e) /\ Device(e).deviceId = e
    BY <1>1, KnownDevice DEF TypeInv, DataInv
  <1> HIDE DEF w, e
  <1>4. SameRows(d) /\ SameChoice(d)
    BY <1>1, <1>2, SameDevices DEF SameChoice
  <1>5. CASE ~IsKnown(e)
    BY <1>1, <1>2, <1>4, <1>5, WindowsAsBefore, UntouchedStaysUnmixed
  <1>6. CASE IsKnown(e)
    <2>1. \A i \in DOMAIN windows' : \/ i \in DOMAIN windows /\ windows'[i] = windows[i]
                                     \/ i = Len(windows) + 1 /\ windows'[i] = w
      BY <1>1, <1>2, <1>6, AppendedWindow DEF TypeInv
    <2>2. CASE d # e
      <3>1. SameWindows(d)
        BY <1>3, <1>6, <2>1, <2>2 DEF SameWindows, Shows
      <3> QED BY <1>1, <1>4, <3>1, UntouchedStaysUnmixed
    <2>3. CASE d = e
      <3>1. /\ \A j \in Thread : ~HasCopy(j, d)
            /\ \A i \in DOMAIN windows : ~Shows(i, d)
        BY <1>1, <1>2, <2>3, NobodyElseCopied DEF TypeInv
      <3>2. \A i \in DOMAIN windows' : Shows(i, d)' => i = Len(windows) + 1 /\ windows'[i].copy = w.copy
        BY <2>1, <3>1 DEF Shows
      <3>3. w.copy = Device(d) /\ IsKnown(d)
        BY <1>3, <1>6, <2>3
      <3>4. \A i \in DOMAIN windows' : Shows(i, d)' => i = Len(windows) + 1 /\ windows'[i].copy = Device(d)
        BY <3>2, <3>3
      <3>5. PICK n : n = Len(windows) + 1
        OBVIOUS
      <3>6. \A i \in DOMAIN windows' : Shows(i, d)' => i = n /\ windows'[i].copy = Device(d)
        BY <3>4, <3>5
      <3>7. /\ \A j \in Thread : ~HasCopy(j, d)' /\ ~HasCopy(j, d)
            /\ d \in Peer /\ Unmixed(d) /\ IsKnown(d) /\ Thread' = Thread /\ db' = db
            /\ choice'[d] = choice[d] /\ served'[d] = served[d] /\ (Fresh(d)' => Fresh(d))
        BY <1>1, <1>2, <3>1, <3>3
      <3> HIDE DEF e
      <3> QED BY <3>6, <3>7, ShownStaysUnmixed
    <2> QED BY <2>2, <2>3
  <1> QED BY <1>5, <1>6

LEMMA StepsAre ==
  [DesktopNext]_desktopVars => (\E k \in Thread : Threads(k)) \/ OfDevices \/ Others
  BY DEF DesktopNext, DeviceWindows, OfDevices, Others

LEMMA NextStaysUnmixed ==
  ASSUME StoredInv, CopyInv, [DesktopNext]_desktopVars, NEW d \in Peer \ mixed'
  PROVE  Unmixed(d)'
  <1>1. CASE \E k \in Thread : Threads(k)
    BY <1>1, ThreadsStayUnmixed
  <1>2. CASE Others
    BY <1>2, OthersStayUnmixed
  <1>3. CASE OfDevices
    <2>1. CASE \E e \in Peer : ToggleRestricted(e) \/ OpenMenu(e)
      BY <2>1, ToggleStaysUnmixed, MenuStaysUnmixed
    <2>2. CASE MenuRestrict \/ BlockedAllow
      BY <2>2, ChoosingStaysUnmixed
    <2>3. CASE MenuTrust \/ MenuRemove \/ ShowBlocked
      BY <2>3, TrustStaysUnmixed, RemovalStaysUnmixed, BlockedBoxStaysUnmixed
    <2> QED BY <1>3, <2>1, <2>2, <2>3 DEF OfDevices
  <1> QED BY <1>1, <1>2, <1>3, StepsAre

\* Whose copies they are.
LEMMA NextKeepsThreadCopies ==
  ASSUME StoredInv, CopyInv, [DesktopNext]_desktopVars
  PROVE  CopiesOfThreads'
  <1>1. /\ plan' = plan /\ Thread' = Thread /\ (\A j \in Thread : Of(j)' = Of(j))
        /\ TypeInv /\ CopiesOfThreads
    BY PlanStays DEF Thread, Of, StoredInv, CopyInv
  <1>2. ASSUME NEW k \in Thread, NEW p, NEW c, NEW a, Goes(k, p, c, a),
               p = "publish" => c.deviceId = Of(k), p = "restrict" => c.deviceId \in {Of(k), Nobody}
        PROVE  CopiesOfThreads'
    <2>1. /\ thread'[k].pc = p /\ thread'[k].copy = c
          /\ \A j \in Thread : j # k => thread'[j] = thread[j]
      BY <1>1, <1>2 DEF Goes, Row, TypeInv
    <2>2. \A j \in Thread : /\ thread'[j].pc = "publish" => thread'[j].copy.deviceId = Of(j)
                            /\ thread'[j].pc = "restrict" => thread'[j].copy.deviceId \in {Of(j), Nobody}
      BY <1>1, <1>2, <2>1 DEF CopiesOfThreads
    <2> QED BY <1>1, <2>2 DEF CopiesOfThreads
  <1>3. ASSUME NEW k \in Thread, Threads(k) PROVE CopiesOfThreads'
    <2> DEFINE copy == IF IsKnown(Of(k)) THEN Device(Of(k)) ELSE NewDevice(Of(k))
               p == IF plan.threads[k].request = "load" THEN "over" ELSE "restrict"
               q == IF Of(k) \in blocked THEN "over" ELSE "lookup"
    <2>1. Follows(k)
      BY <1>1, ThreadSteps
    <2>2. CASE LoadDevice(k)
      <3>1. \/ Goes(k, "publish", copy, thread[k].admitted)
            \/ Goes(k, p, UnknownDevice, thread[k].admitted)
        BY <2>1, <2>2 DEF Follows
      <3>2. copy.deviceId = Of(k) /\ UnknownDevice.deviceId = Nobody
        BY <1>1, OfPeer, KnownDevice, DeviceFields DEF TypeInv, DataInv
      <3>3. p # "publish"
        OBVIOUS
      <3> HIDE DEF copy, p
      <3>4. ASSUME Goes(k, "publish", copy, thread[k].admitted) PROVE CopiesOfThreads'
        BY <1>2, <3>2, <3>4
      <3>5. ASSUME Goes(k, p, UnknownDevice, thread[k].admitted) PROVE CopiesOfThreads'
        BY <1>2, <3>2, <3>3, <3>5
      <3> QED BY <3>1, <3>4, <3>5
    <2>3. CASE PublishLoaded(k)
      <3>1. Goes(k, p, thread[k].copy, thread[k].admitted) /\ thread[k].copy.deviceId = Of(k)
        BY <1>1, <2>1, <2>3 DEF Follows, PublishLoaded, CopiesOfThreads
      <3>2. p # "publish"
        OBVIOUS
      <3> HIDE DEF p
      <3> QED BY <1>2, <3>1, <3>2
    <2>4. CASE ~LoadDevice(k) /\ ~PublishLoaded(k)
      <3>1. \E r, c, a : r \notin {"publish", "restrict"} /\ Goes(k, r, c, a)
        <4>1. CASE LookUp(k)
          <5>1. \/ Goes(k, "connect", Device(Of(k)), Admits(Of(k)))
                \/ Goes(k, "load", thread[k].copy, Admits(Of(k)))
            BY <2>1, <4>1 DEF Follows
          <5>2. "connect" \notin {"publish", "restrict"} /\ "load" \notin {"publish", "restrict"}
            OBVIOUS
          <5> QED BY <5>1, <5>2
        <4>2. CASE RestrictNew(k)
          <5>1. Goes(k, "connect", Restricted(thread[k].copy), thread[k].admitted)
            BY <2>1, <4>2 DEF Follows
          <5>2. "connect" \notin {"publish", "restrict"}
            OBVIOUS
          <5> QED BY <5>1, <5>2
        <4>3. CASE ~LookUp(k) /\ ~RestrictNew(k)
          <5>1. \/ Goes(k, q, thread[k].copy, thread[k].admitted)
                \/ \E r \in {"load", "over", "text", "find", "adapter", "test", "start"} :
                      Goes(k, r, thread[k].copy, thread[k].admitted)
            BY <1>3, <2>1, <2>4, <4>3 DEF Follows, Threads
          <5>2. q \notin {"publish", "restrict"}
            OBVIOUS
          <5>3. \A r \in {"load", "over", "text", "find", "adapter", "test", "start"} : r \notin {"publish", "restrict"}
            OBVIOUS
          <5> HIDE DEF q
          <5> QED BY <5>1, <5>2, <5>3
        <4> QED BY <4>1, <4>2, <4>3
      <3>2. PICK r, c, a : r \notin {"publish", "restrict"} /\ Goes(k, r, c, a)
        BY <3>1
      <3> QED BY <1>2, <3>2
    <2> QED BY <2>2, <2>3, <2>4
  <1>4. ASSUME OfDevices \/ Others PROVE CopiesOfThreads'
    <2>1. thread' = thread
      BY <1>4 DEF OfDevices, ToggleRestricted, OpenMenu, MenuRestrict, MenuTrust, MenuRemove, ShowBlocked,
           BlockedAllow, Others, AttachTask, DetachTask, AddAssignee, AddRows, RefuseShare, BlockedDeny, CloseBox,
           TransferWindows, MainToggle, MainStart, ShowTransfer, CloseDialog, AssigneeChanged, DialogToggle,
           DialogRemove, ConfirmRemove, DialogRetry, DialogReselect, desktopVars
    <2> QED BY <1>1, <2>1 DEF CopiesOfThreads
  <1> QED BY <1>3, <1>4, StepsAre

LEMMA NextKeepsWindowCopies ==
  ASSUME StoredInv, CopyInv, [DesktopNext]_desktopVars
  PROVE  CopiesOfWindows'
  <1>1. TypeInv /\ CopiesOfWindows
    BY DEF StoredInv, CopyInv
  <1>2. ASSUME windows' = windows PROVE CopiesOfWindows'
    BY <1>1, <1>2 DEF CopiesOfWindows
  <1>3. ASSUME windows # <<>>, Close PROVE CopiesOfWindows'
    <2>1. /\ windows' = Front(windows) /\ DOMAIN Front(windows) = 1 .. Len(windows) - 1
          /\ DOMAIN windows = 1 .. Len(windows) /\ Len(windows) \in Nat
          /\ \A i \in DOMAIN Front(windows) : Front(windows)[i] = windows[i]
      BY <1>1, <1>3, TopWindow DEF TypeInv, Close
    <2> QED BY <1>1, <2>1 DEF CopiesOfWindows
  <1>4. ASSUME NEW e \in Peer, OpenMenu(e) PROVE CopiesOfWindows'
    <2> DEFINE w == [kind |-> "menu", copy |-> Device(e)]
    <2>1. windows' = <<w>> /\ w.copy.deviceId = e
      BY <1>1, <1>4, KnownDevice DEF OpenMenu, TypeInv, DataInv
    <2> HIDE DEF w
    <2> QED BY <2>1 DEF CopiesOfWindows
  <1>5. ASSUME ShowBlocked PROVE CopiesOfWindows'
    <2> DEFINE e == Head(signalled)
               w == [kind |-> "blocked", copy |-> Device(e)]
    <2>1. e \in Peer
      BY <1>1, <1>5 DEF ShowBlocked, TypeInv
    <2>2. windows' = IF IsKnown(e) THEN Append(windows, w) ELSE windows
      BY <1>5 DEF ShowBlocked
    <2>3. IsKnown(e) => w.copy.deviceId = e
      BY <1>1, KnownDevice DEF TypeInv, DataInv
    <2> HIDE DEF e, w
    <2>4. ASSUME IsKnown(e) PROVE CopiesOfWindows'
      <3>1. \A i \in DOMAIN windows' : \/ i \in DOMAIN windows /\ windows'[i] = windows[i]
                                       \/ i = Len(windows) + 1 /\ windows'[i] = w
        BY <1>1, <2>2, <2>4, AppendedWindow DEF TypeInv
      <3> QED BY <1>1, <2>1, <2>3, <2>4, <3>1 DEF CopiesOfWindows
    <2> QED BY <1>2, <2>2, <2>4
  <1>6. ASSUME DialogRemove PROVE CopiesOfWindows'
    BY <1>6 DEF DialogRemove, CopiesOfWindows
  <1>7. ASSUME NEW k \in Thread, Threads(k) PROVE windows' = windows
    BY <1>1, <1>7, ThreadMoves
  <1>8. ASSUME OfDevices \/ Others
        PROVE  \/ windows' = windows \/ (windows # <<>> /\ Close) \/ (\E e \in Peer : OpenMenu(e))
               \/ ShowBlocked \/ DialogRemove
    BY <1>8 DEF OfDevices, ToggleRestricted, MenuRestrict, MenuTrust, MenuRemove, BlockedAllow, OnTop, devices,
         Others, AttachTask, DetachTask, AddAssignee, AddRows, RefuseShare, BlockedDeny, CloseBox, TransferWindows,
         MainToggle, MainStart, ShowTransfer, CloseDialog, AssigneeChanged, DialogToggle, ConfirmRemove, DialogRetry,
         DialogReselect, desktopVars
  <1> QED BY <1>2, <1>3, <1>4, <1>5, <1>6, <1>7, <1>8, StepsAre

LEMMA NextKeepsCopies == StoredInv /\ CopyInv /\ [DesktopNext]_desktopVars => CopyInv'
  <1> SUFFICES ASSUME StoredInv, CopyInv, [DesktopNext]_desktopVars PROVE CopyInv'
    OBVIOUS
  <1>1. TypeInv /\ trouble \in Nat /\ choice \in [Peer -> {"none", "restricted", "allowed"}] /\ served \in [Peer -> Nat]
    BY DEF StoredInv, CopyInv
  <1>2. trouble' \in Nat
    BY <1>1, TroubleGrows
  <1>3. choice' = choice \/ \E d, c : c \in {"none", "restricted", "allowed"} /\ choice' = [choice EXCEPT ![d] = c]
    <2>1. ASSUME NEW k \in Thread, Threads(k) PROVE choice' = choice
      BY <1>1, <2>1, ThreadMoves
    <2>2. OfDevices => choice' = choice \/ (\E d, b : Choose(d, b)) \/ (\E d : choice' = [choice EXCEPT ![d] = "none"])
      BY DEF OfDevices, ToggleRestricted, OpenMenu, MenuRestrict, MenuTrust, MenuRemove, ShowBlocked, BlockedAllow, history
    <2>3. Others => choice' = choice
      BY DEF Others, AttachTask, DetachTask, AddAssignee, AddRows, RefuseShare, BlockedDeny, CloseBox, TransferWindows,
             MainToggle, MainStart, ShowTransfer, CloseDialog, AssigneeChanged, DialogToggle, DialogRemove,
             ConfirmRemove, DialogRetry, DialogReselect, desktopVars, history
    <2>4. ASSUME NEW d, NEW b, Choose(d, b)
          PROVE  \E c : c \in {"none", "restricted", "allowed"} /\ choice' = [choice EXCEPT ![d] = c]
      BY <2>4 DEF Choose
    <2> QED BY <2>1, <2>2, <2>3, <2>4, StepsAre
  <1>4. served' \in [Peer -> Nat]
    <2>1. ASSUME NEW k \in Thread, Threads(k) PROVE served' = served \/ served' = [served EXCEPT ![Of(k)] = @ + 1]
      <3>1. LookUp(k) => served' = served \/ served' = [served EXCEPT ![Of(k)] = @ + 1]
        BY DEF LookUp
      <3> QED BY <1>1, <2>1, <3>1, ThreadMoves
    <2>2. OfDevices => served' = served \/ \E d : served' = [served EXCEPT ![d] = 0]
      BY DEF OfDevices, ToggleRestricted, OpenMenu, MenuRestrict, MenuTrust, MenuRemove, ShowBlocked, BlockedAllow, history
    <2>3. Others => served' = served
      BY DEF Others, AttachTask, DetachTask, AddAssignee, AddRows, RefuseShare, BlockedDeny, CloseBox, TransferWindows,
             MainToggle, MainStart, ShowTransfer, CloseDialog, AssigneeChanged, DialogToggle, DialogRemove,
             ConfirmRemove, DialogRetry, DialogReselect, desktopVars, history
    <2>4. ASSUME NEW k \in Thread, served' = [served EXCEPT ![Of(k)] = @ + 1] PROVE served' \in [Peer -> Nat]
      <3>1. Of(k) \in Peer
        BY <1>1, OfPeer
      <3> QED BY <1>1, <2>4, <3>1
    <2>5. ASSUME NEW d, served' = [served EXCEPT ![d] = 0] PROVE served' \in [Peer -> Nat]
      BY <1>1, <2>5
    <2> QED BY <1>1, <2>1, <2>2, <2>3, <2>4, <2>5, StepsAre
  <1>5. choice' \in [Peer -> {"none", "restricted", "allowed"}]
    BY <1>1, <1>3
  <1>6. \A d \in Peer \ mixed' : Unmixed(d)'
    BY NextStaysUnmixed
  <1>7. CopiesOfThreads' /\ CopiesOfWindows'
    BY NextKeepsThreadCopies, NextKeepsWindowCopies
  <1> QED BY <1>2, <1>4, <1>5, <1>6, <1>7 DEF CopyInv

LEMMA InitCopies == DesktopInit => CopyInv
  <1> SUFFICES ASSUME DesktopInit PROVE CopyInv
    OBVIOUS
  <1> DEFINE D == DOMAIN plan.known
             known == SetToSeq(D)
             n == Cardinality(D)
             devs == [i \in DOMAIN known |-> plan.known[known[i]]]
  <1>1. /\ IsFiniteSet(D)
        /\ \A d \in D : plan.known[d] \in [deviceId: {d}, isTrusted: BOOLEAN, isRestricted: BOOLEAN]
    BY SituationsAssumption DEF DesktopInit
  <1>2. /\ DOMAIN known = 1 .. n /\ n \in Nat
        /\ \A i \in 1 .. n : known[i] \in D
        /\ \A d \in D : \E i \in 1 .. n : known[i] = d
    BY <1>1, SequenceOfSet
  <1>3. db["devices"] = devs
    <2>1. \E conns, groups, shares, rows :
            db = [NewDatabase EXCEPT !["devices"] = devs, !["deviceConnection"] = conns, !["transferGroup"] = groups,
                                     !["transferAssignee"] = shares, !["transfer"] = rows]
      BY DEF DesktopInit
    <2> HIDE DEF devs
    <2> QED BY <2>1, RowTables DEF NewDatabase
  <1>4. ToSet(devs) = {plan.known[known[i]] : i \in 1 .. n}
    <2>1. devs = [i \in 1 .. n |-> plan.known[known[i]]]
      BY <1>2
    <2> HIDE DEF known, n, D
    <2>2. DOMAIN devs = 1 .. n /\ devs = [i \in 1 .. n |-> devs[i]]
      BY <2>1
    <2> HIDE DEF devs
    <2>3. ToSet(devs) = {devs[i] : i \in 1 .. n}
      BY <1>2, <2>2, RowsAsFunction
    <2> QED BY <2>1, <2>3
  <1>5. /\ \A row \in ToSet(db["devices"]) : row.deviceId \in D /\ row = plan.known[row.deviceId]
        /\ \A d \in D : plan.known[d] \in ToSet(db["devices"]) /\ plan.known[d].deviceId = d
    <2>1. \A d \in D : plan.known[d].deviceId = d
      BY <1>1
    <2>2. ToSet(db["devices"]) = {plan.known[known[i]] : i \in 1 .. n}
      BY <1>3, <1>4
    <2> HIDE DEF known, n, D
    <2>3. ASSUME NEW i \in 1 .. n
          PROVE  plan.known[known[i]].deviceId \in D /\ plan.known[plan.known[known[i]].deviceId] = plan.known[known[i]]
      <3>1. known[i] \in D /\ plan.known[known[i]].deviceId = known[i]
        BY <1>2, <2>1
      <3> QED BY <3>1
    <2>4. ASSUME NEW d \in D PROVE plan.known[d] \in ToSet(db["devices"])
      <3>1. PICK i \in 1 .. n : known[i] = d
        BY <1>2
      <3> QED BY <2>2, <3>1
    <2> QED BY <2>1, <2>2, <2>3, <2>4
  <1>6. /\ \A k \in Thread : thread[k].pc = "closed"
        /\ windows = <<>> /\ trouble = 0
        /\ \A d \in Peer : served[d] = 0
        /\ \A d \in Peer : choice[d] = IF d \notin D THEN "none" ELSE IF plan.known[d].isRestricted THEN "restricted" ELSE "allowed"
    BY DEF DesktopInit
  <1>7. /\ choice \in [Peer -> {"none", "restricted", "allowed"}]
        /\ served \in [Peer -> Nat]
    BY DEF DesktopInit
  <1> HIDE DEF D, known, n, devs
  <1>8. ASSUME NEW d \in Peer PROVE Unmixed(d)
    <2>1. \A k \in Thread : ~HasCopy(k, d)
      BY <1>6 DEF HasCopy
    <2>2. \A i \in DOMAIN windows : ~Shows(i, d)
      BY <1>6
    <2>3. OneCopy(d)
      BY <2>1, <2>2 DEF OneCopy
    <2>4. StaysRestricted(d)
      <3> SUFFICES ASSUME choice[d] = "restricted" PROVE IsStored(db, d) /\ AllRestricted(db, d)
        BY <2>1, <2>2 DEF StaysRestricted
      <3>1. d \in D /\ plan.known[d].isRestricted
        BY <1>6
      <3> QED BY <1>5, <3>1 DEF IsStored, AllRestricted
    <2>5. ServedOnce(d)
      <3> SUFFICES ASSUME Fresh(d) PROVE ServedOnce(d)
        BY DEF ServedOnce
      <3>1. d \notin D
        BY <1>6 DEF Fresh
      <3>2. ~IsStored(db, d)
        BY <1>5, <3>1 DEF IsStored
      <3> QED BY <1>6, <2>1, <2>2, <3>2 DEF ServedOnce
    <2> QED BY <2>3, <2>4, <2>5 DEF Unmixed
  <1>9. CopiesOfThreads /\ CopiesOfWindows
    BY <1>6 DEF CopiesOfThreads, CopiesOfWindows
  <1> QED BY <1>6, <1>7, <1>8, <1>9 DEF CopyInv

\* While a device is not mixed there is one copy of it that is written back, and that copy, like the
\* rows, is restricted when the device is to be (NetworkDeviceLoader::load and the menus and boxes
\* of MainWindow and ManageDevicesDialog): CopyInv holds in every situation.
THEOREM CopiesInvariant == DesktopSpec => []CopyInv
  <1>1. StoredInv /\ CopyInv /\ [DesktopNext]_desktopVars => CopyInv'
    BY NextKeepsCopies
  <1> QED BY <1>1, InitCopies, StoredInvariant, PTL DEF DesktopSpec

\* A device the user has restricted stays restricted, and one that nobody has allowed is served
\* once, although its copies are read and written by threads, menus and boxes; unless somebody
\* else held a copy of it when one of them was made, its identity came from a load of its own, or
\* it could not be asked (CommunicationServer::connected, NetworkDeviceLoader::load).
THEOREM RefusalsStand == DesktopSpec => []RestrictedAreRefused
  <1>1. StoredInv /\ CopyInv => RestrictedAreRefused
    <2> SUFFICES ASSUME StoredInv, CopyInv, NEW d \in Peer \ mixed
                 PROVE  /\ choice[d] = "restricted" => IsKnown(d) /\ Device(d).isRestricted
                        /\ choice[d] = "none" /\ trouble = 0 => served[d] <= 1 \/ LoadStarted(d)
      BY DEF RestrictedAreRefused, LoadStarted
    <2>1. Unmixed(d)
      BY DEF CopyInv
    <2>2. choice[d] = "restricted" => IsStored(db, d) /\ AllRestricted(db, d)
      BY <2>1 DEF Unmixed, StaysRestricted
    <2>3. /\ IsKnown(d) <=> IsStored(db, d)
          /\ IsKnown(d) => Device(d) \in ToSet(db["devices"]) /\ Device(d).deviceId = d
      BY KnownDevice DEF StoredInv, TypeInv, DataInv
    <2>4. choice[d] = "restricted" => IsKnown(d) /\ Device(d).isRestricted
      BY <2>2, <2>3 DEF AllRestricted
    <2>5. choice[d] = "none" /\ trouble = 0 => served[d] <= 1 \/ LoadStarted(d)
      BY <2>1 DEF Unmixed, ServedOnce, Fresh
    <2> QED BY <2>4, <2>5
  <1> QED BY <1>1, StoredInvariant, CopiesInvariant, PTL
================================================================================
