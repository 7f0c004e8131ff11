-------------------------- MODULE AccessDatabaseProofs --------------------------
(***************************************************************************)
(* What the operations of the database do to the sets of rows of the       *)
(* tables.                                                                 *)
(***************************************************************************)
EXTENDS AccessDatabase, SelectionProofs, FiniteSetTheorems

IsTable(rows) == \E S : rows \in Seq(S)

IsDatabase(db) ==
  /\ db = [t \in Tables \cup {"files"} |-> db[t]]
  /\ \A t \in Tables : IsTable(db[t])

\* An operation that changes no tables but those in T.
ChangesOnly(new, old, T) == IsDatabase(new) /\ \A t \in Tables \ T : new[t] = old[t]

Matching(rows, where)  == {row \in ToSet(rows) : Matches(row, where)}
Remaining(rows, where) == {row \in ToSet(rows) : ~Matches(row, where)}

Added(rows, row)       == ToSet(rows) \cup {row}

LEMMA FilesIsNoTable == "files" \notin Tables
  BY DEF Tables

LEMMA TableDomain ==
  ASSUME NEW rows, IsTable(rows)
  PROVE  DOMAIN rows = 1 .. Len(rows) /\ Len(rows) \in Nat
  BY DEF IsTable

\* contains: a row of the selection is there.
LEMMA HasARow ==
  ASSUME NEW db, NEW s
  PROVE  Has(db, s) <=> \E row \in ToSet(db[s.table]) : Matches(row, s.where)
  BY DEF Has, Chosen, ToSet

\* castQuery returns the rows of the selection.
LEMMA RowsOfSelection ==
  ASSUME NEW db, NEW s, IsTable(db[s.table])
  PROVE  /\ IsTable(Rows(db, s))
         /\ ToSet(Rows(db, s)) = Matching(db[s.table], s.where)
         /\ Rows(db, s) = <<>> <=> ~Has(db, s)
         /\ Len(Rows(db, s)) <= Len(db[s.table])
         /\ Has(db, s) => /\ Len(Rows(db, s)) \in Nat /\ Len(Rows(db, s)) > 0
                          /\ Rows(db, s)[1] \in Matching(db[s.table], s.where)
  <1> DEFINE rows == db[s.table]
             T    == Chosen(rows, s.where)
  <1>1. PICK S : rows \in Seq(S)
    BY DEF IsTable
  <1>2. Rows(db, s) = Selected(rows, T)
    BY DEF Rows
  <1>3. IsTable(Rows(db, s))
    BY <1>1, <1>2, SelectedInOrder DEF IsTable
  <1>4. ToSet(Rows(db, s)) = {rows[i] : i \in {i \in DOMAIN rows : i \in T}}
    <2> HIDE DEF rows, T
    <2>1. {Selected(rows, T)[j] : j \in DOMAIN Selected(rows, T)} = {rows[i] : i \in {i \in DOMAIN rows : i \in T}}
      BY <1>1, SelectedElements
    <2> QED BY <1>2, <2>1 DEF ToSet
  <1>5. ToSet(Rows(db, s)) = Matching(rows, s.where)
    BY <1>4 DEF Chosen, Matching, ToSet
  <1>6. Rows(db, s) = <<>> <=> ToSet(Rows(db, s)) = {}
    <2> DEFINE r == Rows(db, s)
    <2> HIDE DEF r
    <2>1. PICK R : r \in Seq(R)
      BY <1>3 DEF IsTable, r
    <2>2. r = <<>> <=> DOMAIN r = {}
      BY <2>1
    <2> QED BY <2>2 DEF ToSet, r
  <1>7. Has(db, s) <=> Matching(rows, s.where) # {}
    BY HasARow DEF Matching
  <1>8. ASSUME Has(db, s)
        PROVE  /\ Len(Rows(db, s)) \in Nat /\ Len(Rows(db, s)) > 0
               /\ Rows(db, s)[1] \in Matching(rows, s.where)
    <2>1. Rows(db, s) # <<>>
      BY <1>5, <1>6, <1>7, <1>8
    <2>2. Len(Rows(db, s)) \in Nat /\ Len(Rows(db, s)) > 0
      BY <1>3, <2>1 DEF IsTable
    <2>3. Rows(db, s)[1] \in ToSet(Rows(db, s))
      BY <1>3, <2>2, TableDomain DEF ToSet
    <2> QED BY <1>5, <2>2, <2>3
  <1>9. Len(Rows(db, s)) <= Len(rows)
    <2> HIDE DEF rows, T
    <2> QED BY <1>1, <1>2, SelectedIsShorter
  <1> QED
    BY <1>3, <1>5, <1>6, <1>7, <1>8, <1>9

LEMMA NewDatabaseIsOne == IsDatabase(NewDatabase) /\ \A t \in Tables : ToSet(NewDatabase[t]) = {}
  <1>1. \A t \in Tables : NewDatabase[t] = <<>>
    BY FilesIsNoTable DEF NewDatabase
  <1>2. IsTable(<<>>) /\ ToSet(<<>>) = {}
    BY DEF IsTable, ToSet
  <1> QED
    BY <1>1, <1>2 DEF IsDatabase, NewDatabase

\* Replacing one table leaves a database, with the other tables as they were.
LEMMA TableReplaced ==
  ASSUME NEW db, IsDatabase(db), NEW t \in Tables, NEW rows, IsTable(rows)
  PROVE  /\ ChangesOnly([db EXCEPT ![t] = rows], db, {t})
         /\ [db EXCEPT ![t] = rows][t] = rows
  BY DEF IsDatabase, ChangesOnly

LEMMA FilesReplaced ==
  ASSUME NEW db, IsDatabase(db), NEW files
  PROVE  ChangesOnly([db EXCEPT !.files = files], db, {})
  BY FilesIsNoTable DEF IsDatabase, ChangesOnly

LEMMA InsertAddsRow ==
  ASSUME NEW db, IsDatabase(db), NEW t \in Tables, NEW object
  PROVE  /\ ChangesOnly(Insert(db, t, object), db, {t})
         /\ ToSet(Insert(db, t, object)[t]) = Added(db[t], object)
         /\ Len(Insert(db, t, object)[t]) = Len(db[t]) + 1
  <1> DEFINE rows == Append(db[t], object)
  <1>1. PICK S : db[t] \in Seq(S)
    BY DEF IsDatabase, IsTable
  <1>2. /\ rows \in Seq(S \cup {object}) /\ Len(rows) = Len(db[t]) + 1 /\ Len(db[t]) \in Nat
        /\ \A i \in 1 .. Len(db[t]) : rows[i] = db[t][i]
        /\ rows[Len(db[t]) + 1] = object
    <2>1. db[t] \in Seq(S \cup {object})
      BY <1>1
    <2> QED BY <2>1
  <1>3. ToSet(rows) = ToSet(db[t]) \cup {object}
    <2>1. DOMAIN rows = 1 .. Len(db[t]) + 1 /\ DOMAIN db[t] = 1 .. Len(db[t])
      BY <1>1, <1>2
    <2>2. ASSUME NEW x \in ToSet(rows) PROVE x \in ToSet(db[t]) \cup {object}
      <3>1. PICK i \in 1 .. Len(db[t]) + 1 : x = rows[i]
        BY <2>1 DEF ToSet
      <3>2. CASE i = Len(db[t]) + 1
        BY <1>2, <3>1, <3>2
      <3>3. CASE i \in 1 .. Len(db[t])
        BY <1>2, <2>1, <3>1, <3>3 DEF ToSet
      <3> QED BY <1>2, <3>1, <3>2, <3>3
    <2>3. ASSUME NEW x \in ToSet(db[t]) PROVE x \in ToSet(rows)
      <3>1. PICK i \in 1 .. Len(db[t]) : x = db[t][i]
        BY <2>1 DEF ToSet
      <3>2. i \in DOMAIN rows /\ rows[i] = x
        BY <1>2, <2>1, <3>1
      <3> QED BY <3>2 DEF ToSet
    <2>4. object \in ToSet(rows)
      <3>1. Len(db[t]) + 1 \in DOMAIN rows
        BY <1>2, <2>1
      <3> QED BY <1>2, <3>1 DEF ToSet
    <2> QED BY <2>2, <2>3, <2>4
  <1>4. IsTable(rows)
    BY <1>2 DEF IsTable
  <1>5. Insert(db, t, object) = [db EXCEPT ![t] = rows]
    BY DEF Insert
  <1> HIDE DEF rows
  <1>6. /\ ChangesOnly([db EXCEPT ![t] = rows], db, {t})
        /\ [db EXCEPT ![t] = rows][t] = rows
    BY <1>4, TableReplaced
  <1> QED
    BY <1>2, <1>3, <1>5, <1>6 DEF Added

LEMMA DeleteRemovesRows ==
  ASSUME NEW db, IsDatabase(db), NEW s, s.table \in Tables
  PROVE  /\ ChangesOnly(Delete(db, s), db, {s.table})
         /\ ToSet(Delete(db, s)[s.table]) = Remaining(db[s.table], s.where)
         /\ Len(Delete(db, s)[s.table]) <= Len(db[s.table])
  <1> DEFINE rows == db[s.table]
             T    == DOMAIN rows \ Chosen(rows, s.where)
  <1>1. PICK S : rows \in Seq(S)
    BY DEF IsDatabase, IsTable
  <1>2. IsTable(Selected(rows, T))
    BY <1>1, SelectedInOrder DEF IsTable
  <1>3. ToSet(Selected(rows, T)) = {rows[i] : i \in {i \in DOMAIN rows : i \in T}}
    <2> HIDE DEF rows, T
    <2> QED BY <1>1, SelectedElements DEF ToSet
  <1>4. ToSet(Selected(rows, T)) = Remaining(rows, s.where)
    BY <1>3 DEF Chosen, Remaining, ToSet
  <1>5. Delete(db, s) = [db EXCEPT ![s.table] = Selected(rows, T)]
    BY DEF Delete
  <1> HIDE DEF rows, T
  <1>7. Len(Selected(rows, T)) <= Len(rows)
    BY <1>1, SelectedIsShorter
  <1> DEFINE left == Selected(rows, T)
  <1> HIDE DEF left
  <1>6. /\ ChangesOnly([db EXCEPT ![s.table] = left], db, {s.table})
        /\ [db EXCEPT ![s.table] = left][s.table] = left
    BY <1>2, TableReplaced DEF left
  <1> QED
    BY <1>4, <1>5, <1>6, <1>7 DEF left, rows

\* A selected row with the values written over it.
Rewritten(row, where, values) == IF Matches(row, where) THEN Updated(row, values) ELSE row

LEMMA UpdateRewritesRows ==
  ASSUME NEW db, IsDatabase(db), NEW s, s.table \in Tables, NEW values
  PROVE  /\ ChangesOnly(Update(db, s, values), db, {s.table})
         /\ ToSet(Update(db, s, values)[s.table])
              = {Rewritten(row, s.where, values) : row \in ToSet(db[s.table])}
         /\ Len(Update(db, s, values)[s.table]) = Len(db[s.table])
         /\ \A i \in 1 .. Len(db[s.table]) :
              Update(db, s, values)[s.table][i] = Rewritten(db[s.table][i], s.where, values)
  <1> DEFINE old  == db[s.table]
             rows == [i \in DOMAIN old |-> Rewritten(old[i], s.where, values)]
  <1>1. DOMAIN old = 1 .. Len(old) /\ Len(old) \in Nat
    BY TableDomain DEF IsDatabase
  <1>2. rows \in Seq(ToSet(rows)) /\ Len(rows) = Len(old)
    BY <1>1 DEF ToSet
  <1>3. IsTable(rows)
    BY <1>2 DEF IsTable
  <1>4. ToSet(rows) = {Rewritten(row, s.where, values) : row \in ToSet(old)}
    BY DEF ToSet
  <1>5. Update(db, s, values) = [db EXCEPT ![s.table] = rows]
    BY DEF Update, Rewritten
  <1>6. \A i \in 1 .. Len(old) : rows[i] = Rewritten(old[i], s.where, values)
    BY <1>1
  <1> HIDE DEF rows
  <1>7. /\ ChangesOnly([db EXCEPT ![s.table] = rows], db, {s.table})
        /\ [db EXCEPT ![s.table] = rows][s.table] = rows
    BY <1>3, TableReplaced
  <1> QED
    BY <1>2, <1>4, <1>5, <1>6, <1>7

\* publish: the rows of the selection are rewritten, or there is a new one.
LEMMA PublishWritesRow ==
  ASSUME NEW db, IsDatabase(db), NEW s, s.table \in Tables, NEW object
  PROVE  /\ ChangesOnly(Publish(db, s, object), db, {s.table})
         /\ Has(db, s) => ToSet(Publish(db, s, object)[s.table])
                            = {Rewritten(row, s.where, object) : row \in ToSet(db[s.table])}
         /\ ~Has(db, s) => ToSet(Publish(db, s, object)[s.table]) = Added(db[s.table], object)
  <1>1. CASE Has(db, s)
    <2>1. Publish(db, s, object) = Update(db, s, object)
      BY <1>1 DEF Publish
    <2>2. /\ ChangesOnly(Update(db, s, object), db, {s.table})
          /\ ToSet(Update(db, s, object)[s.table])
               = {Rewritten(row, s.where, object) : row \in ToSet(db[s.table])}
      BY UpdateRewritesRows
    <2> QED BY <1>1, <2>1, <2>2
  <1>2. CASE ~Has(db, s)
    <2>1. Publish(db, s, object) = Insert(db, s.table, object)
      BY <1>2 DEF Publish
    <2>2. /\ ChangesOnly(Insert(db, s.table, object), db, {s.table})
          /\ ToSet(Insert(db, s.table, object)[s.table]) = Added(db[s.table], object)
      BY InsertAddsRow
    <2> QED BY <1>2, <2>1, <2>2
  <1> QED BY <1>1, <1>2

-----------------------------------------------------------------------------
(* Selections *)

LEMMA MatchesGroup ==
  ASSUME NEW row, NEW g
  PROVE  /\ Matches(row, WhereGroup(g).where) <=> row.id = g
         /\ Matches(row, AssigneesOf(g).where) <=> row.groupId = g
         /\ Matches(row, DivisionOf(g).where) <=> row.groupId = g
         /\ Matches(row, [groupId |-> g]) <=> row.groupId = g
  BY DEF Matches, WhereGroup, AssigneesOf, DivisionOf

LEMMA MatchesDevice ==
  ASSUME NEW row, NEW d
  PROVE  /\ Matches(row, WhereDevice(d).where) <=> row.deviceId = d
         /\ Matches(row, ConnectionsOf(d).where) <=> row.deviceId = d
         /\ Matches(row, [deviceId |-> d]) <=> row.deviceId = d
  BY DEF Matches, WhereDevice, ConnectionsOf

LEMMA MatchesShare ==
  ASSUME NEW row, NEW g, NEW d
  PROVE  /\ Matches(row, WhereAssignee(g, d).where) <=> row.groupId = g /\ row.deviceId = d
         /\ Matches(row, ShareOf(g, d).where) <=> row.groupId = g /\ row.deviceId = d
  BY DEF Matches, WhereAssignee, ShareOf

LEMMA SelectedTables ==
  ASSUME NEW g, NEW d
  PROVE  /\ WhereGroup(g).table = "transferGroup" /\ AssigneesOf(g).table = "transferAssignee"
         /\ DivisionOf(g).table = "divisTransfer" /\ WhereAssignee(g, d).table = "transferAssignee"
         /\ ShareOf(g, d).table = "transfer" /\ WhereDevice(d).table = "devices"
         /\ ConnectionsOf(d).table = "deviceConnection"
         /\ {"transfer", "divisTransfer", "transferGroup", "devices", "deviceConnection",
             "clipboard", "transferAssignee"} = Tables
  BY DEF WhereGroup, AssigneesOf, DivisionOf, WhereAssignee, ShareOf, WhereDevice, ConnectionsOf, Tables

\* One operation after another.
LEMMA ChangesCompose ==
  ASSUME NEW a, NEW b, NEW c, NEW T, NEW U, ChangesOnly(b, a, T), ChangesOnly(c, b, U)
  PROVE  ChangesOnly(c, a, T \cup U)
  BY DEF ChangesOnly

LEMMA UnchangedRows ==
  ASSUME NEW a, NEW b, NEW T, ChangesOnly(b, a, T), NEW t \in Tables, t \notin T
  PROVE  b[t] = a[t]
  BY DEF ChangesOnly

-----------------------------------------------------------------------------
(* Removals *)

LEMMA RemoveObjectsRemovesRows ==
  ASSUME NEW db, IsDatabase(db), NEW s, s.table \in Tables
  PROVE  /\ ChangesOnly(RemoveObjects(db, s), db, {s.table})
         /\ ToSet(RemoveObjects(db, s)[s.table]) = Remaining(db[s.table], s.where)
  <1> DEFINE new == Delete(db, s)
  <1>1. PICK files : RemoveObjects(db, s) = [new EXCEPT !.files = files]
    BY DEF RemoveObjects
  <1>2. ChangesOnly(new, db, {s.table}) /\ ToSet(new[s.table]) = Remaining(db[s.table], s.where)
    BY DeleteRemovesRows
  <1> HIDE DEF new
  <1>3. IsDatabase(new)
    BY <1>2 DEF ChangesOnly
  <1>4. ChangesOnly(RemoveObjects(db, s), new, {})
    BY <1>1, <1>3, FilesReplaced
  <1>5. RemoveObjects(db, s)[s.table] = new[s.table]
    BY <1>4, UnchangedRows
  <1>6. ChangesOnly(RemoveObjects(db, s), db, {s.table} \cup {})
    BY <1>2, <1>4, ChangesCompose
  <1>7. {s.table} \cup {} = {s.table}
    OBVIOUS
  <1> QED
    BY <1>2, <1>5, <1>6, <1>7

\* A share that is removed: its assignee and its rows.
LEMMA RemoveAssigneeRemovesShare ==
  ASSUME NEW db, IsDatabase(db), NEW g, NEW d
  PROVE  /\ ChangesOnly(RemoveAssignee(db, g, d), db, {"transferAssignee", "transfer"})
         /\ ToSet(RemoveAssignee(db, g, d)["transferAssignee"])
              = Remaining(db["transferAssignee"], WhereAssignee(g, d).where)
         /\ Len(RemoveAssignee(db, g, d)["transferAssignee"]) <= Len(db["transferAssignee"])
         /\ ToSet(RemoveAssignee(db, g, d)["transfer"]) = Remaining(db["transfer"], ShareOf(g, d).where)
  <1> DEFINE one == Delete(db, WhereAssignee(g, d))
             two == RemoveAssignee(db, g, d)
  <1>0. "transferAssignee" \in Tables /\ "transfer" \in Tables /\ "transfer" # "transferAssignee"
    BY DEF Tables
  <1>1. /\ ChangesOnly(one, db, {"transferAssignee"})
        /\ ToSet(one["transferAssignee"]) = Remaining(db["transferAssignee"], WhereAssignee(g, d).where)
        /\ Len(one["transferAssignee"]) <= Len(db["transferAssignee"])
    BY <1>0, SelectedTables, DeleteRemovesRows
  <1>2. two = RemoveObjects(one, ShareOf(g, d)) \/ two = Delete(one, ShareOf(g, d))
    BY DEF RemoveAssignee
  <1> HIDE DEF one, two
  <1>3. IsDatabase(one)
    BY <1>1 DEF ChangesOnly
  <1>4. /\ ChangesOnly(two, one, {"transfer"})
        /\ ToSet(two["transfer"]) = Remaining(one["transfer"], ShareOf(g, d).where)
    <2> DEFINE S == ShareOf(g, d)
    <2>0. S.table = "transfer"
      BY SelectedTables
    <2> HIDE DEF S
    <2>1. CASE two = RemoveObjects(one, S)
      <3>1. /\ ChangesOnly(RemoveObjects(one, S), one, {S.table})
            /\ ToSet(RemoveObjects(one, S)[S.table]) = Remaining(one[S.table], S.where)
        BY <1>0, <1>3, <2>0, RemoveObjectsRemovesRows
      <3> QED BY <2>0, <2>1, <3>1 DEF S
    <2>2. CASE two = Delete(one, S)
      <3>1. /\ ChangesOnly(Delete(one, S), one, {S.table})
            /\ ToSet(Delete(one, S)[S.table]) = Remaining(one[S.table], S.where)
        BY <1>0, <1>3, <2>0, DeleteRemovesRows
      <3> QED BY <2>0, <2>2, <3>1 DEF S
    <2> QED BY <1>2, <2>1, <2>2 DEF S
  <1>5. one["transfer"] = db["transfer"] /\ two["transferAssignee"] = one["transferAssignee"]
    BY <1>0, <1>1, <1>4, UnchangedRows
  <1>6. ChangesOnly(two, db, {"transferAssignee"} \cup {"transfer"})
    BY <1>1, <1>4, ChangesCompose
  <1>7. {"transferAssignee"} \cup {"transfer"} = {"transferAssignee", "transfer"}
    OBVIOUS
  <1> QED
    BY <1>1, <1>4, <1>5, <1>6, <1>7 DEF two

\* A group that is removed: the group, its assignees, its division and its rows.
LEMMA RemoveGroupRemovesAll ==
  ASSUME NEW db, IsDatabase(db), NEW g
  PROVE  /\ ChangesOnly(RemoveGroup(db, g), db, {"transferGroup", "transferAssignee", "divisTransfer", "transfer"})
         /\ ToSet(RemoveGroup(db, g)["transferGroup"]) = Remaining(db["transferGroup"], WhereGroup(g).where)
         /\ ToSet(RemoveGroup(db, g)["transferAssignee"])
              = Remaining(db["transferAssignee"], AssigneesOf(g).where)
         /\ Len(RemoveGroup(db, g)["transferAssignee"]) <= Len(db["transferAssignee"])
         /\ ToSet(RemoveGroup(db, g)["transfer"]) = Remaining(db["transfer"], [groupId |-> g])
  <1> DEFINE one   == Delete(db, WhereGroup(g))
             two   == Delete(one, AssigneesOf(g))
             three == Delete(two, DivisionOf(g))
             four  == RemoveGroup(db, g)
             S     == [table |-> "transfer", where |-> [groupId |-> g]]
  <1>0. /\ "transferAssignee" \in Tables /\ "transfer" \in Tables /\ "transferGroup" \in Tables
        /\ "divisTransfer" \in Tables
    BY DEF Tables
  <1>1. /\ ChangesOnly(one, db, {"transferGroup"})
        /\ ToSet(one["transferGroup"]) = Remaining(db["transferGroup"], WhereGroup(g).where)
    BY <1>0, SelectedTables, DeleteRemovesRows
  <1>2. four = RemoveObjects(three, S)
    BY DEF RemoveGroup
  <1>3. IsDatabase(one)
    BY <1>1 DEF ChangesOnly
  <1> HIDE DEF one
  <1>4. /\ ChangesOnly(two, one, {"transferAssignee"})
        /\ ToSet(two["transferAssignee"]) = Remaining(one["transferAssignee"], AssigneesOf(g).where)
        /\ Len(two["transferAssignee"]) <= Len(one["transferAssignee"])
    BY <1>0, <1>3, SelectedTables, DeleteRemovesRows
  <1>5. IsDatabase(two)
    BY <1>4 DEF ChangesOnly
  <1> HIDE DEF two
  <1>6. ChangesOnly(three, two, {"divisTransfer"})
    BY <1>0, <1>5, SelectedTables, DeleteRemovesRows
  <1>7. IsDatabase(three)
    BY <1>6 DEF ChangesOnly
  <1> HIDE DEF three, four
  <1>8. /\ ChangesOnly(four, three, {"transfer"})
        /\ ToSet(four["transfer"]) = Remaining(three["transfer"], [groupId |-> g])
    <2>1. S.table = "transfer" /\ S.where = [groupId |-> g]
      OBVIOUS
    <2> HIDE DEF S
    <2> QED BY <1>0, <1>2, <1>7, <2>1, RemoveObjectsRemovesRows
  <1>9. /\ one["transferAssignee"] = db["transferAssignee"] /\ three["transfer"] = db["transfer"]
        /\ four["transferGroup"] = one["transferGroup"] /\ four["transferAssignee"] = two["transferAssignee"]
    <2>1. /\ one["transferAssignee"] = db["transferAssignee"] /\ one["transfer"] = db["transfer"]
          /\ two["transfer"] = one["transfer"] /\ two["transferGroup"] = one["transferGroup"]
      BY <1>0, <1>1, <1>4 DEF ChangesOnly
    <2>2. /\ three["transfer"] = two["transfer"] /\ three["transferGroup"] = two["transferGroup"]
          /\ three["transferAssignee"] = two["transferAssignee"]
      BY <1>0, <1>6 DEF ChangesOnly
    <2>3. four["transferGroup"] = three["transferGroup"] /\ four["transferAssignee"] = three["transferAssignee"]
      BY <1>0, <1>8 DEF ChangesOnly
    <2> QED BY <2>1, <2>2, <2>3
  <1>10. ChangesOnly(four, db, {"transferGroup", "transferAssignee", "divisTransfer", "transfer"})
    BY <1>1, <1>4, <1>6, <1>8 DEF ChangesOnly
  <1> QED
    BY <1>1, <1>4, <1>8, <1>9, <1>10 DEF four

-----------------------------------------------------------------------------
(* The removal of a device *)

ShareTables == {"transferGroup", "transferAssignee", "divisTransfer", "transfer"}

\* The shares of device d in the groups gs have been removed: no other assignee is lost, and a group
\* of gs that is left has an assignee.
WithoutShares(new, old, d, gs) ==
  /\ ChangesOnly(new, old, ShareTables)
  /\ \A t \in {"transferGroup", "transferAssignee", "transfer"} : ToSet(new[t]) \subseteq ToSet(old[t])
  /\ Len(new["transferAssignee"]) <= Len(old["transferAssignee"])
  /\ \A row \in ToSet(old["transferAssignee"]) : row.deviceId # d => row \in ToSet(new["transferAssignee"])
  /\ \A row \in ToSet(new["transferAssignee"]) : row.deviceId = d => row.groupId \notin gs
  /\ \A row \in ToSet(new["transfer"]) : row.deviceId = d => row.groupId \notin gs
  /\ \A g \in gs : Has(new, WhereGroup(g)) => Has(new, AssigneesOf(g))

LEMMA RowTables ==
  /\ "transferAssignee" \in Tables /\ "transfer" \in Tables /\ "transferGroup" \in Tables
  /\ "divisTransfer" \in Tables /\ "devices" \in Tables /\ "deviceConnection" \in Tables
  /\ "clipboard" \in Tables
  BY DEF Tables

LEMMA HasGroup ==
  ASSUME NEW db, NEW g
  PROVE  /\ Has(db, WhereGroup(g)) <=> \E row \in ToSet(db["transferGroup"]) : row.id = g
         /\ Has(db, AssigneesOf(g)) <=> \E row \in ToSet(db["transferAssignee"]) : row.groupId = g
  <1>1. Has(db, WhereGroup(g)) <=>
          \E row \in ToSet(db[WhereGroup(g).table]) : Matches(row, WhereGroup(g).where)
    BY HasARow
  <1>2. Has(db, AssigneesOf(g)) <=>
          \E row \in ToSet(db[AssigneesOf(g).table]) : Matches(row, AssigneesOf(g).where)
    BY HasARow
  <1>3. \A row : /\ Matches(row, WhereGroup(g).where) <=> row.id = g
                 /\ Matches(row, AssigneesOf(g).where) <=> row.groupId = g
    BY MatchesGroup, MatchesDevice, MatchesShare
  <1>4. WhereGroup(g).table = "transferGroup" /\ AssigneesOf(g).table = "transferAssignee"
    BY SelectedTables
  <1> QED
    BY <1>1, <1>2, <1>3, <1>4

LEMMA HasShare ==
  ASSUME NEW db, NEW g, NEW d
  PROVE  /\ Has(db, WhereAssignee(g, d)) <=>
               \E row \in ToSet(db["transferAssignee"]) : row.groupId = g /\ row.deviceId = d
         /\ Has(db, ShareOf(g, d)) <=> \E row \in ToSet(db["transfer"]) : row.groupId = g /\ row.deviceId = d
         /\ Has(db, WhereDevice(d)) <=> \E row \in ToSet(db["devices"]) : row.deviceId = d
  <1>1. Has(db, WhereAssignee(g, d)) <=>
          \E row \in ToSet(db[WhereAssignee(g, d).table]) : Matches(row, WhereAssignee(g, d).where)
    BY HasARow
  <1>2. Has(db, ShareOf(g, d)) <=>
          \E row \in ToSet(db[ShareOf(g, d).table]) : Matches(row, ShareOf(g, d).where)
    BY HasARow
  <1>3. Has(db, WhereDevice(d)) <=>
          \E row \in ToSet(db[WhereDevice(d).table]) : Matches(row, WhereDevice(d).where)
    BY HasARow
  <1>4. /\ \A row : Matches(row, WhereAssignee(g, d).where) <=> row.groupId = g /\ row.deviceId = d
        /\ \A row : Matches(row, ShareOf(g, d).where) <=> row.groupId = g /\ row.deviceId = d
        /\ \A row : Matches(row, WhereDevice(d).where) <=> row.deviceId = d
    <2>1. ASSUME NEW row
          PROVE  /\ Matches(row, WhereAssignee(g, d).where) <=> row.groupId = g /\ row.deviceId = d
                 /\ Matches(row, ShareOf(g, d).where) <=> row.groupId = g /\ row.deviceId = d
      BY MatchesShare
    <2>2. ASSUME NEW row PROVE Matches(row, WhereDevice(d).where) <=> row.deviceId = d
      BY MatchesDevice
    <2> QED BY <2>1, <2>2
  <1>5. /\ WhereAssignee(g, d).table = "transferAssignee" /\ ShareOf(g, d).table = "transfer"
        /\ WhereDevice(d).table = "devices"
    BY SelectedTables
  <1> QED
    BY <1>1, <1>2, <1>3, <1>4, <1>5

LEMMA WithoutOneShare ==
  ASSUME NEW db, IsDatabase(db), NEW g, NEW d
  PROVE  WithoutShares(RemoveShare(db, g, d), db, d, {g})
  <1> DEFINE left == RemoveAssignee(db, g, d)
             new  == RemoveShare(db, g, d)
  <1>1. /\ ChangesOnly(left, db, {"transferAssignee", "transfer"})
        /\ ToSet(left["transferAssignee"]) = Remaining(db["transferAssignee"], WhereAssignee(g, d).where)
        /\ Len(left["transferAssignee"]) <= Len(db["transferAssignee"])
        /\ ToSet(left["transfer"]) = Remaining(db["transfer"], ShareOf(g, d).where)
    BY RemoveAssigneeRemovesShare
  <1>2. new = IF Has(left, WhereGroup(g)) /\ ~Has(left, AssigneesOf(g)) THEN RemoveGroup(left, g) ELSE left
    BY DEF RemoveShare
  <1> HIDE DEF left, new
  <1>3. IsDatabase(left) /\ left["transferGroup"] = db["transferGroup"]
    BY <1>1, RowTables DEF ChangesOnly
  <1>4. \A row : /\ row \in ToSet(left["transferAssignee"]) <=>
                     row \in ToSet(db["transferAssignee"]) /\ ~(row.groupId = g /\ row.deviceId = d)
                 /\ row \in ToSet(left["transfer"]) <=>
                     row \in ToSet(db["transfer"]) /\ ~(row.groupId = g /\ row.deviceId = d)
    BY <1>1, MatchesGroup, MatchesDevice, MatchesShare DEF Remaining
  <1>5. ChangesOnly(left, db, ShareTables)
    BY <1>1 DEF ChangesOnly, ShareTables
  <1>6. CASE Has(left, WhereGroup(g)) /\ ~Has(left, AssigneesOf(g))
    <2>1. /\ new = RemoveGroup(left, g)
          /\ ChangesOnly(new, left, ShareTables)
          /\ ToSet(new["transferGroup"]) = Remaining(left["transferGroup"], WhereGroup(g).where)
          /\ ToSet(new["transferAssignee"]) = Remaining(left["transferAssignee"], AssigneesOf(g).where)
          /\ Len(new["transferAssignee"]) <= Len(left["transferAssignee"])
          /\ ToSet(new["transfer"]) = Remaining(left["transfer"], [groupId |-> g])
      BY <1>2, <1>3, <1>6, RemoveGroupRemovesAll DEF ShareTables
    <2>2. \A row : /\ row \in ToSet(new["transferGroup"]) <=> row \in ToSet(left["transferGroup"]) /\ row.id # g
                   /\ row \in ToSet(new["transferAssignee"]) <=>
                       row \in ToSet(left["transferAssignee"]) /\ row.groupId # g
                   /\ row \in ToSet(new["transfer"]) <=> row \in ToSet(left["transfer"]) /\ row.groupId # g
      BY <2>1, MatchesGroup, MatchesDevice, MatchesShare DEF Remaining
    <2>3. \A row \in ToSet(left["transferAssignee"]) : row.groupId # g
      BY <1>6, HasGroup
    <2>4. ChangesOnly(new, db, ShareTables)
      BY <1>5, <2>1 DEF ChangesOnly
    <2>5. ~Has(new, WhereGroup(g))
      BY <2>2, HasGroup
    <2>7. Len(new["transferAssignee"]) <= Len(db["transferAssignee"])
      <3>1. /\ Len(new["transferAssignee"]) \in Nat /\ Len(left["transferAssignee"]) \in Nat
            /\ Len(db["transferAssignee"]) \in Nat
        BY <1>3, <2>4, RowTables, TableDomain DEF IsDatabase, ChangesOnly
      <3> QED BY <1>1, <2>1, <3>1
    <2>6. WithoutShares(new, db, d, {g})
      BY <2>7, <1>3, <1>4, <2>2, <2>3, <2>4, <2>5 DEF WithoutShares
    <2> QED BY <2>6 DEF new
  <1>7. CASE ~(Has(left, WhereGroup(g)) /\ ~Has(left, AssigneesOf(g)))
    <2>1. new = left
      BY <1>2, <1>7
    <2>2. WithoutShares(left, db, d, {g})
      BY <1>1, <1>3, <1>4, <1>5, <1>7 DEF WithoutShares
    <2> QED BY <2>1, <2>2 DEF new
  <1> QED
    BY <1>6, <1>7

LEMMA WithoutMoreShares ==
  ASSUME NEW a, NEW b, NEW c, NEW d, NEW gs, NEW g,
         WithoutShares(b, a, d, gs), WithoutShares(c, b, d, {g})
  PROVE  WithoutShares(c, a, d, gs \cup {g})
  <1>1. ChangesOnly(c, a, ShareTables)
    BY DEF WithoutShares, ChangesOnly
  <1>2. /\ \A t \in {"transferGroup", "transferAssignee", "transfer"} : ToSet(c[t]) \subseteq ToSet(a[t])
        /\ \A row \in ToSet(a["transferAssignee"]) : row.deviceId # d => row \in ToSet(c["transferAssignee"])
    BY DEF WithoutShares
  <1>3. /\ \A row \in ToSet(c["transferAssignee"]) : row.deviceId = d => row.groupId \notin gs \cup {g}
        /\ \A row \in ToSet(c["transfer"]) : row.deviceId = d => row.groupId \notin gs \cup {g}
    BY DEF WithoutShares
  <1>4. ASSUME NEW h \in gs \cup {g}, Has(c, WhereGroup(h)) PROVE Has(c, AssigneesOf(h))
    <2>1. CASE h = g
      BY <1>4, <2>1 DEF WithoutShares
    <2>2. CASE h \in gs
      <3>1. Has(b, WhereGroup(h))
        BY <1>4, HasGroup DEF WithoutShares
      <3>2. PICK row \in ToSet(b["transferAssignee"]) : row.groupId = h
        BY <2>2, <3>1, HasGroup DEF WithoutShares
      <3>3. row.deviceId # d
        BY <2>2, <3>2 DEF WithoutShares
      <3>4. row \in ToSet(c["transferAssignee"])
        BY <3>3 DEF WithoutShares
      <3> QED BY <3>2, <3>4, HasGroup
    <2> QED BY <2>1, <2>2
  <1> QED
    BY <1>1, <1>2, <1>3, <1>4 DEF WithoutShares

\* The loop over the shares of the device.
IsRemoval(removed, without, shares, d, n) ==
  removed = [i \in 0 .. n |->
               IF i = 0 THEN without ELSE RemoveShare(removed[i - 1], shares[i].groupId, d)]

LEMMA RemovalExists ==
  ASSUME NEW without, NEW shares, NEW d, NEW n \in Nat
  PROVE  \E removed : IsRemoval(removed, without, shares, d, n)
  <1> DEFINE Ends == {m \in 0 .. n : \E removed : IsRemoval(removed, without, shares, d, m)}
  <1>1. 0 \in Ends
    <2> DEFINE removed == [i \in 0 .. 0 |-> without]
    <2>1. \A i \in 0 .. 0 : i = 0
      OBVIOUS
    <2>2. IsRemoval(removed, without, shares, d, 0)
      BY <2>1 DEF IsRemoval
    <2> HIDE DEF removed
    <2> QED BY <2>2
  <1>2. ASSUME NEW m \in 0 .. n - 1, m \in Ends PROVE m + 1 \in Ends
    <2>1. PICK removed : IsRemoval(removed, without, shares, d, m)
      BY <1>2
    <2> DEFINE last == RemoveShare(removed[m], shares[m + 1].groupId, d)
               more == [i \in 0 .. m + 1 |-> IF i <= m THEN removed[i] ELSE last]
    <2> HIDE DEF last
    <2>2. ASSUME NEW i \in 0 .. m + 1
          PROVE  more[i] = IF i = 0 THEN without ELSE RemoveShare(more[i - 1], shares[i].groupId, d)
      <3>1. CASE i = 0
        BY <2>1, <3>1 DEF IsRemoval
      <3>2. CASE i \in 1 .. m
        <4>1. i \in 0 .. m /\ i - 1 \in 0 .. m /\ i - 1 \in 0 .. m + 1 /\ i <= m /\ i - 1 <= m /\ i # 0
          BY <3>2
        <4>2. more[i] = removed[i] /\ more[i - 1] = removed[i - 1]
          BY <4>1
        <4>3. removed[i] = RemoveShare(removed[i - 1], shares[i].groupId, d)
          BY <2>1, <4>1 DEF IsRemoval
        <4> HIDE DEF more
        <4> QED BY <4>1, <4>2, <4>3
      <3>3. CASE i = m + 1
        <4>1. more[i] = last /\ more[i - 1] = removed[m] /\ i # 0
          BY <3>3
        <4> HIDE DEF more
        <4> QED BY <3>3, <4>1 DEF last
      <3> QED BY <3>1, <3>2, <3>3
    <2>3. IsRemoval(more, without, shares, d, m + 1)
      BY <2>2 DEF IsRemoval
    <2> HIDE DEF more
    <2> QED BY <2>3
  <1>3. 0 .. n \subseteq Ends
    <2> HIDE DEF Ends
    <2> QED BY <1>1, <1>2, UpTo
  <1> QED
    BY <1>3

\* A device that is removed is gone from all tables; no assignee of another device goes with it, and
\* a group that had assignees and is left has one.
RemovesDevice(new, old, d) ==
  /\ ChangesOnly(new, old, ShareTables \cup {"devices", "deviceConnection"})
  /\ ToSet(new["devices"]) = Remaining(old["devices"], WhereDevice(d).where)
  /\ \A t \in {"transferGroup", "transferAssignee", "transfer", "deviceConnection"} :
       ToSet(new[t]) \subseteq ToSet(old[t])
  /\ \A row \in ToSet(new["deviceConnection"]) : row.deviceId # d
  /\ Len(new["transferAssignee"]) <= Len(old["transferAssignee"])
  /\ \A row \in ToSet(old["transferAssignee"]) : row.deviceId # d => row \in ToSet(new["transferAssignee"])
  /\ \A row \in ToSet(new["transferAssignee"]) : row.deviceId # d
  /\ \A row \in ToSet(new["transfer"]) : row.deviceId = d => ~Has(old, WhereAssignee(row.groupId, d))
  /\ \A g : Has(new, WhereGroup(g)) /\ Has(old, AssigneesOf(g)) => Has(new, AssigneesOf(g))

LEMMA RemoveDeviceRemovesAll ==
  ASSUME NEW db, IsDatabase(db), NEW d
  PROVE  RemovesDevice(RemoveDevice(db, d), db, d)
  <1> DEFINE one     == Delete(db, WhereDevice(d))
             without == RemoveConnections(db, d)
             shares  == Rows(db, SharesOf(d))
             n       == Len(shares)
             new     == RemoveDevice(db, d)
  <1>1. ChangesOnly(one, db, {"devices"}) /\ ToSet(one["devices"]) = Remaining(db["devices"], WhereDevice(d).where)
    BY RowTables, SelectedTables, DeleteRemovesRows
  <1>2. /\ ChangesOnly(without, one, {"deviceConnection"})
        /\ ToSet(without["deviceConnection"]) = Remaining(one["deviceConnection"], ConnectionsOf(d).where)
    <2>1. without = Delete(one, ConnectionsOf(d))
      BY DEF RemoveConnections
    <2>2. IsDatabase(one)
      BY <1>1 DEF ChangesOnly
    <2> HIDE DEF one, without
    <2> QED BY <2>1, <2>2, RowTables, SelectedTables, DeleteRemovesRows
  <1>3. IsTable(shares) /\ ToSet(shares) = {row \in ToSet(db["transferAssignee"]) : row.deviceId = d}
    <2> DEFINE S == SharesOf(d)
    <2>1. S.table = "transferAssignee" /\ S.where = [deviceId |-> d]
      BY DEF SharesOf
    <2> HIDE DEF S
    <2>2. IsTable(db[S.table])
      BY <2>1, RowTables DEF IsDatabase
    <2>3. IsTable(Rows(db, S)) /\ ToSet(Rows(db, S)) = Matching(db[S.table], S.where)
      BY <2>2, RowsOfSelection
    <2>4. Matching(db["transferAssignee"], [deviceId |-> d])
            = {row \in ToSet(db["transferAssignee"]) : row.deviceId = d}
      <3>1. \A row : Matches(row, [deviceId |-> d]) <=> row.deviceId = d
        BY MatchesGroup, MatchesDevice, MatchesShare
      <3> QED BY <3>1 DEF Matching
    <2> QED BY <2>1, <2>3, <2>4 DEF S
  <1>4. n \in Nat /\ DOMAIN shares = 1 .. n
    <2> HIDE DEF shares
    <2> QED BY <1>3, TableDomain
  <1>5. PICK removed : IsRemoval(removed, without, shares, d, n) /\ new = removed[n]
    <2> DEFINE F == CHOOSE F : IsRemoval(F, without, shares, d, n)
    <2>1. IsRemoval(F, without, shares, d, n)
      <3> HIDE DEF F, without, shares
      <3>1. \E x : IsRemoval(x, without, shares, d, n)
        BY <1>4, RemovalExists
      <3> QED BY <3>1 DEF F
    <2>2. new = F[n]
      BY DEF RemoveDevice, IsRemoval
    <2> QED BY <2>1, <2>2
  <1> HIDE DEF one, without, shares, new
  <1> DEFINE gs(i) == {shares[j].groupId : j \in 1 .. i}
             Good  == {i \in 0 .. n : WithoutShares(removed[i], without, d, gs(i))}
  <1>6. 0 \in Good
    <2>1. removed[0] = without /\ gs(0) = {} /\ 0 \in 0 .. n
      BY <1>4, <1>5 DEF IsRemoval
    <2>2. WithoutShares(without, without, d, {})
      BY <1>2 DEF WithoutShares, ChangesOnly
    <2> QED BY <2>1, <2>2
  <1>7. ASSUME NEW i \in 0 .. n - 1, i \in Good PROVE i + 1 \in Good
    <2>1. i + 1 \in 0 .. n /\ i + 1 # 0 /\ (i + 1) - 1 = i
      BY <1>4
    <2>2. removed[i + 1] = RemoveShare(removed[i], shares[i + 1].groupId, d)
      BY <1>5, <2>1 DEF IsRemoval
    <2>3. WithoutShares(removed[i], without, d, gs(i))
      BY <1>7
    <2>4. IsDatabase(removed[i])
      BY <2>3 DEF WithoutShares, ChangesOnly
    <2>5. WithoutShares(removed[i + 1], removed[i], d, {shares[i + 1].groupId})
      BY <2>2, <2>4, WithoutOneShare
    <2>6. gs(i + 1) = gs(i) \cup {shares[i + 1].groupId}
      <3>1. 1 .. i + 1 = (1 .. i) \cup {i + 1}
        BY <1>4
      <3> QED BY <3>1
    <2> HIDE DEF gs
    <2>7. WithoutShares(removed[i + 1], without, d, gs(i) \cup {shares[i + 1].groupId})
      BY <2>3, <2>5, WithoutMoreShares
    <2> QED BY <2>1, <2>6, <2>7
  <1>8. n \in Good
    <2> HIDE DEF Good
    <2>1. 0 .. n \subseteq Good
      BY <1>4, <1>6, <1>7, UpTo
    <2> QED BY <1>4, <2>1
  <1>9. WithoutShares(new, without, d, gs(n))
    BY <1>5, <1>8
  <1>10. \A row \in ToSet(db["transferAssignee"]) : row.deviceId = d => row.groupId \in gs(n)
    <2>1. ASSUME NEW row \in ToSet(db["transferAssignee"]), row.deviceId = d PROVE row.groupId \in gs(n)
      <3>1. row \in ToSet(shares)
        BY <1>3, <2>1
      <3>2. PICK j \in 1 .. n : row = shares[j]
        BY <1>4, <3>1 DEF ToSet
      <3> QED BY <3>2
    <2> QED BY <2>1
  <1>11. \A t \in Tables \ {"devices", "deviceConnection"} : without[t] = db[t]
    BY <1>1, <1>2 DEF ChangesOnly
  <1>12. /\ new["devices"] = without["devices"] /\ without["devices"] = one["devices"]
         /\ new["deviceConnection"] = without["deviceConnection"] /\ one["deviceConnection"] = db["deviceConnection"]
    BY <1>1, <1>2, <1>9, RowTables DEF ChangesOnly, WithoutShares, ShareTables
  <1> HIDE DEF gs
  <1>13. ChangesOnly(new, db, ShareTables \cup {"devices", "deviceConnection"})
    BY <1>9, <1>11 DEF ChangesOnly, WithoutShares
  <1>14. ToSet(new["devices"]) = Remaining(db["devices"], WhereDevice(d).where)
    BY <1>1, <1>12
  <1>15. \A row : row \in ToSet(new["deviceConnection"]) =>
                    row \in ToSet(db["deviceConnection"]) /\ row.deviceId # d
    BY <1>2, <1>12, MatchesGroup, MatchesDevice, MatchesShare DEF Remaining
  <1>16. /\ without["transferGroup"] = db["transferGroup"] /\ without["transferAssignee"] = db["transferAssignee"]
         /\ without["transfer"] = db["transfer"]
    BY <1>11, RowTables
  <1>17. \A t \in {"transferGroup", "transferAssignee", "transfer", "deviceConnection"} :
           ToSet(new[t]) \subseteq ToSet(db[t])
    BY <1>9, <1>15, <1>16 DEF WithoutShares
  <1>18. /\ Len(new["transferAssignee"]) <= Len(db["transferAssignee"])
         /\ \A row \in ToSet(db["transferAssignee"]) : row.deviceId # d => row \in ToSet(new["transferAssignee"])
         /\ \A row \in ToSet(new["transferAssignee"]) : row.deviceId = d => row.groupId \notin gs(n)
         /\ \A row \in ToSet(new["transfer"]) : row.deviceId = d => row.groupId \notin gs(n)
         /\ \A g \in gs(n) : Has(new, WhereGroup(g)) => Has(new, AssigneesOf(g))
    BY <1>9, <1>16 DEF WithoutShares
  <1>19. \A row \in ToSet(new["transferAssignee"]) : row.deviceId # d
    BY <1>10, <1>17, <1>18
  <1>20. ASSUME NEW row \in ToSet(new["transfer"]), row.deviceId = d, Has(db, WhereAssignee(row.groupId, d))
         PROVE  FALSE
    <2>1. PICK a \in ToSet(db["transferAssignee"]) : a.groupId = row.groupId /\ a.deviceId = d
      BY <1>20, HasShare
    <2> QED BY <1>10, <1>18, <1>20, <2>1
  <1>21. ASSUME NEW g, Has(new, WhereGroup(g)), Has(db, AssigneesOf(g)) PROVE Has(new, AssigneesOf(g))
    <2>1. PICK a \in ToSet(db["transferAssignee"]) : a.groupId = g
      BY <1>21, HasGroup
    <2>2. CASE a.deviceId = d
      BY <1>10, <1>18, <1>21, <2>1, <2>2
    <2>3. CASE a.deviceId # d
      BY <1>18, <2>1, <2>3, HasGroup
    <2> QED BY <2>2, <2>3
  <1>22. RemovesDevice(new, db, d)
    BY <1>13, <1>14, <1>15, <1>17, <1>18, <1>19, <1>20, <1>21 DEF RemovesDevice
  <1> QED
    BY <1>22 DEF new

-----------------------------------------------------------------------------
(* Connections *)

\* They are in a table of their own.
LEMMA ForgetsConnections ==
  ASSUME NEW db, IsDatabase(db), NEW d, NEW adapter, NEW address
  PROVE  ChangesOnly(ForgetConnection(db, d, adapter, address), db, {"deviceConnection"})
  <1> DEFINE A == WhereAdapter(d, adapter)
             B == [table |-> "deviceConnection", where |-> [deviceId |-> d, ipAddress |-> address]]
  <1>1. A.table = "deviceConnection" /\ B.table = "deviceConnection" /\ "deviceConnection" \in Tables
    BY RowTables DEF WhereAdapter
  <1>2. ForgetConnection(db, d, adapter, address) = Delete(Delete(db, A), B)
    BY DEF ForgetConnection
  <1> HIDE DEF A, B
  <1>3. ChangesOnly(Delete(db, A), db, {"deviceConnection"}) /\ IsDatabase(Delete(db, A))
    BY <1>1, DeleteRemovesRows DEF ChangesOnly
  <1>4. ChangesOnly(Delete(Delete(db, A), B), Delete(db, A), {"deviceConnection"})
    BY <1>1, <1>3, DeleteRemovesRows
  <1> QED
    BY <1>2, <1>3, <1>4 DEF ChangesOnly

LEMMA RecordsConnection ==
  ASSUME NEW db, IsDatabase(db), NEW d, NEW adapter, NEW address
  PROVE  ChangesOnly(RecordConnection(db, d, adapter, address), db, {"deviceConnection"})
  <1> DEFINE C   == WhereAddress(address)
             row == [deviceId |-> d, adapterName |-> adapter, ipAddress |-> address]
  <1>1. C.table = "deviceConnection" /\ "deviceConnection" \in Tables
    BY RowTables DEF WhereAddress
  <1>2. RecordConnection(db, d, adapter, address) = Publish(db, C, row)
    BY DEF RecordConnection
  <1> HIDE DEF C, row
  <1>3. ChangesOnly(Publish(db, C, row), db, {C.table})
    BY <1>1, PublishWritesRow
  <1> QED
    BY <1>1, <1>2, <1>3

-----------------------------------------------------------------------------
(* Rows made of a function, or of a set *)

LEMMA RowsAsFunction ==
  ASSUME NEW n \in Nat, NEW rows, DOMAIN rows = 1 .. n, rows = [i \in 1 .. n |-> rows[i]]
  PROVE  IsTable(rows) /\ Len(rows) = n /\ ToSet(rows) = {rows[i] : i \in 1 .. n}
  <1> DEFINE S == {rows[i] : i \in 1 .. n}
  <1>1. rows \in [1 .. n -> S]
    OBVIOUS
  <1>2. rows \in Seq(S) /\ Len(rows) = n
    BY <1>1
  <1> QED BY <1>2 DEF IsTable, ToSet

\* The set as a sequence has all of its elements.
LEMMA SequenceOfSet ==
  ASSUME NEW S, IsFiniteSet(S)
  PROVE  /\ DOMAIN SetToSeq(S) = 1 .. Cardinality(S) /\ Cardinality(S) \in Nat
         /\ \A i \in DOMAIN SetToSeq(S) : SetToSeq(S)[i] \in S
         /\ \A x \in S : \E i \in DOMAIN SetToSeq(S) : SetToSeq(S)[i] = x
  <1> DEFINE n == Cardinality(S)
             f == SetToSeq(S)
  <1>1. n \in Nat /\ ExistsBijection(1 .. n, S)
    BY FS_CardinalityType
  <1>2. \E g \in [1 .. n -> S] : IsInjective(g)
    BY <1>1 DEF ExistsBijection, Bijection, Injection
  <1>3. f \in [1 .. n -> S] /\ IsInjective(f)
    BY <1>2 DEF SetToSeq
  <1> HIDE DEF n, f
  <1>4. f \in Injection(1 .. n, S)
    BY <1>3 DEF Injection
  <1>5. Cardinality(1 .. n) = n
    BY <1>1, FS_Interval
  <1>6. f \in Surjection(1 .. n, S)
    BY <1>4, <1>5, FS_Injection DEF n
  <1>7. \A x \in S : \E i \in 1 .. n : f[i] = x
    BY <1>6 DEF Surjection
  <1> QED BY <1>1, <1>3, <1>7 DEF n, f
================================================================================
