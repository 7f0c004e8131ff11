---------------------------- MODULE AccessDatabase ----------------------------
(***************************************************************************)
(* database/AccessDatabase.* and database/object of src/Qt_File_Transfer:  *)
(* the tables and what the operations make of them.  Every operation runs  *)
(* to its end on the main thread, to which the signaller hands the calls   *)
(* of all other threads.  No table has a key: a row can be there twice.    *)
(*                                                                         *)
(* A selection is a table and the values its rows must have.  The fields   *)
(* that nothing here depends on (names, sizes, dates) are left out; files  *)
(* are the temporary files in the save paths of the groups.                *)
(***************************************************************************)
EXTENDS Naturals, Sequences, SequencesExt, Selection

Tables == {"transfer", "divisTransfer", "transferGroup", "devices", "deviceConnection",
           "clipboard", "transferAssignee"}

NewDatabase == [t \in Tables \cup {"files"} |-> IF t = "files" THEN {} ELSE <<>>]

-----------------------------------------------------------------------------
(* Selections *)

Matches(row, where) == \A f \in DOMAIN where : row[f] = where[f]

Chosen(rows, where) == {i \in DOMAIN rows : Matches(rows[i], where)}

Rows(db, s) == Selected(db[s.table], Chosen(db[s.table], s.where))
Has(db, s)  == Chosen(db[s.table], s.where) # {}

WhereGroup(g)       == [table |-> "transferGroup", where |-> [id |-> g]]
WhereAssignee(g, d) == [table |-> "transferAssignee", where |-> [groupId |-> g, deviceId |-> d]]
WhereDevice(d)      == [table |-> "devices", where |-> [deviceId |-> d]]
WhereText(t)        == [table |-> "clipboard", where |-> [id |-> t]]
WhereAddress(a)     == [table |-> "deviceConnection", where |-> [ipAddress |-> a]]
WhereAdapter(d, a)  ==
  [table |-> "deviceConnection", where |-> [deviceId |-> d, adapterName |-> a]]
\* The group is not part of what tells two rows apart.
WhereObject(o) ==
  [table |-> "transfer", where |-> [id |-> o.id, type |-> o.type, deviceId |-> o.deviceId]]

AssigneesOf(g)       == [table |-> "transferAssignee", where |-> [groupId |-> g]]
ShareOf(g, d)        == [table |-> "transfer", where |-> [groupId |-> g, deviceId |-> d]]
OutgoingOf(g, d)     ==
  [table |-> "transfer", where |-> [groupId |-> g, deviceId |-> d, type |-> "Outgoing"]]
DivisionOf(g)        == [table |-> "divisTransfer", where |-> [groupId |-> g]]
ConnectionsOf(d)     == [table |-> "deviceConnection", where |-> [deviceId |-> d]]

-----------------------------------------------------------------------------
(* Operations *)

Insert(db, table, object) == [db EXCEPT ![table] = Append(@, object)]

Update(db, s, values) ==
  [db EXCEPT ![s.table] =
     [i \in DOMAIN @ |-> IF Matches(@[i], s.where) THEN Updated(@[i], values) ELSE @[i]]]

Publish(db, s, object) ==
  IF Has(db, s) THEN Update(db, s, object) ELSE Insert(db, s.table, object)

Delete(db, s) ==
  [db EXCEPT ![s.table] = Selected(@, DOMAIN @ \ Chosen(@, s.where))]

TemporaryFile(o) == <<o.groupId, o.id, o.deviceId>>

\* A row that was interrupted while its file came in takes the file with it.
RemoveObjects(db, s) ==
  LET halves == {o \in ToSet(Rows(db, s)) : o.type = "Incoming" /\ o.flag = "Interrupted"}
  IN  [Delete(db, s) EXCEPT !.files = @ \ {TemporaryFile(o) : o \in halves}]

\* Without the group nobody knows where the files are.
RemoveAssignee(db, g, d) ==
  LET without == Delete(db, WhereAssignee(g, d))
  IN  IF Has(without, WhereGroup(g)) THEN RemoveObjects(without, ShareOf(g, d))
      ELSE Delete(without, ShareOf(g, d))

RemoveGroup(db, g) ==
  LET without == Delete(Delete(Delete(db, WhereGroup(g)), AssigneesOf(g)), DivisionOf(g))
  IN  RemoveObjects(without, [table |-> "transfer", where |-> [groupId |-> g]])

RemoveConnections(db, d) == Delete(Delete(db, WhereDevice(d)), ConnectionsOf(d))

\* A share, and the group when nobody is left in it.
RemoveShare(db, g, d) ==
  LET left == RemoveAssignee(db, g, d)
  IN  IF Has(left, WhereGroup(g)) /\ ~Has(left, AssigneesOf(g)) THEN RemoveGroup(left, g) ELSE left

SharesOf(d) == [table |-> "transferAssignee", where |-> [deviceId |-> d]]

\* The connections, then every share of the device.
RemoveDevice(db, d) ==
  LET without == RemoveConnections(db, d)
      shares  == Rows(db, SharesOf(d))
      removed[i \in 0 .. Len(shares)] ==
        IF i = 0 THEN without ELSE RemoveShare(removed[i - 1], shares[i].groupId, d)
  IN  removed[Len(shares)]

-----------------------------------------------------------------------------
(* The connection of a device, as every exchange records it: first what is known of the device *)
(* under this adapter or this address is deleted, then the connection is written.              *)

\* The adapter of an address that is in no subnet of this device.
UnknownInterface == "unknown"

ForgetConnection(db, d, adapter, address) ==
  Delete(Delete(db, WhereAdapter(d, adapter)),
         [table |-> "deviceConnection", where |-> [deviceId |-> d, ipAddress |-> address]])

RecordConnection(db, d, adapter, address) ==
  Publish(db, WhereAddress(address),
          [deviceId |-> d, adapterName |-> adapter, ipAddress |-> address])
===============================================================================
