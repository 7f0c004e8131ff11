------------------------- MODULE TransferRequestsProofs -------------------------
(***************************************************************************)
(* What the sender offers belongs to an assignee, and lists are whole at   *)
(* the receivers and at the sender: the invariants of TransferRequests for *)
(* all receivers, plans and numbers of dialogs.                            *)
(***************************************************************************)
EXTENDS TransferRequests, AccessDatabaseProofs, FiniteSetTheorems, SequenceTheorems

RequestPlaces == {"idle", "next", "link", "await", "publish", "check", "begin", "insert", "ended"}
OfferPlaces   == {"none", "lookup", "group", "assignee", "begin", "insert", "commit", "dropped",
                  "asking", "answered", "remove", "connection", "link", "done"}

RequestRows  == [pc: RequestPlaces, todo: Seq(Receivers), at: Nat \ {0}, row: Nat \ {0},
                 passed: Seq(Receivers), failed: Seq(Receivers), interrupted: BOOLEAN]
AdditionRows == [pc: {"idle", "insert", "commit", "ended"}, row: Nat \ {0}]
OfferRows    == [pc: OfferPlaces, publishing: BOOLEAN, row: Nat \ {0}, count: Nat, accepted: BOOLEAN]

IsRollback(saved) == saved = NoTransaction \/ \E old : IsDatabase(old) /\ saved = <<old>>

-----------------------------------------------------------------------------
(* What is known of each device, of each thread, and of the history *)

StoredInv(data, saved) ==
  /\ DOMAIN data = Device /\ \A d \in Device : IsDatabase(data[d])
  /\ DOMAIN saved = Device /\ \A d \in Device : IsRollback(saved[d])

\* A device is asked while it is the first of those that are left.
AskingInv(q) ==
  /\ q \in RequestRows
  /\ q.pc \in {"link", "await", "publish"} => q.todo # <<>>
  /\ q.pc = "idle" => q.passed = <<>>
  /\ q.pc \in {"begin", "insert"} => q.at <= Len(q.passed)
  /\ q.pc = "publish" => q.passed # <<>> /\ q.passed[Len(q.passed)] = Head(q.todo)

RequestsInv(requests) == requests \in [Dialog -> RequestRows] /\ \A k \in Dialog : AskingInv(requests[k])

WiresInv ==
  /\ addition \in AdditionRows
  /\ call \in [Dialog -> [Receivers -> {"none", "asked", "serving", "true", "over"}]]
  /\ response \in [Dialog -> [Receivers -> {"none", "sent", "serving", "over", "lost"}]]
  /\ offer \in [Dialog -> [Receivers -> OfferRows]]
  /\ dialogs \in [Receivers -> Seq(Dialog)]

HistoryInv ==
  /\ plan \in Plans /\ trouble \in 0 .. plan.trouble
  /\ early \subseteq Receivers /\ overlap \subseteq Device

\* A list names files of the group; a device that has got none has got an empty one.
CountsInv ==
  /\ listed \in [Dialog -> [Receivers -> 0 .. Len(Files)]]
  /\ counts \in [Receivers -> SUBSET (0 .. Len(Files))]
  /\ \A r \in Receivers : 0 \in counts[r]

TypesInv == StoredInv(db, rollback) /\ RequestsInv(request) /\ WiresInv /\ HistoryInv /\ CountsInv

-----------------------------------------------------------------------------
(* What the sender offers *)

Offered(data, r)  == Has(data, OutgoingOf(Group, r))
Assigned(data, r) == Has(data, WhereAssignee(Group, r))

\* OutgoingHasAssignee, of any database: a crash brings an older one back.
SharesInv(data, gone) == \A r \in Receivers : Offered(data, r) => Assigned(data, r) \/ r \in gone

\* The devices that have said yes are assignees, but for the last one before its share is published.
PassedInv(q, data, gone) ==
  q.pc \notin {"idle", "ended"} =>
    \A i \in 1 .. Len(q.passed) :
      Assigned(data, q.passed[i]) \/ q.passed[i] \in gone \/ (q.pc = "publish" /\ i = Len(q.passed))

OfferedInv ==
  /\ SharesInv(db[Sender], early)
  /\ \A old : rollback[Sender] = <<old>> => SharesInv(old, early)
  /\ \A k \in Dialog : PassedInv(request[k], db[Sender], early)

-----------------------------------------------------------------------------
(* Records *)

RequestRow(p, t, a, r, y, f, i) ==
  [pc |-> p, todo |-> t, at |-> a, row |-> r, passed |-> y, failed |-> f, interrupted |-> i]

OfferRow(p, b, r, c, a) == [pc |-> p, publishing |-> b, row |-> r, count |-> c, accepted |-> a]

\* The fields that the steps of a request set.
LEMMA UpdatedRequest ==
  ASSUME NEW q \in RequestRows, NEW x
  PROVE  /\ Updated(q, [pc |-> x])
              = RequestRow(x, q.todo, q.at, q.row, q.passed, q.failed, q.interrupted)
         /\ Updated(q, [todo |-> x])
              = RequestRow(q.pc, x, q.at, q.row, q.passed, q.failed, q.interrupted)
         /\ Updated(q, [at |-> x])
              = RequestRow(q.pc, q.todo, x, q.row, q.passed, q.failed, q.interrupted)
         /\ Updated(q, [row |-> x])
              = RequestRow(q.pc, q.todo, q.at, x, q.passed, q.failed, q.interrupted)
         /\ Updated(q, [interrupted |-> x])
              = RequestRow(q.pc, q.todo, q.at, q.row, q.passed, q.failed, x)
  <1>1. DOMAIN q = {"pc", "todo", "at", "row", "passed", "failed", "interrupted"}
    BY DEF RequestRows
  <1>2. Updated(q, [pc |-> x])
          = RequestRow(x, q.todo, q.at, q.row, q.passed, q.failed, q.interrupted)
    <2>1. DOMAIN [pc |-> x] = {"pc"} /\ DOMAIN q \cup {"pc"} = DOMAIN q
      BY <1>1
    <2> QED BY <1>1, <2>1 DEF Updated, RequestRow
  <1>3. Updated(q, [todo |-> x])
          = RequestRow(q.pc, x, q.at, q.row, q.passed, q.failed, q.interrupted)
    <2>1. DOMAIN [todo |-> x] = {"todo"} /\ DOMAIN q \cup {"todo"} = DOMAIN q
      BY <1>1
    <2> QED BY <1>1, <2>1 DEF Updated, RequestRow
  <1>4. Updated(q, [at |-> x])
          = RequestRow(q.pc, q.todo, x, q.row, q.passed, q.failed, q.interrupted)
    <2>1. DOMAIN [at |-> x] = {"at"} /\ DOMAIN q \cup {"at"} = DOMAIN q
      BY <1>1
    <2> QED BY <1>1, <2>1 DEF Updated, RequestRow
  <1>5. Updated(q, [row |-> x])
          = RequestRow(q.pc, q.todo, q.at, x, q.passed, q.failed, q.interrupted)
    <2>1. DOMAIN [row |-> x] = {"row"} /\ DOMAIN q \cup {"row"} = DOMAIN q
      BY <1>1
    <2> QED BY <1>1, <2>1 DEF Updated, RequestRow
  <1>6. Updated(q, [interrupted |-> x])
          = RequestRow(q.pc, q.todo, q.at, q.row, q.passed, q.failed, x)
    <2>1. DOMAIN [interrupted |-> x] = {"interrupted"} /\ DOMAIN q \cup {"interrupted"} = DOMAIN q
      BY <1>1
    <2> QED BY <1>1, <2>1 DEF Updated, RequestRow
  <1> QED
    BY <1>2, <1>3, <1>4, <1>5, <1>6

LEMMA UpdatedRequest2 ==
  ASSUME NEW q \in RequestRows, NEW p, NEW x
  PROVE  /\ Updated(q, [pc |-> p, todo |-> x])
              = RequestRow(p, x, q.at, q.row, q.passed, q.failed, q.interrupted)
         /\ Updated(q, [pc |-> p, at |-> x])
              = RequestRow(p, q.todo, x, q.row, q.passed, q.failed, q.interrupted)
         /\ Updated(q, [pc |-> p, passed |-> x])
              = RequestRow(p, q.todo, q.at, q.row, x, q.failed, q.interrupted)
         /\ Updated(q, [pc |-> p, interrupted |-> x])
              = RequestRow(p, q.todo, q.at, q.row, q.passed, q.failed, x)
  <1>1. DOMAIN q = {"pc", "todo", "at", "row", "passed", "failed", "interrupted"}
    BY DEF RequestRows
  <1>2. Updated(q, [pc |-> p, todo |-> x])
          = RequestRow(p, x, q.at, q.row, q.passed, q.failed, q.interrupted)
    <2>1. DOMAIN [pc |-> p, todo |-> x] = {"pc", "todo"} /\ DOMAIN q \cup {"pc", "todo"} = DOMAIN q
      BY <1>1
    <2> QED BY <1>1, <2>1 DEF Updated, RequestRow
  <1>3. Updated(q, [pc |-> p, at |-> x])
          = RequestRow(p, q.todo, x, q.row, q.passed, q.failed, q.interrupted)
    <2>1. DOMAIN [pc |-> p, at |-> x] = {"pc", "at"} /\ DOMAIN q \cup {"pc", "at"} = DOMAIN q
      BY <1>1
    <2> QED BY <1>1, <2>1 DEF Updated, RequestRow
  <1>4. Updated(q, [pc |-> p, passed |-> x])
          = RequestRow(p, q.todo, q.at, q.row, x, q.failed, q.interrupted)
    <2>1. DOMAIN [pc |-> p, passed |-> x] = {"pc", "passed"} /\ DOMAIN q \cup {"pc", "passed"} = DOMAIN q
      BY <1>1
    <2> QED BY <1>1, <2>1 DEF Updated, RequestRow
  <1>5. Updated(q, [pc |-> p, interrupted |-> x])
          = RequestRow(p, q.todo, q.at, q.row, q.passed, q.failed, x)
    <2>1. DOMAIN [pc |-> p, interrupted |-> x] = {"pc", "interrupted"} /\ DOMAIN q \cup {"pc", "interrupted"} = DOMAIN q
      BY <1>1
    <2> QED BY <1>1, <2>1 DEF Updated, RequestRow
  <1> QED
    BY <1>2, <1>3, <1>4, <1>5

LEMMA UpdatedRequest3 ==
  ASSUME NEW q \in RequestRows, NEW p, NEW x, NEW y
  PROVE  /\ \A z : Updated(q, [pc |-> p, todo |-> x, failed |-> y, interrupted |-> z])
              = RequestRow(p, x, q.at, q.row, q.passed, y, z)
         /\ Updated(q, [pc |-> p, at |-> x, row |-> y])
              = RequestRow(p, q.todo, x, y, q.passed, q.failed, q.interrupted)
  <1>1. DOMAIN q = {"pc", "todo", "at", "row", "passed", "failed", "interrupted"}
    BY DEF RequestRows
  <1>2. ASSUME NEW z
        PROVE  Updated(q, [pc |-> p, todo |-> x, failed |-> y, interrupted |-> z])
                 = RequestRow(p, x, q.at, q.row, q.passed, y, z)
    <2>1. /\ DOMAIN [pc |-> p, todo |-> x, failed |-> y, interrupted |-> z] = {"pc", "todo", "failed", "interrupted"}
          /\ DOMAIN q \cup {"pc", "todo", "failed", "interrupted"} = DOMAIN q
      BY <1>1
    <2> QED BY <1>1, <2>1 DEF Updated, RequestRow
  <1>3. Updated(q, [pc |-> p, at |-> x, row |-> y])
          = RequestRow(p, q.todo, x, y, q.passed, q.failed, q.interrupted)
    <2>1. DOMAIN [pc |-> p, at |-> x, row |-> y] = {"pc", "at", "row"} /\ DOMAIN q \cup {"pc", "at", "row"} = DOMAIN q
      BY <1>1
    <2> QED BY <1>1, <2>1 DEF Updated, RequestRow
  <1> QED
    BY <1>2, <1>3

\* Those of an addition.
LEMMA UpdatedAddition ==
  ASSUME NEW a \in AdditionRows, NEW x
  PROVE  /\ Updated(a, [pc |-> x]) = [pc |-> x, row |-> a.row]
         /\ Updated(a, [row |-> x]) = [pc |-> a.pc, row |-> x]
  <1>1. DOMAIN a = {"pc", "row"} /\ a = [f \in DOMAIN a |-> a[f]]
    BY DEF AdditionRows
  <1>2. Updated(a, [pc |-> x]) = [pc |-> x, row |-> a.row]
    <2>1. DOMAIN [pc |-> x] = {"pc"} /\ DOMAIN a \cup {"pc"} = DOMAIN a
      BY <1>1
    <2> QED BY <1>1, <2>1 DEF Updated
  <1>3. Updated(a, [row |-> x]) = [pc |-> a.pc, row |-> x]
    <2>1. DOMAIN [row |-> x] = {"row"} /\ DOMAIN a \cup {"row"} = DOMAIN a
      BY <1>1
    <2> QED BY <1>1, <2>1 DEF Updated
  <1> QED
    BY <1>2, <1>3

\* Those of the thread of an offer.
LEMMA UpdatedOffer ==
  ASSUME NEW o \in OfferRows, NEW x
  PROVE  /\ Updated(o, [pc |-> x]) = OfferRow(x, o.publishing, o.row, o.count, o.accepted)
         /\ Updated(o, [row |-> x]) = OfferRow(o.pc, o.publishing, x, o.count, o.accepted)
  <1>1. DOMAIN o = {"pc", "publishing", "row", "count", "accepted"} /\ o = [f \in DOMAIN o |-> o[f]]
    BY DEF OfferRows
  <1>2. Updated(o, [pc |-> x]) = OfferRow(x, o.publishing, o.row, o.count, o.accepted)
    <2>1. DOMAIN [pc |-> x] = {"pc"} /\ DOMAIN o \cup {"pc"} = DOMAIN o
      BY <1>1
    <2> QED BY <1>1, <2>1 DEF Updated, OfferRow
  <1>3. Updated(o, [row |-> x]) = OfferRow(o.pc, o.publishing, x, o.count, o.accepted)
    <2>1. DOMAIN [row |-> x] = {"row"} /\ DOMAIN o \cup {"row"} = DOMAIN o
      BY <1>1
    <2> QED BY <1>1, <2>1 DEF Updated, OfferRow
  <1> QED
    BY <1>2, <1>3

LEMMA UpdatedOffer2 ==
  ASSUME NEW o \in OfferRows, NEW p, NEW x
  PROVE  /\ Updated(o, [pc |-> p, publishing |-> x]) = OfferRow(p, x, o.row, o.count, o.accepted)
         /\ Updated(o, [pc |-> p, accepted |-> x]) = OfferRow(p, o.publishing, o.row, o.count, x)
         /\ Updated(o, [pc |-> p, row |-> x]) = OfferRow(p, o.publishing, x, o.count, o.accepted)
  <1>1. DOMAIN o = {"pc", "publishing", "row", "count", "accepted"} /\ o = [f \in DOMAIN o |-> o[f]]
    BY DEF OfferRows
  <1>2. Updated(o, [pc |-> p, publishing |-> x]) = OfferRow(p, x, o.row, o.count, o.accepted)
    <2>1. DOMAIN [pc |-> p, publishing |-> x] = {"pc", "publishing"} /\ DOMAIN o \cup {"pc", "publishing"} = DOMAIN o
      BY <1>1
    <2> QED BY <1>1, <2>1 DEF Updated, OfferRow
  <1>3. Updated(o, [pc |-> p, accepted |-> x]) = OfferRow(p, o.publishing, o.row, o.count, x)
    <2>1. DOMAIN [pc |-> p, accepted |-> x] = {"pc", "accepted"} /\ DOMAIN o \cup {"pc", "accepted"} = DOMAIN o
      BY <1>1
    <2> QED BY <1>1, <2>1 DEF Updated, OfferRow
  <1>4. Updated(o, [pc |-> p, row |-> x]) = OfferRow(p, o.publishing, x, o.count, o.accepted)
    <2>1. DOMAIN [pc |-> p, row |-> x] = {"pc", "row"} /\ DOMAIN o \cup {"pc", "row"} = DOMAIN o
      BY <1>1
    <2> QED BY <1>1, <2>1 DEF Updated, OfferRow
  <1> QED
    BY <1>2, <1>3, <1>4

LEMMA UpdatedOffer3 ==
  ASSUME NEW o \in OfferRows, NEW p, NEW x, NEW y
  PROVE  /\ Updated(o, [pc |-> p, row |-> x, publishing |-> y]) = OfferRow(p, y, x, o.count, o.accepted)
         /\ Updated(o, [pc |-> p, row |-> x, count |-> y]) = OfferRow(p, o.publishing, x, y, o.accepted)
  <1>1. DOMAIN o = {"pc", "publishing", "row", "count", "accepted"} /\ o = [f \in DOMAIN o |-> o[f]]
    BY DEF OfferRows
  <1>2. Updated(o, [pc |-> p, row |-> x, publishing |-> y]) = OfferRow(p, y, x, o.count, o.accepted)
    <2>1. DOMAIN [pc |-> p, row |-> x, publishing |-> y] = {"pc", "row", "publishing"} /\ DOMAIN o \cup {"pc", "row", "publishing"} = DOMAIN o
      BY <1>1
    <2> QED BY <1>1, <2>1 DEF Updated, OfferRow
  <1>3. Updated(o, [pc |-> p, row |-> x, count |-> y]) = OfferRow(p, o.publishing, x, y, o.accepted)
    <2>1. DOMAIN [pc |-> p, row |-> x, count |-> y] = {"pc", "row", "count"} /\ DOMAIN o \cup {"pc", "row", "count"} = DOMAIN o
      BY <1>1
    <2> QED BY <1>1, <2>1 DEF Updated, OfferRow
  <1> QED
    BY <1>2, <1>3

-----------------------------------------------------------------------------
(* What the operations of the database make of an offer *)

LEMMA OfferedRows ==
  ASSUME NEW data, NEW r
  PROVE  /\ Offered(data, r) <=> \E row \in ToSet(data["transfer"]) :
                                   row.groupId = Group /\ row.deviceId = r /\ row.type = "Outgoing"
         /\ Assigned(data, r) <=> \E row \in ToSet(data["transferAssignee"]) :
                                    row.groupId = Group /\ row.deviceId = r
  <1> DEFINE S == OutgoingOf(Group, r)
  <1>1. S.table = "transfer" /\ S.where = [groupId |-> Group, deviceId |-> r, type |-> "Outgoing"]
    BY DEF OutgoingOf
  <1>2. \A row : Matches(row, S.where) <=> row.groupId = Group /\ row.deviceId = r /\ row.type = "Outgoing"
    BY <1>1 DEF Matches
  <1> HIDE DEF S
  <1>3. Has(data, S) <=> \E row \in ToSet(data[S.table]) : Matches(row, S.where)
    BY HasARow
  <1>4. Has(data, S) <=> \E row \in ToSet(data["transfer"]) :
                           row.groupId = Group /\ row.deviceId = r /\ row.type = "Outgoing"
    BY <1>1, <1>2, <1>3
  <1> QED
    BY <1>4, HasShare DEF Offered, Assigned, S

\* Nothing more is offered, and nobody is assigned less.
Keeps(new, old) ==
  /\ IsDatabase(new)
  /\ \A r \in Receivers : (Offered(new, r) => Offered(old, r)) /\ (Assigned(old, r) => Assigned(new, r))

LEMMA OtherTablesKeep ==
  ASSUME NEW old, NEW new, NEW T, ChangesOnly(new, old, T), "transfer" \notin T, "transferAssignee" \notin T
  PROVE  Keeps(new, old)
  <1>1. new["transfer"] = old["transfer"] /\ new["transferAssignee"] = old["transferAssignee"] /\ IsDatabase(new)
    BY RowTables DEF ChangesOnly
  <1> QED
    BY <1>1, OfferedRows DEF Keeps

Share(r) == [groupId |-> Group, deviceId |-> r, connectionAdapter |-> "lan"]

LEMMA SharePublished ==
  ASSUME NEW old, IsDatabase(old), NEW r
  PROVE  LET new == Publish(old, WhereAssignee(Group, r), Share(r))
         IN  Keeps(new, old) /\ Assigned(new, r)
  <1> DEFINE S     == WhereAssignee(Group, r)
             share == Share(r)
             new   == Publish(old, S, share)
  <1>1. S.table = "transferAssignee" /\ \A row : Matches(row, S.where) <=> row.groupId = Group /\ row.deviceId = r
    BY SelectedTables, MatchesShare
  <1>2. /\ ChangesOnly(new, old, {"transferAssignee"})
        /\ Has(old, S) => ToSet(new["transferAssignee"])
                            = {Rewritten(row, S.where, share) : row \in ToSet(old["transferAssignee"])}
        /\ ~Has(old, S) => ToSet(new["transferAssignee"]) = Added(old["transferAssignee"], share)
    <2>1. S.table \in Tables
      BY <1>1, RowTables
    <2> HIDE DEF S, share, new
    <2>2. /\ ChangesOnly(Publish(old, S, share), old, {S.table})
          /\ Has(old, S) => ToSet(Publish(old, S, share)[S.table])
                              = {Rewritten(row, S.where, share) : row \in ToSet(old[S.table])}
          /\ ~Has(old, S) => ToSet(Publish(old, S, share)[S.table]) = Added(old[S.table], share)
      BY <2>1, PublishWritesRow
    <2> QED BY <1>1, <2>2 DEF new
  <1>3. share.groupId = Group /\ share.deviceId = r /\ DOMAIN share = {"groupId", "deviceId", "connectionAdapter"}
    BY DEF Share
  <1> HIDE DEF share, new
  <1>4. \A row : Matches(row, S.where) =>
          Rewritten(row, S.where, share).groupId = Group /\ Rewritten(row, S.where, share).deviceId = r
    BY <1>3 DEF Rewritten, Updated
  <1>5. \A row : ~Matches(row, S.where) => Rewritten(row, S.where, share) = row
    BY DEF Rewritten
  <1>6. \A row \in ToSet(old["transferAssignee"]) : \E other \in ToSet(new["transferAssignee"]) :
          /\ row.groupId = Group => other.groupId = Group
          /\ row.groupId = Group => other.deviceId = row.deviceId
    <2> TAKE row \in ToSet(old["transferAssignee"])
    <2> HIDE DEF S
    <2>1. CASE ~Has(old, S)
      BY <1>2, <2>1 DEF Added
    <2>2. CASE Has(old, S)
      <3>1. Rewritten(row, S.where, share) \in ToSet(new["transferAssignee"])
        BY <1>2, <2>2
      <3> QED BY <1>1, <1>4, <1>5, <3>1
    <2> QED BY <2>1, <2>2
  <1>7. \E row \in ToSet(new["transferAssignee"]) : row.groupId = Group /\ row.deviceId = r
    <2>1. CASE ~Has(old, S)
      BY <1>2, <1>3, <2>1 DEF Added
    <2>2. CASE Has(old, S)
      <3>1. PICK row \in ToSet(old["transferAssignee"]) : row.groupId = Group /\ row.deviceId = r
        BY <2>2, HasShare
      <3> QED BY <1>6, <3>1
    <2> QED BY <2>1, <2>2
  <1>8. new["transfer"] = old["transfer"] /\ IsDatabase(new)
    BY <1>2, RowTables DEF ChangesOnly
  <1>9. \A x \in Receivers : Assigned(old, x) => Assigned(new, x)
    BY <1>6, OfferedRows
  <1>10. \A x \in Receivers : Offered(new, x) => Offered(old, x)
    BY <1>8, OfferedRows
  <1>11. Assigned(new, r)
    BY <1>7, OfferedRows
  <1> QED
    BY <1>8, <1>9, <1>10, <1>11 DEF Keeps, new, share

LEMMA RowOffered ==
  ASSUME NEW old, IsDatabase(old), NEW r, NEW f, NEW new,
         new = Insert(old, "transfer", Row(Group, r, f, "Outgoing"))
  PROVE  /\ IsDatabase(new)
         /\ \A x \in Receivers : (Offered(new, x) => Offered(old, x) \/ x = r) /\ (Assigned(old, x) => Assigned(new, x))
  <1> DEFINE row == Row(Group, r, f, "Outgoing")
  <1>1. row.deviceId = r
    BY DEF Row
  <1> HIDE DEF row
  <1>2. ChangesOnly(new, old, {"transfer"}) /\ ToSet(new["transfer"]) = Added(old["transfer"], row)
    BY RowTables, InsertAddsRow DEF row
  <1>3. IsDatabase(new) /\ new["transferAssignee"] = old["transferAssignee"]
    BY <1>2, RowTables DEF ChangesOnly
  <1>4. \A x \in Receivers : Assigned(old, x) => Assigned(new, x)
    BY <1>3, OfferedRows
  <1>5. \A x \in Receivers : Offered(new, x) => Offered(old, x) \/ x = r
    BY <1>1, <1>2, OfferedRows DEF Added
  <1> QED
    BY <1>3, <1>4, <1>5

LEMMA ShareRefused ==
  ASSUME NEW old, IsDatabase(old), NEW r, NEW new, new = RefusedBy(old, r)
  PROVE  /\ IsDatabase(new)
         /\ \A x \in Receivers : (Offered(new, x) => Offered(old, x) /\ x # r)
                                 /\ (Assigned(old, x) => Assigned(new, x) \/ x = r)
  <1>1. /\ ChangesOnly(new, old, {"transferAssignee", "transfer"})
        /\ ToSet(new["transferAssignee"]) = Remaining(old["transferAssignee"], WhereAssignee(Group, r).where)
        /\ ToSet(new["transfer"]) = Remaining(old["transfer"], ShareOf(Group, r).where)
    BY RemoveAssigneeRemovesShare DEF RefusedBy
  <1>2. \A x \in Receivers : Offered(new, x) => Offered(old, x) /\ x # r
    BY <1>1, OfferedRows, MatchesShare DEF Remaining
  <1>3. \A x \in Receivers : Assigned(old, x) => Assigned(new, x) \/ x = r
    BY <1>1, OfferedRows, MatchesShare DEF Remaining
  <1> QED
    BY <1>1, <1>2, <1>3 DEF ChangesOnly

LEMMA GroupTaken ==
  ASSUME NEW old, IsDatabase(old), NEW new, new = RemoveGroup(old, Group)
  PROVE  IsDatabase(new) /\ \A x \in Receivers : ~Offered(new, x)
  <1>1. /\ IsDatabase(new)
        /\ ToSet(new["transfer"]) = Remaining(old["transfer"], [groupId |-> Group])
    BY RemoveGroupRemovesAll DEF ChangesOnly
  <1>2. \A row : Matches(row, [groupId |-> Group]) <=> row.groupId = Group
    BY MatchesGroup
  <1> QED
    BY <1>1, <1>2, OfferedRows DEF Remaining

-----------------------------------------------------------------------------
(* What each step changes: databases *)

LEMMA SetStores ==
  ASSUME StoredInv(db, rollback), rollback' = rollback, NEW d \in Device, NEW new, IsDatabase(new), Set(d, new)
  PROVE  StoredInv(db', rollback')
  BY DEF StoredInv, Set

LEMMA BeginStores ==
  ASSUME StoredInv(db, rollback), db' = db, NEW d \in Device, Begin(d) \/ Denied(d)
  PROVE  StoredInv(db', rollback')
  <1>1. CASE Begin(d)
    <2>1. IsDatabase(db[d]) /\ rollback' = [rollback EXCEPT ![d] = <<db[d]>>]
      BY <1>1 DEF StoredInv, Begin
    <2>2. IsRollback(<<db[d]>>)
      BY <2>1 DEF IsRollback
    <2> QED BY <2>1, <2>2 DEF StoredInv
  <1>2. CASE Denied(d)
    BY <1>2 DEF StoredInv, Denied
  <1> QED BY <1>1, <1>2

LEMMA CommitStores ==
  ASSUME StoredInv(db, rollback), db' = db, NEW d \in Device, Commit(d)
  PROVE  StoredInv(db', rollback')
  BY DEF StoredInv, Commit, IsRollback

\* A crash brings back what was there at the beginning of the transaction.
LEMMA CrashStores ==
  ASSUME StoredInv(db, rollback), NEW d \in Device, Commit(d),
         db' = [db EXCEPT ![d] = IF rollback[d] = NoTransaction THEN @ ELSE rollback[d][1]]
  PROVE  StoredInv(db', rollback')
  <1> DEFINE new == IF rollback[d] = NoTransaction THEN db[d] ELSE rollback[d][1]
  <1>1. IsDatabase(new)
    <2>1. CASE rollback[d] = NoTransaction
      BY <2>1 DEF StoredInv
    <2>2. CASE rollback[d] # NoTransaction
      <3>1. PICK old : IsDatabase(old) /\ rollback[d] = <<old>>
        BY <2>2 DEF StoredInv, IsRollback
      <3> QED BY <2>2, <3>1
    <2> QED BY <2>1, <2>2
  <1>2. db' = [db EXCEPT ![d] = new]
    BY DEF new
  <1> HIDE DEF new
  <1> QED
    BY <1>1, <1>2 DEF StoredInv, Commit, IsRollback

LEMMA ConnectionStores ==
  ASSUME StoredInv(db, rollback), NEW d \in Device, NEW peer
  PROVE  /\ ChangesOnly(Forget(d, peer), db[d], {"deviceConnection"})
         /\ ChangesOnly(Record(d, peer), db[d], {"deviceConnection"})
  <1>1. IsDatabase(db[d])
    BY DEF StoredInv
  <1> QED
    BY <1>1, ForgetsConnections, RecordsConnection DEF Forget, Record

LEMMA DeviceKinds == Sender \in Device /\ \A r \in Receivers : r \in Device /\ r # Sender
  BY PlansAssumption DEF Device

\* The steps of a request.
LEMMA RequestStores ==
  ASSUME TypesInv, NEW k \in Dialog, RequestThread(k) \/ Interrupt(k) \/ Retry(k) \/ StartRequest(k)
  PROVE  StoredInv(db', rollback')
  <1>1. StoredInv(db, rollback) /\ Sender \in Device /\ IsDatabase(db[Sender])
    BY DeviceKinds DEF TypesInv, StoredInv
  <1>2. ASSUME UNCHANGED stored PROVE StoredInv(db', rollback')
    BY <1>1, <1>2 DEF stored
  <1>3. \A peer : IsDatabase(Forget(Sender, peer)) /\ IsDatabase(Record(Sender, peer))
    BY <1>1, ConnectionStores DEF ChangesOnly
  <1>4. CASE AskDevice(k)
    <2>1. /\ rollback' = rollback
          /\ db' = db \/ \E peer : Set(Sender, Forget(Sender, peer))
      BY <1>4 DEF AskDevice
    <2> QED BY <1>1, <1>2, <1>3, <2>1, SetStores DEF stored
  <1>5. CASE SendRequest(k)
    <2>1. rollback' = rollback /\ \E peer : Set(Sender, Record(Sender, peer))
      BY <1>5 DEF SendRequest
    <2> QED BY <1>1, <1>3, <2>1, SetStores
  <1>6. CASE PublishShare(k)
    <2> DEFINE r   == Head(request[k].todo)
               new == Publish(db[Sender], WhereAssignee(Group, r), Share(r))
    <2>1. rollback' = rollback /\ Set(Sender, new)
      BY <1>6 DEF PublishShare, Share
    <2>2. IsDatabase(new)
      BY <1>1, SharePublished DEF Keeps
    <2> HIDE DEF new
    <2> QED BY <1>1, <2>1, <2>2, SetStores
  <1>7. CASE BeginRows(k)
    <2>1. db' = db /\ (Begin(Sender) \/ Denied(Sender))
      BY <1>7 DEF BeginRows
    <2> QED BY <1>1, <2>1, BeginStores
  <1>8. CASE InsertRow(k)
    <2>1. \/ rollback' = rollback /\ \E r, f : Set(Sender, Insert(db[Sender], "transfer", Row(Group, r, f, "Outgoing")))
          \/ db' = db /\ Commit(Sender)
      BY <1>8 DEF InsertRow
    <2>2. \A r, f : IsDatabase(Insert(db[Sender], "transfer", Row(Group, r, f, "Outgoing")))
      BY <1>1, RowOffered
    <2> QED BY <1>1, <2>1, <2>2, SetStores, CommitStores
  <1>9. CASE GetResult(k) \/ NoResult(k) \/ NoMoreDevices(k) \/ CheckRows(k)
    BY <1>2, <1>9 DEF GetResult, NoResult, NoMoreDevices, CheckRows
  <1>10. CASE Interrupt(k) \/ Retry(k) \/ StartRequest(k)
    BY <1>2, <1>10 DEF Interrupt, Retry, StartRequest, StartTask
  <1> QED
    BY <1>4, <1>5, <1>6, <1>7, <1>8, <1>9, <1>10 DEF RequestThread

\* Another group is added: its rows are in tables of their own.
LEMMA AdditionTables ==
  ASSUME StoredInv(db, rollback), StartAddition \/ AddRow \/ CommitAddition
  PROVE  /\ StoredInv(db', rollback')
         /\ db' = db \/ \E T : ChangesOnly(db'[Sender], db[Sender], T) /\ T \cap {"transfer", "transferAssignee"} = {}
  <1>1. Sender \in Device /\ IsDatabase(db[Sender])
    BY DeviceKinds DEF StoredInv
  <1>2. CASE StartAddition
    BY <1>1, <1>2, BeginStores DEF StartAddition
  <1>3. CASE CommitAddition
    BY <1>1, <1>3, CommitStores DEF CommitAddition
  <1>4. CASE AddRow
    <2>1. PICK t \in {"divisTransfer", "transferGroup"} :
            rollback' = rollback /\ (db' = db \/ \E row : Set(Sender, Insert(db[Sender], t, row)))
      BY <1>4 DEF AddRow, stored
    <2>2. \A row : ChangesOnly(Insert(db[Sender], t, row), db[Sender], {t})
      BY <1>1, <2>1, RowTables, InsertAddsRow
    <2>3. CASE db' = db
      BY <2>1, <2>3
    <2>4. ASSUME NEW row, Set(Sender, Insert(db[Sender], t, row))
          PROVE  StoredInv(db', rollback') /\ ChangesOnly(db'[Sender], db[Sender], {t})
      <3> DEFINE new == Insert(db[Sender], t, row)
      <3>1. IsDatabase(new) /\ ChangesOnly(new, db[Sender], {t})
        BY <2>2 DEF ChangesOnly
      <3>2. db'[Sender] = new
        BY <1>1, <2>4 DEF Set, StoredInv
      <3>3. Set(Sender, new)
        BY <2>4
      <3> HIDE DEF new
      <3> QED BY <1>1, <2>1, <3>1, <3>2, <3>3, SetStores
    <2> QED BY <2>1, <2>3, <2>4
  <1> QED
    BY <1>2, <1>3, <1>4

\* A row of an offer is written, over the one that is there or as a new one.
LEMMA OfferedRowChanges ==
  ASSUME NEW data, IsDatabase(data), NEW publishing, NEW object
  PROVE  ChangesOnly(InsertOrPublish(publishing, data, object), data, {"transfer"})
  <1> DEFINE S == WhereObject(object)
  <1>1. S.table = "transfer"
    BY DEF WhereObject
  <1> HIDE DEF S
  <1>2. ChangesOnly(Publish(data, S, object), data, {S.table})
    BY <1>1, RowTables, PublishWritesRow
  <1>3. ChangesOnly(Insert(data, "transfer", object), data, {"transfer"})
    BY RowTables, InsertAddsRow
  <1> QED
    BY <1>1, <1>2, <1>3 DEF InsertOrPublish, S

\* The receiver of an offer.
LEMMA InsertedOffer ==
  ASSUME NEW data, IsDatabase(data), NEW publishing, NEW object
  PROVE  IsDatabase(InsertOrPublish(publishing, data, object))
  BY OfferedRowChanges DEF ChangesOnly

LEMMA OfferStores ==
  ASSUME TypesInv, NEW k \in Dialog, NEW r \in Receivers, OfferThread(k, r)
  PROVE  StoredInv(db', rollback') /\ db'[Sender] = db[Sender] /\ rollback'[Sender] = rollback[Sender]
  <1>1. /\ StoredInv(db, rollback) /\ r \in Device /\ r # Sender /\ Sender \in Device /\ IsDatabase(db[r])
        /\ DOMAIN db = Device /\ DOMAIN rollback = Device
    BY DeviceKinds DEF TypesInv, StoredInv
  <1>2. ASSUME UNCHANGED stored PROVE StoredInv(db', rollback') /\ db'[Sender] = db[Sender] /\ rollback'[Sender] = rollback[Sender]
    BY <1>1, <1>2 DEF stored
  <1>3. ASSUME NEW new, IsDatabase(new), Set(r, new), rollback' = rollback
        PROVE  StoredInv(db', rollback') /\ db'[Sender] = db[Sender] /\ rollback'[Sender] = rollback[Sender]
    <2>1. StoredInv(db', rollback')
      BY <1>1, <1>3, SetStores
    <2> QED BY <1>1, <1>3, <2>1 DEF Set
  <1>4. ASSUME db' = db, Begin(r) \/ Denied(r) \/ Commit(r)
        PROVE  StoredInv(db', rollback') /\ db'[Sender] = db[Sender] /\ rollback'[Sender] = rollback[Sender]
    <2>1. StoredInv(db', rollback')
      BY <1>1, <1>4, BeginStores, CommitStores
    <2> QED BY <1>1, <1>4, <2>1 DEF Begin, Denied, Commit
  <1>5. CASE ServeRequest(k, r)
    <2>1. IsDatabase(Forget(r, Sender))
      BY <1>1, ConnectionStores DEF ChangesOnly
    <2> QED BY <1>3, <1>5, <2>1 DEF ServeRequest
  <1>6. CASE ReplyTrue(k, r)
    <2>1. IsDatabase(Record(r, Sender))
      BY <1>1, ConnectionStores DEF ChangesOnly
    <2> QED BY <1>3, <1>6, <2>1 DEF ReplyTrue
  <1>7. CASE LookUpGroup(k, r)
    BY <1>2, <1>7 DEF LookUpGroup
  <1>8. CASE PublishGroup(k, r)
    <2> DEFINE S == WhereGroup(Group)
               row == [id |-> Group]
               new == Publish(db[r], S, row)
    <2>1. Set(r, new) /\ rollback' = rollback
      BY <1>8 DEF PublishGroup
    <2>2. S.table \in Tables
      BY SelectedTables, RowTables
    <2> HIDE DEF S, row
    <2>3. ChangesOnly(new, db[r], {S.table})
      BY <1>1, <2>2, PublishWritesRow
    <2>4. IsDatabase(new)
      BY <2>3 DEF ChangesOnly
    <2> HIDE DEF new
    <2> QED BY <1>3, <2>1, <2>4
  <1>9. CASE PublishAssignee(k, r)
    <2> DEFINE S == WhereAssignee(Group, Sender)
               row == [groupId |-> Group, deviceId |-> Sender, connectionAdapter |-> "lan"]
               new == Publish(db[r], S, row)
    <2>1. Set(r, new) /\ rollback' = rollback
      BY <1>9 DEF PublishAssignee
    <2>2. S.table \in Tables
      BY SelectedTables, RowTables
    <2> HIDE DEF S, row
    <2>3. ChangesOnly(new, db[r], {S.table})
      BY <1>1, <2>2, PublishWritesRow
    <2>4. IsDatabase(new)
      BY <2>3 DEF ChangesOnly
    <2> HIDE DEF new
    <2> QED BY <1>3, <2>1, <2>4
  <1>10. CASE BeginOffer(k, r)
    BY <1>4, <1>10 DEF BeginOffer
  <1>11. CASE InsertOffer(k, r)
    <2>1. \/ rollback' = rollback /\ \E b, object : Set(r, InsertOrPublish(b, db[r], object))
          \/ db' = db /\ Commit(r)
      BY <1>11 DEF InsertOffer
    <2>2. \A b, object : IsDatabase(InsertOrPublish(b, db[r], object))
      BY <1>1, InsertedOffer
    <2> QED BY <1>3, <1>4, <2>1, <2>2
  <1> QED
    BY <1>5, <1>6, <1>7, <1>8, <1>9, <1>10, <1>11 DEF OfferThread

\* The answer, until it reaches the sender.
LEMMA AnswerStores ==
  ASSUME TypesInv, NEW k \in Dialog, NEW r \in Receivers,
         \/ LookUpAnswered(k, r) \/ RemoveRefused(k, r) \/ FindConnection(k, r) \/ SendResponse(k, r)
         \/ \E accepted \in BOOLEAN : Answer(k, r, accepted)
  PROVE  StoredInv(db', rollback') /\ db'[Sender] = db[Sender] /\ rollback' = rollback
  <1>1. /\ StoredInv(db, rollback) /\ r \in Device /\ r # Sender /\ Sender \in Device /\ IsDatabase(db[r])
        /\ DOMAIN db = Device
    BY DeviceKinds DEF TypesInv, StoredInv
  <1>2. rollback' = rollback
    BY DEF LookUpAnswered, RemoveRefused, FindConnection, SendResponse, Answer, stored
  <1>3. \/ db' = db \/ Set(r, Forget(r, Sender)) \/ Set(r, Record(r, Sender))
        \/ Set(r, RemoveGroup(db[r], Group))
    BY DEF LookUpAnswered, RemoveRefused, FindConnection, SendResponse, Answer, stored, GroupRemoved
  <1>4. IsDatabase(Forget(r, Sender)) /\ IsDatabase(Record(r, Sender))
    BY <1>1, ConnectionStores DEF ChangesOnly
  <1>5. IsDatabase(RemoveGroup(db[r], Group))
    BY <1>1, GroupTaken
  <1>6. ASSUME NEW new, IsDatabase(new), Set(r, new)
        PROVE  StoredInv(db', rollback') /\ db'[Sender] = db[Sender]
    <2>1. StoredInv(db', rollback')
      BY <1>1, <1>2, <1>6, SetStores
    <2> QED BY <1>1, <1>6, <2>1 DEF Set
  <1>7. CASE db' = db
    BY <1>1, <1>2, <1>7
  <1>8. CASE Set(r, Forget(r, Sender)) \/ Set(r, Record(r, Sender)) \/ Set(r, RemoveGroup(db[r], Group))
    <2>1. CASE Set(r, Forget(r, Sender))
      BY <1>2, <1>4, <1>6, <2>1
    <2>2. CASE Set(r, Record(r, Sender))
      BY <1>2, <1>4, <1>6, <2>2
    <2>3. CASE Set(r, RemoveGroup(db[r], Group))
      BY <1>2, <1>5, <1>6, <2>3
    <2> QED BY <1>8, <2>1, <2>2, <2>3
  <1> QED
    BY <1>2, <1>3, <1>7, <1>8

\* The answer at the sender, and what the user removes there.
LEMMA ResponseStores ==
  ASSUME TypesInv, NEW k \in Dialog, NEW r \in Receivers, ServeResponse(k, r) \/ TakeResponse(k, r)
  PROVE  StoredInv(db', rollback')
  <1>1. StoredInv(db, rollback) /\ Sender \in Device /\ IsDatabase(db[Sender])
    BY DeviceKinds DEF TypesInv, StoredInv
  <1> DEFINE linked == Record(Sender, r)
  <1>2. IsDatabase(Forget(Sender, r)) /\ IsDatabase(linked)
    BY <1>1, ConnectionStores DEF ChangesOnly
  <1>3. CASE ServeResponse(k, r)
    <2>1. rollback' = rollback /\ (db' = db \/ Set(Sender, Forget(Sender, r)))
      BY <1>3 DEF ServeResponse
    <2> QED BY <1>1, <1>2, <2>1, SetStores
  <1>4. CASE TakeResponse(k, r)
    <2>1. rollback' = rollback /\ (Set(Sender, linked) \/ Set(Sender, RefusedBy(linked, r)))
      BY <1>4 DEF TakeResponse
    <2> HIDE DEF linked
    <2>2. IsDatabase(RefusedBy(linked, r))
      BY <1>2, ShareRefused
    <2> QED BY <1>1, <1>2, <2>1, <2>2, SetStores
  <1> QED BY <1>3, <1>4

LEMMA OtherStores ==
  ASSUME TypesInv,
         (\E d \in Device : RemoveTransfer(d)) \/ CrashSender \/ \E r \in Receivers : CrashReceiver(r)
  PROVE  StoredInv(db', rollback')
  <1>1. StoredInv(db, rollback) /\ \A d \in Device : IsDatabase(db[d])
    BY DEF TypesInv, StoredInv
  <1>2. ASSUME NEW d \in Device, RemoveTransfer(d) PROVE StoredInv(db', rollback')
    <2>1. Set(d, RemoveGroup(db[d], Group)) /\ rollback' = rollback
      BY <1>2 DEF RemoveTransfer, GroupRemoved
    <2>2. IsDatabase(RemoveGroup(db[d], Group))
      BY <1>1, GroupTaken
    <2> QED BY <1>1, <2>1, <2>2, SetStores
  <1>3. CASE CrashSender
    BY <1>1, <1>3, CrashStores, DeviceKinds DEF CrashSender
  <1>4. ASSUME NEW r \in Receivers, CrashReceiver(r) PROVE StoredInv(db', rollback')
    BY <1>1, <1>4, CrashStores, DeviceKinds DEF CrashReceiver
  <1> QED BY <1>2, <1>3, <1>4

-----------------------------------------------------------------------------
(* What each step changes: requests *)

\* The new row of a request, and those that are as they were.
Asks(k, new) == request' = [request EXCEPT ![k] = new]

LEMMA AskStep ==
  ASSUME RequestsInv(request), NEW k \in Dialog, NEW new, Asks(k, new), AskingInv(new)
  PROVE  RequestsInv(request')
  BY DEF RequestsInv, Asks, AskingInv

LEMMA AskFields ==
  ASSUME RequestsInv(request), NEW k \in Dialog
  PROVE  /\ request[k] \in RequestRows /\ AskingInv(request[k])
         /\ \A record : Ask(k, record) => Asks(k, Updated(request[k], record))
  BY DEF RequestsInv, Ask, Asks

\* The devices that are left are asked from the first one on.
LEMMA RestOfDevices ==
  ASSUME NEW s \in Seq(Receivers), s # <<>>
  PROVE  Head(s) \in Receivers /\ Tail(s) \in Seq(Receivers)
  BY HeadTailProperties

LEMMA NextFailsAsks ==
  ASSUME RequestsInv(request), NEW k \in Dialog, NEW stop, NextFails(k, stop), request[k].todo # <<>>
  PROVE  LET q == request[k]
             f == Append(q.failed, Head(q.todo))
         IN  /\ Asks(k, RequestRow("next", Tail(q.todo), q.at, q.row, q.passed, f, stop))
             /\ f \in Seq(Receivers)
  <1> DEFINE q == request[k]
             f == Append(q.failed, Head(q.todo))
  <1>1. q \in RequestRows
    BY AskFields
  <1>2. Head(q.todo) \in Receivers
    BY <1>1, RestOfDevices DEF RequestRows
  <1>3. f \in Seq(Receivers)
    BY <1>1, <1>2, AppendProperties DEF RequestRows
  <1>4. Asks(k, Updated(q, [pc |-> "next", todo |-> Tail(q.todo), failed |-> f, interrupted |-> stop]))
    BY DEF NextFails, Ask, Asks
  <1> HIDE DEF f, q
  <1>5. Updated(q, [pc |-> "next", todo |-> Tail(q.todo), failed |-> f, interrupted |-> stop])
          = RequestRow("next", Tail(q.todo), q.at, q.row, q.passed, f, stop)
    <2>1. \A p, t, y : \A z : Updated(q, [pc |-> p, todo |-> t, failed |-> y, interrupted |-> z])
                        = RequestRow(p, t, q.at, q.row, q.passed, y, z)
      BY <1>1, UpdatedRequest3
    <2> QED BY <2>1
  <1> QED
    BY <1>3, <1>4, <1>5 DEF f, q

LEMMA StartAsks ==
  ASSUME RequestsInv(request), NEW k \in Dialog, NEW devices \in Seq(Receivers), StartTask(k, devices)
  PROVE  LET q == request[k]
         IN  /\ q.pc = "idle" /\ q.passed = <<>>
             /\ \/ Asks(k, RequestRow("next", devices, q.at, q.row, q.passed, q.failed, q.interrupted))
                \/ Asks(k, RequestRow("ended", q.todo, q.at, q.row, q.passed, q.failed, q.interrupted))
  <1> DEFINE q == request[k]
  <1>1. q \in RequestRows /\ AskingInv(q) /\ \A record : Ask(k, record) => Asks(k, Updated(q, record))
    BY AskFields
  <1>2. q.pc = "idle" /\ (Ask(k, [pc |-> "next", todo |-> devices]) \/ Ask(k, [pc |-> "ended"]))
    BY DEF StartTask
  <1>3. q.passed = <<>>
    BY <1>1, <1>2 DEF AskingInv
  <1> HIDE DEF q
  <1>4. /\ Updated(q, [pc |-> "next", todo |-> devices])
             = RequestRow("next", devices, q.at, q.row, q.passed, q.failed, q.interrupted)
        /\ Updated(q, [pc |-> "ended"])
             = RequestRow("ended", q.todo, q.at, q.row, q.passed, q.failed, q.interrupted)
    BY <1>1, UpdatedRequest, UpdatedRequest2
  <1>5. \/ Asks(k, Updated(q, [pc |-> "next", todo |-> devices]))
        \/ Asks(k, Updated(q, [pc |-> "ended"]))
    BY <1>1, <1>2
  <1> QED
    BY <1>2, <1>3, <1>4, <1>5 DEF q

\* The devices that have said yes stay, and after an answer there is one more.
Moves(q, new) ==
  \/ new.passed = q.passed /\ q.pc # "ended" /\ (q.pc # "publish" \/ new.pc = "publish")
  \/ q.pc = "await" /\ new.pc = "publish" /\ new.passed = Append(q.passed, Head(q.todo))

RequestMoves(k) ==
  /\ RequestsInv(request')
  /\ \A j \in Dialog \ {k} : request'[j] = request[j]
  /\ Moves(request[k], request'[k])

LEMMA MoveStep ==
  ASSUME RequestsInv(request), NEW k \in Dialog, NEW new, Asks(k, new), AskingInv(new), Moves(request[k], new)
  PROVE  RequestMoves(k)
  <1>1. RequestsInv(request')
    BY AskStep
  <1>2. request'[k] = new /\ \A j \in Dialog \ {k} : request'[j] = request[j]
    BY DEF RequestsInv, Asks
  <1> QED
    BY <1>1, <1>2 DEF RequestMoves

LEMMA AskDeviceMoves ==
  ASSUME TypesInv, NEW k \in Dialog, AskDevice(k)
  PROVE  RequestMoves(k)
  <1> DEFINE q == request[k]
             t == Tail(q.todo)
             f == Append(q.failed, Head(q.todo))
  <1>1. RequestsInv(request) /\ q \in RequestRows /\ AskingInv(q)
    BY AskFields DEF TypesInv
  <1>2. \A record : Ask(k, record) => Asks(k, Updated(q, record))
    BY <1>1, AskFields
  <1>3. /\ q.pc = "next" /\ q.todo # <<>>
        /\ \/ Ask(k, [todo |-> t])
           \/ \E stop \in BOOLEAN : NextFails(k, stop)
           \/ Ask(k, [pc |-> "link"]) \/ Ask(k, [pc |-> "link", interrupted |-> TRUE])
    BY DEF AskDevice, PutTogether
  <1>4. t \in Seq(Receivers)
    BY <1>1, <1>3, RestOfDevices DEF RequestRows
  <1>5. CASE Ask(k, [todo |-> t])
    <2> DEFINE new == RequestRow("next", t, q.at, q.row, q.passed, q.failed, q.interrupted)
    <2> HIDE DEF q, t
    <2>1. Updated(q, [todo |-> t]) = new
      BY <1>1, <1>3, UpdatedRequest
    <2>2. AskingInv(new) /\ Moves(q, new)
      BY <1>1, <1>3, <1>4 DEF AskingInv, RequestRows, RequestRow, Moves, RequestPlaces
    <2>3. Asks(k, new)
      BY <1>2, <1>5, <2>1
    <2> HIDE DEF new
    <2> QED BY <1>1, <2>2, <2>3, MoveStep DEF q
  <1>6. ASSUME NEW stop \in BOOLEAN, NextFails(k, stop) PROVE RequestMoves(k)
    <2> DEFINE new == RequestRow("next", t, q.at, q.row, q.passed, f, stop)
    <2>1. Asks(k, new) /\ f \in Seq(Receivers)
      BY <1>1, <1>3, <1>6, NextFailsAsks
    <2> HIDE DEF q, t, f
    <2>2. AskingInv(new) /\ Moves(q, new)
      BY <1>1, <1>3, <1>4, <2>1 DEF AskingInv, RequestRows, RequestRow, Moves, RequestPlaces
    <2> HIDE DEF new
    <2> QED BY <1>1, <2>1, <2>2, MoveStep DEF q
  <1>7. CASE Ask(k, [pc |-> "link"])
    <2> DEFINE new == RequestRow("link", q.todo, q.at, q.row, q.passed, q.failed, q.interrupted)
    <2> HIDE DEF q, t
    <2>1. Updated(q, [pc |-> "link"]) = new
      BY <1>1, UpdatedRequest
    <2>2. AskingInv(new) /\ Moves(q, new)
      BY <1>1, <1>3 DEF AskingInv, RequestRows, RequestRow, Moves, RequestPlaces
    <2>3. Asks(k, new)
      BY <1>2, <1>7, <2>1
    <2> HIDE DEF new
    <2> QED BY <1>1, <2>2, <2>3, MoveStep DEF q
  <1>8. CASE Ask(k, [pc |-> "link", interrupted |-> TRUE])
    <2> DEFINE new == RequestRow("link", q.todo, q.at, q.row, q.passed, q.failed, TRUE)
    <2> HIDE DEF q, t
    <2>1. Updated(q, [pc |-> "link", interrupted |-> TRUE]) = new
      BY <1>1, UpdatedRequest2
    <2>2. AskingInv(new) /\ Moves(q, new)
      BY <1>1, <1>3 DEF AskingInv, RequestRows, RequestRow, Moves, RequestPlaces
    <2>3. Asks(k, new)
      BY <1>2, <1>8, <2>1
    <2> HIDE DEF new
    <2> QED BY <1>1, <2>2, <2>3, MoveStep DEF q
  <1> QED BY <1>3, <1>5, <1>6, <1>7, <1>8

LEMMA WaitingMoves ==
  ASSUME TypesInv, NEW k \in Dialog, SendRequest(k) \/ GetResult(k) \/ NoResult(k)
  PROVE  RequestMoves(k)
  <1> DEFINE q == request[k]
  <1>1. RequestsInv(request) /\ q \in RequestRows /\ AskingInv(q)
    BY AskFields DEF TypesInv
  <1>2. \A record : Ask(k, record) => Asks(k, Updated(q, record))
    BY <1>1, AskFields
  <1> DEFINE t == Tail(q.todo)
             y == Append(q.passed, Head(q.todo))
  <1>3. /\ q.pc \in {"link", "await"} /\ q.todo # <<>>
        /\ \/ q.pc = "link" /\ Ask(k, [pc |-> "await"])
           \/ q.pc = "await" /\ Ask(k, [pc |-> "publish", passed |-> y])
           \/ NextFails(k, q.interrupted)
    BY <1>1 DEF SendRequest, GetResult, NoResult, AskingInv
  <1>4. Head(q.todo) \in Receivers /\ t \in Seq(Receivers)
    BY <1>1, <1>3, RestOfDevices DEF RequestRows
  <1>5. CASE Ask(k, [pc |-> "await"])
    <2> DEFINE new == RequestRow("await", q.todo, q.at, q.row, q.passed, q.failed, q.interrupted)
    <2> HIDE DEF q, t, y
    <2>1. Updated(q, [pc |-> "await"]) = new
      BY <1>1, <1>3, UpdatedRequest
    <2>2. AskingInv(new) /\ Moves(q, new)
      BY <1>1, <1>3, <1>5 DEF AskingInv, RequestRows, RequestRow, Moves, RequestPlaces
    <2>3. Asks(k, new)
      BY <1>2, <1>5, <2>1
    <2> HIDE DEF new
    <2> QED BY <1>1, <2>2, <2>3, MoveStep DEF q
  <1>6. CASE Ask(k, [pc |-> "publish", passed |-> y]) /\ q.pc = "await"
    <2> DEFINE new == RequestRow("publish", q.todo, q.at, q.row, y, q.failed, q.interrupted)
    <2>1. y \in Seq(Receivers) /\ y # <<>> /\ y[Len(y)] = Head(q.todo)
      <3>1. q.passed \in Seq(Receivers)
        BY <1>1 DEF RequestRows
      <3>2. Len(y) = Len(q.passed) + 1 /\ y[Len(q.passed) + 1] = Head(q.todo) /\ y \in Seq(Receivers)
        BY <1>4, <3>1, AppendProperties
      <3>3. Len(q.passed) \in Nat
        BY <3>1
      <3> HIDE DEF y
      <3> QED BY <3>2, <3>3, EmptySeq
    <2> HIDE DEF q, t
    <2>2. Updated(q, [pc |-> "publish", passed |-> y]) = new
      <3> HIDE DEF y
      <3> QED BY <1>1, UpdatedRequest2
    <2>3. AskingInv(new)
      <3> HIDE DEF y
      <3> QED BY <1>1, <1>3, <2>1 DEF AskingInv, RequestRows, RequestRow, RequestPlaces
    <2>4. Moves(q, new)
      BY <1>6 DEF Moves, RequestRow
    <2>5. Asks(k, new)
      BY <1>2, <1>6, <2>2
    <2> HIDE DEF new
    <2> QED BY <1>1, <2>3, <2>4, <2>5, MoveStep DEF q
  <1>7. CASE NextFails(k, q.interrupted)
    <2> DEFINE f   == Append(q.failed, Head(q.todo))
               new == RequestRow("next", t, q.at, q.row, q.passed, f, q.interrupted)
    <2>1. Asks(k, new) /\ f \in Seq(Receivers)
      BY <1>1, <1>3, <1>7, NextFailsAsks
    <2> HIDE DEF q, t, f
    <2>2. AskingInv(new) /\ Moves(q, new)
      BY <1>1, <1>3, <1>4, <2>1 DEF AskingInv, RequestRows, RequestRow, Moves, RequestPlaces
    <2> HIDE DEF new
    <2> QED BY <1>1, <2>1, <2>2, MoveStep DEF q
  <1> QED BY <1>3, <1>5, <1>6, <1>7

LEMMA CheckingMoves ==
  ASSUME TypesInv, NEW k \in Dialog, NoMoreDevices(k) \/ CheckRows(k) \/ BeginRows(k)
  PROVE  RequestMoves(k)
  <1> DEFINE q == request[k]
  <1>1. RequestsInv(request) /\ q \in RequestRows /\ AskingInv(q)
    BY AskFields DEF TypesInv
  <1>2. \A record : Ask(k, record) => Asks(k, Updated(q, record))
    BY <1>1, AskFields
  <1> DEFINE n == q.at + 1
  <1>3. \/ q.pc = "next" /\ Ask(k, [pc |-> "ended", todo |-> <<>>])
        \/ q.pc = "next" /\ Ask(k, [pc |-> "check", todo |-> <<>>])
        \/ q.pc = "check" /\ (Ask(k, [pc |-> "ended"]) \/ Ask(k, [at |-> n]))
        \/ q.pc = "check" /\ q.at <= Len(q.passed) /\ Ask(k, [pc |-> "begin"])
        \/ q.pc = "begin" /\ (Ask(k, [pc |-> "insert"]) \/ Ask(k, [pc |-> "check", at |-> n]))
    <2>1. q.at \in Nat /\ Len(q.passed) \in Nat
      BY <1>1 DEF RequestRows
    <2> QED BY <2>1 DEF NoMoreDevices, CheckRows, BeginRows
  <1>4. n \in Nat \ {0} /\ <<>> \in Seq(Receivers)
    BY <1>1, EmptySeq DEF RequestRows
  <1> HIDE DEF n
  <1>5. CASE Ask(k, [pc |-> "ended", todo |-> <<>>])
    <2> DEFINE new == RequestRow("ended", <<>>, q.at, q.row, q.passed, q.failed, q.interrupted)
    <2> HIDE DEF q
    <2>1. Updated(q, [pc |-> "ended", todo |-> <<>>]) = new
      BY <1>1, <1>3, <1>4, UpdatedRequest2
    <2>2. AskingInv(new) /\ Moves(q, new)
      BY <1>1, <1>3, <1>4, <1>5 DEF AskingInv, RequestRows, RequestRow, Moves, RequestPlaces
    <2>3. Asks(k, new)
      BY <1>2, <1>5, <2>1
    <2> HIDE DEF new
    <2> QED BY <1>1, <2>2, <2>3, MoveStep DEF q
  <1>6. CASE Ask(k, [pc |-> "check", todo |-> <<>>])
    <2> DEFINE new == RequestRow("check", <<>>, q.at, q.row, q.passed, q.failed, q.interrupted)
    <2> HIDE DEF q
    <2>1. Updated(q, [pc |-> "check", todo |-> <<>>]) = new
      BY <1>1, <1>3, <1>4, UpdatedRequest2
    <2>2. AskingInv(new) /\ Moves(q, new)
      BY <1>1, <1>3, <1>4, <1>6 DEF AskingInv, RequestRows, RequestRow, Moves, RequestPlaces
    <2>3. Asks(k, new)
      BY <1>2, <1>6, <2>1
    <2> HIDE DEF new
    <2> QED BY <1>1, <2>2, <2>3, MoveStep DEF q
  <1>7. CASE Ask(k, [pc |-> "ended"])
    <2> DEFINE new == RequestRow("ended", q.todo, q.at, q.row, q.passed, q.failed, q.interrupted)
    <2> HIDE DEF q
    <2>1. Updated(q, [pc |-> "ended"]) = new
      BY <1>1, <1>3, <1>4, UpdatedRequest
    <2>2. AskingInv(new) /\ Moves(q, new)
      BY <1>1, <1>3, <1>4, <1>7 DEF AskingInv, RequestRows, RequestRow, Moves, RequestPlaces
    <2>3. Asks(k, new)
      BY <1>2, <1>7, <2>1
    <2> HIDE DEF new
    <2> QED BY <1>1, <2>2, <2>3, MoveStep DEF q
  <1>8. CASE q.pc = "check" /\ Ask(k, [at |-> n])
    <2> DEFINE new == RequestRow(q.pc, q.todo, n, q.row, q.passed, q.failed, q.interrupted)
    <2> HIDE DEF q
    <2>1. Updated(q, [at |-> n]) = new
      BY <1>1, <1>3, <1>4, UpdatedRequest
    <2>2. AskingInv(new) /\ Moves(q, new)
      BY <1>1, <1>3, <1>4, <1>8 DEF AskingInv, RequestRows, RequestRow, Moves, RequestPlaces
    <2>3. Asks(k, new)
      BY <1>2, <1>8, <2>1
    <2> HIDE DEF new
    <2> QED BY <1>1, <2>2, <2>3, MoveStep DEF q
  <1>9. CASE q.pc = "check" /\ q.at <= Len(q.passed) /\ Ask(k, [pc |-> "begin"])
    <2> DEFINE new == RequestRow("begin", q.todo, q.at, q.row, q.passed, q.failed, q.interrupted)
    <2> HIDE DEF q
    <2>1. Updated(q, [pc |-> "begin"]) = new
      BY <1>1, <1>3, <1>4, UpdatedRequest
    <2>2. AskingInv(new) /\ Moves(q, new)
      BY <1>1, <1>3, <1>4, <1>9 DEF AskingInv, RequestRows, RequestRow, Moves, RequestPlaces
    <2>3. Asks(k, new)
      BY <1>2, <1>9, <2>1
    <2> HIDE DEF new
    <2> QED BY <1>1, <2>2, <2>3, MoveStep DEF q
  <1>10. CASE q.pc = "begin" /\ Ask(k, [pc |-> "insert"])
    <2> DEFINE new == RequestRow("insert", q.todo, q.at, q.row, q.passed, q.failed, q.interrupted)
    <2> HIDE DEF q
    <2>1. Updated(q, [pc |-> "insert"]) = new
      BY <1>1, <1>3, <1>4, UpdatedRequest
    <2>2. AskingInv(new) /\ Moves(q, new)
      BY <1>1, <1>3, <1>4, <1>10 DEF AskingInv, RequestRows, RequestRow, Moves, RequestPlaces
    <2>3. Asks(k, new)
      BY <1>2, <1>10, <2>1
    <2> HIDE DEF new
    <2> QED BY <1>1, <2>2, <2>3, MoveStep DEF q
  <1>11. CASE Ask(k, [pc |-> "check", at |-> n])
    <2> DEFINE new == RequestRow("check", q.todo, n, q.row, q.passed, q.failed, q.interrupted)
    <2> HIDE DEF q
    <2>1. Updated(q, [pc |-> "check", at |-> n]) = new
      BY <1>1, <1>3, <1>4, UpdatedRequest2
    <2>2. AskingInv(new) /\ Moves(q, new)
      BY <1>1, <1>3, <1>4, <1>11 DEF AskingInv, RequestRows, RequestRow, Moves, RequestPlaces
    <2>3. Asks(k, new)
      BY <1>2, <1>11, <2>1
    <2> HIDE DEF new
    <2> QED BY <1>1, <2>2, <2>3, MoveStep DEF q
  <1> QED BY <1>3, <1>5, <1>6, <1>7, <1>8, <1>9, <1>10, <1>11

LEMMA InsertingMoves ==
  ASSUME TypesInv, NEW k \in Dialog, InsertRow(k)
  PROVE  RequestMoves(k)
  <1> DEFINE q == request[k]
  <1>1. RequestsInv(request) /\ q \in RequestRows /\ AskingInv(q)
    BY AskFields DEF TypesInv
  <1>2. \A record : Ask(k, record) => Asks(k, Updated(q, record))
    BY <1>1, AskFields
  <1> DEFINE n == q.at + 1
             i == q.row + 1
             p == IF q.interrupted THEN "ended" ELSE "check"
  <1>3. q.pc = "insert" /\ (Ask(k, [row |-> i]) \/ Ask(k, [pc |-> p, at |-> n, row |-> 1]))
    BY DEF InsertRow
  <1>4. n \in Nat \ {0} /\ i \in Nat \ {0} /\ 1 \in Nat \ {0}
    BY <1>1 DEF RequestRows
  <1>5. p \in {"ended", "check"}
    OBVIOUS
  <1> HIDE DEF n, i, p
  <1>6. CASE Ask(k, [row |-> i])
    <2> DEFINE new == RequestRow(q.pc, q.todo, q.at, i, q.passed, q.failed, q.interrupted)
    <2> HIDE DEF q
    <2>1. Updated(q, [row |-> i]) = new
      BY <1>1, <1>3, <1>4, UpdatedRequest
    <2>2. AskingInv(new) /\ Moves(q, new)
      BY <1>1, <1>3, <1>4, <1>6 DEF AskingInv, RequestRows, RequestRow, Moves, RequestPlaces
    <2>3. Asks(k, new)
      BY <1>2, <1>6, <2>1
    <2> HIDE DEF new
    <2> QED BY <1>1, <2>2, <2>3, MoveStep DEF q
  <1>7. CASE Ask(k, [pc |-> p, at |-> n, row |-> 1])
    <2> DEFINE new == RequestRow(p, q.todo, n, 1, q.passed, q.failed, q.interrupted)
    <2> HIDE DEF q
    <2>1. Updated(q, [pc |-> p, at |-> n, row |-> 1]) = new
      BY <1>1, <1>3, <1>4, <1>5, UpdatedRequest3
    <2>2. AskingInv(new) /\ Moves(q, new)
      BY <1>1, <1>3, <1>4, <1>5, <1>7 DEF AskingInv, RequestRows, RequestRow, Moves, RequestPlaces
    <2>3. Asks(k, new)
      BY <1>2, <1>7, <2>1
    <2> HIDE DEF new
    <2> QED BY <1>1, <2>2, <2>3, MoveStep DEF q


  <1> QED BY <1>3, <1>6, <1>7

\* The share of the device that has just said yes is published.
LEMMA PublishingMoves ==
  ASSUME TypesInv, NEW k \in Dialog, PublishShare(k)
  PROVE  /\ RequestsInv(request')
         /\ \A j \in Dialog \ {k} : request'[j] = request[j]
         /\ request'[k].passed = request[k].passed /\ request'[k].pc = "next"
  <1> DEFINE q == request[k]
             t == Tail(q.todo)
  <1>1. RequestsInv(request) /\ q \in RequestRows /\ AskingInv(q)
    BY AskFields DEF TypesInv
  <1>2. q.pc = "publish" /\ Ask(k, [pc |-> "next", todo |-> t])
    BY DEF PublishShare
  <1>3. Asks(k, Updated(q, [pc |-> "next", todo |-> t]))
    BY <1>1, <1>2, AskFields
  <1>4. t \in Seq(Receivers)
    BY <1>1, <1>2, RestOfDevices DEF RequestRows, AskingInv
  <1> DEFINE new == RequestRow("next", t, q.at, q.row, q.passed, q.failed, q.interrupted)
  <1> HIDE DEF q, t
  <1>5. Updated(q, [pc |-> "next", todo |-> t]) = new
    BY <1>1, UpdatedRequest2
  <1>6. AskingInv(new) /\ new.passed = q.passed /\ new.pc = "next"
    BY <1>1, <1>4 DEF AskingInv, RequestRows, RequestRow, RequestPlaces
  <1> HIDE DEF new
  <1>7. Asks(k, new)
    BY <1>3, <1>5
  <1>8. RequestsInv(request')
    BY <1>1, <1>6, <1>7, AskStep
  <1>9. request'[k] = new /\ \A j \in Dialog \ {k} : request'[j] = request[j]
    BY <1>1, <1>7 DEF RequestsInv, Asks
  <1> QED BY <1>6, <1>8, <1>9 DEF q

\* The user starts a request, tries again, or interrupts one.
LEMMA UserMoves ==
  ASSUME TypesInv, NEW k \in Dialog, StartRequest(k) \/ Retry(k) \/ Interrupt(k)
  PROVE  \E j \in Dialog : RequestMoves(j)
  <1>1. RequestsInv(request) /\ plan \in Plans
    BY DEF TypesInv, HistoryInv
  <1>2. ASSUME NEW j \in Dialog, NEW devices \in Seq(Receivers), StartTask(j, devices) PROVE RequestMoves(j)
    <2> DEFINE q == request[j]
    <2>1. q \in RequestRows /\ AskingInv(q)
      BY <1>1, AskFields
    <2>2. /\ q.pc = "idle" /\ q.passed = <<>>
          /\ \/ Asks(j, RequestRow("next", devices, q.at, q.row, q.passed, q.failed, q.interrupted))
             \/ Asks(j, RequestRow("ended", q.todo, q.at, q.row, q.passed, q.failed, q.interrupted))
      BY <1>1, <1>2, StartAsks
    <2> HIDE DEF q
    <2>3. ASSUME NEW p \in {"next", "ended"}, NEW t \in Seq(Receivers)
          PROVE  LET new == RequestRow(p, t, q.at, q.row, q.passed, q.failed, q.interrupted)
                 IN  AskingInv(new) /\ Moves(q, new)
      BY <2>1, <2>2 DEF AskingInv, RequestRows, RequestRow, Moves, RequestPlaces
    <2>4. q.todo \in Seq(Receivers)
      BY <2>1 DEF RequestRows
    <2>5. PICK new : Asks(j, new) /\ AskingInv(new) /\ Moves(q, new)
      BY <2>2, <2>3, <2>4
    <2> QED BY <1>1, <2>5, MoveStep DEF q
  <1>3. CASE StartRequest(k)
    <2>1. plan.devices \in Seq(Seq(Receivers)) /\ k \in DOMAIN plan.devices
      BY <1>1, <1>3, PlansAssumption DEF StartRequest
    <2>2. plan.devices[k] \in Seq(Receivers)
      BY <2>1, ElementOfSeq
    <2> QED BY <1>2, <1>3, <2>2 DEF StartRequest
  <1>4. CASE Retry(k)
    <2>1. request[k].failed \in Seq(Receivers) /\ k + 1 \in Dialog
      BY <1>1, <1>4, AskFields DEF Retry, RequestRows
    <2> QED BY <1>2, <1>4, <2>1 DEF Retry
  <1>5. CASE Interrupt(k)
    <2> DEFINE q   == request[k]
               new == RequestRow(q.pc, q.todo, q.at, q.row, q.passed, q.failed, TRUE)
    <2>1. q \in RequestRows /\ AskingInv(q) /\ Asks(k, Updated(q, [interrupted |-> TRUE]))
      BY <1>1, <1>5, AskFields DEF Interrupt
    <2>5. q.pc # "ended"
      BY <1>5 DEF Interrupt, Running
    <2> HIDE DEF q
    <2>2. Updated(q, [interrupted |-> TRUE]) = new
      BY <2>1, UpdatedRequest
    <2>3. AskingInv(new) /\ Moves(q, new)
      BY <2>1, <2>5 DEF AskingInv, RequestRows, RequestRow, Moves, RequestPlaces
    <2>4. Asks(k, new)
      BY <2>1, <2>2
    <2> HIDE DEF new
    <2> QED BY <1>1, <2>3, <2>4, MoveStep DEF q
  <1> QED BY <1>3, <1>4, <1>5

-----------------------------------------------------------------------------
(* What each step changes: connections, threads of offers, history *)

LEMMA GoStep ==
  ASSUME WiresInv, NEW k \in Dialog, NEW r \in Receivers, NEW record, Go(k, r, record),
         Updated(offer[k][r], record) \in OfferRows
  PROVE  offer' \in [Dialog -> [Receivers -> OfferRows]]
  BY DEF WiresInv, Go

\* The records that the thread of an offer writes.
LEMMA GoRecords ==
  ASSUME WiresInv, NEW k \in Dialog, NEW r \in Receivers
  PROVE  /\ \A p \in OfferPlaces : Updated(offer[k][r], [pc |-> p]) \in OfferRows
         /\ \A n \in Nat \ {0} : Updated(offer[k][r], [row |-> n]) \in OfferRows
         /\ \A p \in OfferPlaces, b \in BOOLEAN : Updated(offer[k][r], [pc |-> p, publishing |-> b]) \in OfferRows
         /\ \A p \in OfferPlaces, b \in BOOLEAN : Updated(offer[k][r], [pc |-> p, accepted |-> b]) \in OfferRows
         /\ \A p \in OfferPlaces, n \in Nat \ {0} : Updated(offer[k][r], [pc |-> p, row |-> n]) \in OfferRows
         /\ \A p \in OfferPlaces, n \in Nat \ {0}, b \in BOOLEAN :
              Updated(offer[k][r], [pc |-> p, row |-> n, publishing |-> b]) \in OfferRows
         /\ \A p \in OfferPlaces, n \in Nat \ {0}, c \in Nat :
              Updated(offer[k][r], [pc |-> p, row |-> n, count |-> c]) \in OfferRows
  <1> DEFINE o == offer[k][r]
  <1>1. o \in OfferRows
    BY DEF WiresInv
  <1> HIDE DEF o
  <1>2. \A p, b, n, c, a : p \in OfferPlaces /\ b \in BOOLEAN /\ n \in Nat \ {0} /\ c \in Nat /\ a \in BOOLEAN =>
          OfferRow(p, b, n, c, a) \in OfferRows
    BY DEF OfferRow, OfferRows
  <1>3. /\ o.pc \in OfferPlaces /\ o.publishing \in BOOLEAN /\ o.row \in Nat \ {0} /\ o.count \in Nat
        /\ o.accepted \in BOOLEAN
    BY <1>1 DEF OfferRows
  <1>4. \A p \in OfferPlaces : Updated(o, [pc |-> p]) \in OfferRows
    <2> TAKE p \in OfferPlaces
    <2>1. Updated(o, [pc |-> p]) = OfferRow(p, o.publishing, o.row, o.count, o.accepted)
      BY <1>1, UpdatedOffer
    <2> QED BY <1>2, <1>3, <2>1
  <1>5. \A n \in Nat \ {0} : Updated(o, [row |-> n]) \in OfferRows
    <2> TAKE n \in Nat \ {0}
    <2>1. Updated(o, [row |-> n]) = OfferRow(o.pc, o.publishing, n, o.count, o.accepted)
      BY <1>1, UpdatedOffer
    <2> QED BY <1>2, <1>3, <2>1
  <1>6. \A p \in OfferPlaces, b \in BOOLEAN : Updated(o, [pc |-> p, publishing |-> b]) \in OfferRows
    <2> TAKE p \in OfferPlaces, b \in BOOLEAN
    <2>1. Updated(o, [pc |-> p, publishing |-> b]) = OfferRow(p, b, o.row, o.count, o.accepted)
      BY <1>1, UpdatedOffer2
    <2> QED BY <1>2, <1>3, <2>1
  <1>7. \A p \in OfferPlaces, b \in BOOLEAN : Updated(o, [pc |-> p, accepted |-> b]) \in OfferRows
    <2> TAKE p \in OfferPlaces, b \in BOOLEAN
    <2>1. Updated(o, [pc |-> p, accepted |-> b]) = OfferRow(p, o.publishing, o.row, o.count, b)
      BY <1>1, UpdatedOffer2
    <2> QED BY <1>2, <1>3, <2>1
  <1>8. \A p \in OfferPlaces, n \in Nat \ {0}, b \in BOOLEAN :
          Updated(o, [pc |-> p, row |-> n, publishing |-> b]) \in OfferRows
    <2> TAKE p \in OfferPlaces, n \in Nat \ {0}, b \in BOOLEAN
    <2>1. Updated(o, [pc |-> p, row |-> n, publishing |-> b]) = OfferRow(p, b, n, o.count, o.accepted)
      BY <1>1, UpdatedOffer3
    <2> QED BY <1>2, <1>3, <2>1
  <1>9. \A p \in OfferPlaces, n \in Nat \ {0} : Updated(o, [pc |-> p, row |-> n]) \in OfferRows
    <2> TAKE p \in OfferPlaces, n \in Nat \ {0}
    <2>1. Updated(o, [pc |-> p, row |-> n]) = OfferRow(p, o.publishing, n, o.count, o.accepted)
      BY <1>1, UpdatedOffer2
    <2> QED BY <1>2, <1>3, <2>1
  <1>10. \A p \in OfferPlaces, n \in Nat \ {0}, c \in Nat :
           Updated(o, [pc |-> p, row |-> n, count |-> c]) \in OfferRows
    <2> TAKE p \in OfferPlaces, n \in Nat \ {0}, c \in Nat
    <2>1. Updated(o, [pc |-> p, row |-> n, count |-> c]) = OfferRow(p, o.publishing, n, c, o.accepted)
      BY <1>1, UpdatedOffer3
    <2> QED BY <1>2, <1>3, <2>1
  <1> QED BY <1>4, <1>5, <1>6, <1>7, <1>8, <1>9, <1>10 DEF o

LEMMA PlacesOfOffers ==
  {"none", "lookup", "group", "assignee", "begin", "insert", "dropped", "asking", "answered", "remove",
   "connection", "link", "done"} \subseteq OfferPlaces
  BY DEF OfferPlaces

LEMMA OfferWires ==
  ASSUME WiresInv, CountsInv, NEW k \in Dialog, NEW r \in Receivers, OfferThread(k, r)
  PROVE  WiresInv'
  <1> DEFINE o == offer[k][r]
  <1>1. o.row + 1 \in Nat \ {0} /\ 1 \in Nat \ {0} /\ FALSE \in BOOLEAN
    BY DEF WiresInv, OfferRows
  <1>2. ASSUME NEW record, Go(k, r, record), Updated(o, record) \in OfferRows, UNCHANGED <<addition, call, response, dialogs>>
        PROVE  WiresInv'
    <2>1. offer' \in [Dialog -> [Receivers -> OfferRows]]
      BY <1>2, GoStep
    <2> QED BY <1>2, <2>1 DEF WiresInv
  <1>3. CASE ServeRequest(k, r)
    BY <1>3 DEF ServeRequest, WiresInv, sender, receivers
  <1>4. CASE ReplyTrue(k, r)
    <2> DEFINE c == Parsed(listed[k][r])
    <2>1. Go(k, r, [pc |-> "lookup", row |-> 1, count |-> c]) /\ call' = [call EXCEPT ![k][r] = "true"]
          /\ UNCHANGED <<addition, response, dialogs>>
      BY <1>4 DEF ReplyTrue, sender
    <2>0. c \in Nat
      BY DEF CountsInv, Parsed
    <2> HIDE DEF c
    <2>2. Updated(o, [pc |-> "lookup", row |-> 1, count |-> c]) \in OfferRows
      BY <1>1, <2>0, GoRecords, PlacesOfOffers
    <2>3. offer' \in [Dialog -> [Receivers -> OfferRows]]
      BY <2>1, <2>2, GoStep
    <2> QED BY <2>1, <2>3 DEF WiresInv
  <1>5. CASE LookUpGroup(k, r)
    <2> DEFINE b == Has(db[r], WhereGroup(Group))
    <2>1. b \in BOOLEAN
      BY DEF Has
    <2>2. Go(k, r, [pc |-> "group", publishing |-> b]) /\ UNCHANGED <<addition, call, response, dialogs>>
      BY <1>5 DEF LookUpGroup, sender, wires
    <2> HIDE DEF b
    <2>3. Updated(o, [pc |-> "group", publishing |-> b]) \in OfferRows
      BY <2>1, GoRecords, PlacesOfOffers
    <2> QED BY <1>2, <2>2, <2>3
  <1>6. CASE PublishGroup(k, r) \/ PublishAssignee(k, r) \/ BeginOffer(k, r)
    <2>1. PICK p \in {"assignee", "begin", "insert", "dropped"} :
            Go(k, r, [pc |-> p]) /\ UNCHANGED <<addition, call, response, dialogs>>
      BY <1>6 DEF PublishGroup, PublishAssignee, BeginOffer, sender, wires
    <2>2. Updated(o, [pc |-> p]) \in OfferRows
      BY GoRecords, PlacesOfOffers
    <2> QED BY <1>2, <2>1, <2>2
  <1>7. CASE InsertOffer(k, r)
    <2> DEFINE n == o.row + 1
    <2>1. \/ Go(k, r, [row |-> n]) /\ UNCHANGED <<addition, call, response, dialogs>>
          \/ /\ Go(k, r, [pc |-> "asking", row |-> 1, publishing |-> FALSE])
             /\ dialogs' = [dialogs EXCEPT ![r] = Append(@, k)] /\ UNCHANGED <<addition, call, response>>
          \/ Go(k, r, [pc |-> "dropped"]) /\ UNCHANGED <<addition, call, response, dialogs>>
      BY <1>7 DEF InsertOffer, sender, wires
    <2>2. n \in Nat \ {0}
      BY <1>1
    <2> HIDE DEF n
    <2>3. CASE Go(k, r, [row |-> n]) /\ UNCHANGED <<addition, call, response, dialogs>>
      <3>1. Updated(o, [row |-> n]) \in OfferRows
        BY <2>2, GoRecords
      <3> QED BY <1>2, <2>3, <3>1
    <2>4. CASE /\ Go(k, r, [pc |-> "asking", row |-> 1, publishing |-> FALSE])
               /\ dialogs' = [dialogs EXCEPT ![r] = Append(@, k)] /\ UNCHANGED <<addition, call, response>>
      <3>1. Updated(o, [pc |-> "asking", row |-> 1, publishing |-> FALSE]) \in OfferRows
        BY <1>1, GoRecords, PlacesOfOffers
      <3>2. offer' \in [Dialog -> [Receivers -> OfferRows]]
        BY <2>4, <3>1, GoStep
      <3>3. dialogs' \in [Receivers -> Seq(Dialog)]
        BY <2>4, AppendProperties DEF WiresInv
      <3> QED BY <2>4, <3>2, <3>3 DEF WiresInv
    <2>5. CASE Go(k, r, [pc |-> "dropped"]) /\ UNCHANGED <<addition, call, response, dialogs>>
      <3>1. Updated(o, [pc |-> "dropped"]) \in OfferRows
        BY GoRecords, PlacesOfOffers
      <3> QED BY <1>2, <2>5, <3>1
    <2> QED BY <2>1, <2>3, <2>4, <2>5
  <1> QED BY <1>3, <1>4, <1>5, <1>6, <1>7 DEF OfferThread

LEMMA AnswerWires ==
  ASSUME WiresInv, NEW k \in Dialog, NEW r \in Receivers,
         \/ LookUpAnswered(k, r) \/ RemoveRefused(k, r) \/ FindConnection(k, r) \/ SendResponse(k, r)
         \/ ServeResponse(k, r) \/ TakeResponse(k, r)
         \/ \E accepted \in BOOLEAN : Answer(k, r, accepted)
  PROVE  WiresInv'
  <1> DEFINE o == offer[k][r]
  <1>1. ASSUME NEW p \in OfferPlaces, Go(k, r, [pc |-> p])
        PROVE  offer' \in [Dialog -> [Receivers -> OfferRows]]
    <2>1. Updated(o, [pc |-> p]) \in OfferRows
      BY GoRecords
    <2> QED BY <1>1, <2>1, GoStep
  <1>2. CASE LookUpAnswered(k, r) \/ RemoveRefused(k, r) \/ FindConnection(k, r)
    <2>1. PICK p \in {"done", "connection", "remove", "link"} :
            Go(k, r, [pc |-> p]) /\ UNCHANGED <<addition, call, response, dialogs>>
      BY <1>2 DEF LookUpAnswered, RemoveRefused, FindConnection, sender, wires
    <2>2. offer' \in [Dialog -> [Receivers -> OfferRows]]
      BY <1>1, <2>1, PlacesOfOffers
    <2> QED BY <2>1, <2>2 DEF WiresInv
  <1>3. CASE SendResponse(k, r)
    <2>1. /\ Go(k, r, [pc |-> "done"]) /\ UNCHANGED <<addition, call, dialogs>>
          /\ response' = [response EXCEPT ![k][r] = "sent"]
      BY <1>3 DEF SendResponse, sender
    <2>2. offer' \in [Dialog -> [Receivers -> OfferRows]]
      BY <1>1, <2>1, PlacesOfOffers
    <2> QED BY <2>1, <2>2 DEF WiresInv
  <1>4. CASE ServeResponse(k, r) \/ TakeResponse(k, r)
    <2>1. /\ UNCHANGED <<addition, call, offer, dialogs>>
          /\ \E p \in {"serving", "over", "lost"} : response' = [response EXCEPT ![k][r] = p]
      BY <1>4 DEF ServeResponse, TakeResponse, sender, receivers
    <2> QED BY <2>1 DEF WiresInv
  <1>5. ASSUME NEW accepted \in BOOLEAN, Answer(k, r, accepted) PROVE WiresInv'
    <2>1. /\ Go(k, r, [pc |-> "answered", accepted |-> accepted]) /\ UNCHANGED <<addition, call, response>>
          /\ dialogs[r] # <<>> /\ dialogs' = [dialogs EXCEPT ![r] = Front(@)]
      BY <1>5 DEF Answer, sender, wires
    <2>2. Updated(o, [pc |-> "answered", accepted |-> accepted]) \in OfferRows
      BY GoRecords, PlacesOfOffers
    <2>3. offer' \in [Dialog -> [Receivers -> OfferRows]]
      BY <2>1, <2>2, GoStep
    <2>4. Front(dialogs[r]) \in Seq(Dialog)
      <3>1. dialogs[r] \in Seq(Dialog)
        BY DEF WiresInv
      <3>2. SubSeq(dialogs[r], 1, Len(dialogs[r]) - 1) \in Seq(Dialog)
        BY <3>1, SubSeqProperties
      <3> QED BY <3>2 DEF Front
    <2> QED BY <2>1, <2>3, <2>4 DEF WiresInv
  <1> QED BY <1>2, <1>3, <1>4, <1>5

LEMMA RequestWires ==
  ASSUME TypesInv, NEW k \in Dialog, RequestThread(k) \/ Interrupt(k) \/ Retry(k) \/ StartRequest(k)
  PROVE  WiresInv'
  <1>1. UNCHANGED <<addition, response, offer, dialogs>>
    BY DEF RequestThread, AskDevice, SendRequest, GetResult, NoResult, PublishShare, NoMoreDevices, CheckRows,
           BeginRows, InsertRow, Interrupt, Retry, StartRequest, StartTask, wires, receivers
  <1>2. \/ call' = call
        \/ \E r, c : c \in {"asked", "over"} /\ call' = [call EXCEPT ![k][r] = c]
    BY DEF RequestThread, AskDevice, SendRequest, GetResult, NoResult, PublishShare, NoMoreDevices, CheckRows,
           BeginRows, InsertRow, Interrupt, Retry, StartRequest, StartTask, wires
  <1>3. call' \in [Dialog -> [Receivers -> {"none", "asked", "serving", "true", "over"}]]
    <2>1. call \in [Dialog -> [Receivers -> {"none", "asked", "serving", "true", "over"}]]
      BY DEF TypesInv, WiresInv
    <2>2. ASSUME NEW r, NEW c \in {"asked", "over"}, call' = [call EXCEPT ![k][r] = c]
          PROVE  call' \in [Dialog -> [Receivers -> {"none", "asked", "serving", "true", "over"}]]
      <3> DEFINE C == [Receivers -> {"none", "asked", "serving", "true", "over"}]
      <3>1. call[k] \in C
        BY <2>1
      <3>2. [call[k] EXCEPT ![r] = c] \in C
        BY <3>1
      <3>3. call' = [call EXCEPT ![k] = [call[k] EXCEPT ![r] = c]] /\ call \in [Dialog -> C]
        BY <2>1, <2>2
      <3> HIDE DEF C
      <3>4. call' \in [Dialog -> C]
        BY <3>2, <3>3
      <3> QED BY <3>4 DEF C
    <2> QED BY <1>2, <2>1, <2>2
  <1> QED BY <1>1, <1>3 DEF TypesInv, WiresInv

LEMMA OtherWires ==
  ASSUME WiresInv,
         \/ StartAddition \/ AddRow \/ CommitAddition \/ (\E d \in Device : RemoveTransfer(d))
         \/ CrashSender \/ \E r \in Receivers : CrashReceiver(r)
  PROVE  WiresInv'
  <1>1. addition \in AdditionRows /\ addition.row + 1 \in Nat \ {0}
    BY DEF WiresInv, AdditionRows
  <1>2. ASSUME NEW p \in {"insert", "commit", "ended"}, Add([pc |-> p]) PROVE addition' \in AdditionRows
    <2>1. Updated(addition, [pc |-> p]) = [pc |-> p, row |-> addition.row]
      BY <1>1, UpdatedAddition
    <2> QED BY <1>1, <1>2, <2>1 DEF Add, AdditionRows
  <1>3. ASSUME Add([row |-> addition.row + 1]) PROVE addition' \in AdditionRows
    <2> DEFINE n == addition.row + 1
    <2>1. addition' = Updated(addition, [row |-> n]) /\ n \in Nat \ {0}
      BY <1>1, <1>3 DEF Add
    <2> HIDE DEF n
    <2>2. Updated(addition, [row |-> n]) = [pc |-> addition.pc, row |-> n]
      BY <1>1, UpdatedAddition
    <2> QED BY <1>1, <2>1, <2>2 DEF AdditionRows
  <1>4. CASE StartAddition \/ AddRow \/ CommitAddition
    <2>1. /\ UNCHANGED <<call, response, offer, dialogs>>
          /\ \/ \E p \in {"insert", "commit", "ended"} : Add([pc |-> p])
             \/ Add([row |-> addition.row + 1])
      BY <1>4 DEF StartAddition, AddRow, CommitAddition, wires, receivers
    <2>2. addition' \in AdditionRows
      BY <1>2, <1>3, <2>1
    <2> QED BY <2>1, <2>2 DEF WiresInv
  <1>5. ASSUME NEW d \in Device, RemoveTransfer(d) PROVE WiresInv'
    BY <1>5 DEF RemoveTransfer, WiresInv, sender, wires, receivers
  <1>6. CASE CrashSender
    <2>1. addition' \in AdditionRows
      BY <1>2, <1>6 DEF CrashSender
    <2> QED BY <1>6, <2>1 DEF CrashSender, WiresInv, receivers
  <1>7. ASSUME NEW r \in Receivers, CrashReceiver(r) PROVE WiresInv'
    <2>1. /\ UNCHANGED <<addition, response>>
          /\ offer' = [k \in Dialog |-> [offer[k] EXCEPT ![r].pc = IF @ = "none" THEN "none" ELSE "done"]]
          /\ dialogs' = [dialogs EXCEPT ![r] = <<>>]
          /\ call' = [k \in Dialog |-> [call[k] EXCEPT ![r] = IF @ = "none" THEN "none" ELSE "over"]]
      BY <1>7 DEF CrashReceiver, sender
    <2>2. offer' \in [Dialog -> [Receivers -> OfferRows]]
      <3> DEFINE p(k)   == IF offer[k][r].pc = "none" THEN "none" ELSE "done"
                 new(k) == [offer[k][r] EXCEPT !.pc = p(k)]
      <3>1. ASSUME NEW k \in Dialog PROVE new(k) \in OfferRows
        <4>1. offer[k][r] \in OfferRows /\ p(k) \in OfferPlaces
          BY PlacesOfOffers DEF WiresInv
        <4> HIDE DEF p
        <4> QED BY <4>1 DEF OfferRows
      <3>2. offer' = [k \in Dialog |-> [offer[k] EXCEPT ![r] = new(k)]]
        BY <2>1
      <3> HIDE DEF new
      <3>3. offer \in [Dialog -> [Receivers -> OfferRows]]
        BY DEF WiresInv
      <3> QED BY <3>1, <3>2, <3>3
    <2>3. dialogs' \in [Receivers -> Seq(Dialog)]
      BY <2>1, EmptySeq DEF WiresInv
    <2>4. call' \in [Dialog -> [Receivers -> {"none", "asked", "serving", "true", "over"}]]
      BY <2>1 DEF WiresInv
    <2> QED BY <2>1, <2>2, <2>3, <2>4 DEF WiresInv
  <1> QED BY <1>4, <1>5, <1>6, <1>7

LEMMA HistoryStep ==
  ASSUME HistoryInv, [RequestsNext]_requestVars
  PROVE  /\ HistoryInv' /\ early \subseteq early' /\ overlap \subseteq overlap'
         /\ plan' = plan /\ trouble \in Nat /\ trouble' \in {trouble, trouble + 1}
  <1> DEFINE Goal == plan' = plan /\ (trouble' = trouble \/ Trouble)
                     /\ early \subseteq early' /\ early' \subseteq early \cup Receivers
                     /\ overlap \subseteq overlap' /\ overlap' \subseteq overlap \cup Device
  <1>1. ASSUME UNCHANGED <<plan, early, overlap>>, trouble' = trouble \/ Trouble PROVE Goal
    BY <1>1
  <1>2. ASSUME UNCHANGED <<plan, trouble, early>>, overlap \subseteq overlap', overlap' \subseteq overlap \cup Device PROVE Goal
    BY <1>2
  <1>3. ASSUME UNCHANGED requestVars PROVE Goal
    BY <1>1, <1>3 DEF requestVars, history
  <1>4. ASSUME NEW k \in Dialog, RequestThread(k) \/ Interrupt(k) PROVE Goal
    BY <1>1, <1>4 DEF RequestThread, AskDevice, PutTogether, SendRequest, GetResult, NoResult, PublishShare, NoMoreDevices,
           CheckRows, BeginRows, InsertRow, Interrupt, history
  <1>5. ASSUME NEW k \in Dialog, Retry(k) \/ StartRequest(k) PROVE Goal
    BY <1>2, <1>5, DeviceKinds DEF Retry, StartRequest, StartTask
  <1>6. ASSUME NEW k \in Dialog, NEW r \in Receivers, OfferThread(k, r) PROVE Goal
    BY <1>1, <1>2, <1>6, DeviceKinds DEF OfferThread, ServeRequest, ReplyTrue, LookUpGroup, PublishGroup, PublishAssignee,
           BeginOffer, InsertOffer, history
  <1>7. ASSUME NEW k \in Dialog, NEW r \in Receivers, AnswerThread(k, r) PROVE Goal
    <2>1. CASE LookUpAnswered(k, r) \/ FindConnection(k, r) \/ SendResponse(k, r) \/ ServeResponse(k, r)
      BY <1>1, <2>1 DEF LookUpAnswered, FindConnection, SendResponse, ServeResponse, history
    <2>2. CASE RemoveRefused(k, r)
      BY <1>2, <2>2, DeviceKinds DEF RemoveRefused, GroupRemoved
    <2>3. CASE TakeResponse(k, r)
      BY <2>3 DEF TakeResponse, EarlyWithout
    <2> QED BY <1>7, <2>1, <2>2, <2>3 DEF AnswerThread
  <1>8. ASSUME NEW k \in Dialog, NEW r \in Receivers, NEW accepted, Answer(k, r, accepted) PROVE Goal
    BY <1>1, <1>8 DEF Answer, history
  <1>9. ASSUME StartAddition \/ AddRow \/ CommitAddition PROVE Goal
    BY <1>1, <1>9 DEF StartAddition, AddRow, CommitAddition, history
  <1>10. ASSUME NEW d \in Device, RemoveTransfer(d) PROVE Goal
    <2>1. plan' = plan /\ Trouble
      BY <1>10 DEF RemoveTransfer
    <2>2. (EarlyWithout(Receivers) /\ UNCHANGED overlap) \/ (GroupRemoved(d) /\ UNCHANGED early)
      BY <1>10 DEF RemoveTransfer
    <2>3. early \subseteq early' /\ early' \subseteq early \cup Receivers
          /\ overlap \subseteq overlap' /\ overlap' \subseteq overlap \cup Device
      BY <2>2 DEF EarlyWithout, GroupRemoved
    <2> QED BY <2>1, <2>3
  <1>11. ASSUME CrashSender \/ \E r \in Receivers : CrashReceiver(r) PROVE Goal
    BY <1>1, <1>11 DEF CrashSender, CrashReceiver
  <1>12. Goal
    <2> HIDE DEF Goal
    <2> QED BY <1>3, <1>4, <1>5, <1>6, <1>7, <1>8, <1>9, <1>10, <1>11 DEF RequestsNext
  <1>13. plan.trouble \in Nat /\ trouble \in 0 .. plan.trouble
    BY PlansAssumption DEF HistoryInv
  <1> QED
    BY <1>12, <1>13 DEF HistoryInv, Trouble

\* Lists are put together by the sender and read where a request is answered.
LEMMA CountsStep ==
  ASSUME HistoryInv, CountsInv, [RequestsNext]_requestVars
  PROVE  /\ CountsInv'
         /\ \A r \in Receivers : \/ counts'[r] = counts[r]
                                \/ \E k \in Dialog : /\ ReplyTrue(k, r)
                                                     /\ counts'[r] = counts[r] \cup {Parsed(listed[k][r])}
  <1> DEFINE Same  == UNCHANGED <<listed, counts>>
             Lists == counts' = counts /\ \E k \in Dialog : AskDevice(k)
             Reads == listed' = listed /\ \E k \in Dialog, r \in Receivers : ReplyTrue(k, r)
             Goal  == Same \/ Lists \/ Reads
  <1>1. ASSUME UNCHANGED requestVars PROVE Goal
    BY <1>1 DEF requestVars, history, wires
  <1>2. ASSUME NEW k \in Dialog, RequestThread(k) \/ Interrupt(k) PROVE Goal
    BY <1>2 DEF RequestThread, AskDevice, SendRequest, GetResult, NoResult, PublishShare, NoMoreDevices,
           CheckRows, BeginRows, InsertRow, Interrupt, history, wires
  <1>3. ASSUME NEW k \in Dialog, Retry(k) \/ StartRequest(k) PROVE Goal
    BY <1>3 DEF Retry, StartRequest, StartTask, wires
  <1>4. ASSUME NEW k \in Dialog, NEW r \in Receivers, OfferThread(k, r) PROVE Goal
    BY <1>4 DEF OfferThread, ServeRequest, ReplyTrue, LookUpGroup, PublishGroup, PublishAssignee,
           BeginOffer, InsertOffer, history, wires
  <1>5. ASSUME NEW k \in Dialog, NEW r \in Receivers, AnswerThread(k, r) \/ \E accepted \in BOOLEAN : Answer(k, r, accepted)
        PROVE  Goal
    BY <1>5 DEF AnswerThread, LookUpAnswered, RemoveRefused, FindConnection, SendResponse, ServeResponse, TakeResponse,
           Answer, history, wires
  <1>6. ASSUME StartAddition \/ AddRow \/ CommitAddition PROVE Goal
    BY <1>6 DEF StartAddition, AddRow, CommitAddition, history, wires
  <1>7. ASSUME (\E d \in Device : RemoveTransfer(d)) \/ CrashSender \/ \E r \in Receivers : CrashReceiver(r) PROVE Goal
    BY <1>7 DEF RemoveTransfer, CrashSender, CrashReceiver, wires
  <1>8. Goal
    <2> HIDE DEF Goal
    <2> QED BY <1>1, <1>2, <1>3, <1>4, <1>5, <1>6, <1>7 DEF RequestsNext
  <1>9. plan' = plan /\ Files' = Files
    BY HistoryStep DEF Files
  <1>10. Files \in Seq(Nat)
    BY PlansAssumption DEF Files, HistoryInv
  <1>11. Len(Files) \in Nat
    BY <1>10
  <1>12. CASE Same
    BY <1>9, <1>12 DEF CountsInv
  <1>13. CASE Lists
    <2>1. PICK k \in Dialog : AskDevice(k)
      BY <1>13
    <2>2. listed' = listed \/ \E r, n : n \in 0 .. Len(Files) /\ listed' = [listed EXCEPT ![k][r] = n]
      BY <2>1 DEF AskDevice, PutTogether
    <2>3. ASSUME NEW r, NEW n \in 0 .. Len(Files), listed' = [listed EXCEPT ![k][r] = n]
          PROVE  listed' \in [Dialog -> [Receivers -> 0 .. Len(Files)]]
      <3> DEFINE C == [Receivers -> 0 .. Len(Files)]
      <3>1. listed \in [Dialog -> C] /\ listed[k] \in C
        BY DEF CountsInv
      <3>2. [listed[k] EXCEPT ![r] = n] \in C
        BY <3>1
      <3>3. listed' = [listed EXCEPT ![k] = [listed[k] EXCEPT ![r] = n]]
        BY <2>3
      <3> HIDE DEF C
      <3>4. listed' \in [Dialog -> C]
        BY <3>1, <3>2, <3>3
      <3> QED BY <3>4 DEF C
    <2>4. listed' \in [Dialog -> [Receivers -> 0 .. Len(Files)]]
      BY <2>2, <2>3 DEF CountsInv
    <2> QED BY <1>9, <1>13, <2>4 DEF CountsInv
  <1>14. CASE Reads
    <2>1. PICK k \in Dialog, r \in Receivers : ReplyTrue(k, r)
      BY <1>14
    <2> DEFINE c == Parsed(listed[k][r])
    <2>2. counts' = [counts EXCEPT ![r] = @ \cup {c}]
      BY <2>1 DEF ReplyTrue
    <2>3. c \in 0 .. Len(Files)
      BY <1>11 DEF CountsInv, Parsed
    <2> HIDE DEF c
    <2>4. counts' \in [Receivers -> SUBSET (0 .. Len(Files))] /\ \A x \in Receivers : counts[x] \subseteq counts'[x]
      BY <2>2, <2>3 DEF CountsInv
    <2>5. CountsInv'
      BY <1>9, <1>14, <2>4 DEF CountsInv
    <2>6. \A x \in Receivers : counts'[x] = IF x = r THEN counts[r] \cup {c} ELSE counts[x]
      BY <2>2 DEF CountsInv
    <2> QED BY <2>1, <2>5, <2>6 DEF c
  <1> QED BY <1>8, <1>12, <1>13, <1>14

\* A crash ends all requests of the sender.
LEMMA CrashEnds ==
  ASSUME TypesInv, CrashSender
  PROVE  RequestsInv(request') /\ \A k \in Dialog : request'[k].pc = "ended" /\ request'[k].passed = request[k].passed
  <1> DEFINE new(k) == [request[k] EXCEPT !.pc = "ended", !.failed = <<>>]
  <1>1. request' = [k \in Dialog |-> new(k)]
    BY DEF CrashSender
  <1>2. ASSUME NEW k \in Dialog
        PROVE  new(k) \in RequestRows /\ new(k).pc = "ended" /\ new(k).passed = request[k].passed
    <2>1. request[k] \in RequestRows /\ <<>> \in Seq(Receivers)
      BY EmptySeq DEF TypesInv, RequestsInv
    <2> QED BY <2>1 DEF RequestRows, RequestPlaces
  <1> HIDE DEF new
  <1> QED
    BY <1>1, <1>2 DEF RequestsInv, AskingInv

LEMMA TypesStep == TypesInv /\ [RequestsNext]_requestVars => TypesInv'
  <1> SUFFICES ASSUME TypesInv, [RequestsNext]_requestVars PROVE TypesInv'
    OBVIOUS
  <1> USE DEF TypesInv
  <1> DEFINE Goal == StoredInv(db', rollback') /\ RequestsInv(request') /\ WiresInv'
  <1>1. HistoryInv' /\ CountsInv'
    BY HistoryStep, CountsStep
  <1>2. ASSUME UNCHANGED requestVars PROVE Goal
    <2>1. UNCHANGED <<db, rollback, request, addition, call, response, offer, dialogs>>
      BY <1>2 DEF requestVars, stored, sender, wires, receivers
    <2>2. WiresInv'
      BY <2>1 DEF WiresInv
    <2> QED BY <2>1, <2>2
  <1>3. ASSUME NEW k \in Dialog, RequestThread(k) \/ Interrupt(k) \/ Retry(k) \/ StartRequest(k) PROVE Goal
    <2>1. RequestsInv(request')
      BY <1>3, AskDeviceMoves, WaitingMoves, CheckingMoves, InsertingMoves, PublishingMoves, UserMoves
         DEF RequestThread, RequestMoves
    <2>2. StoredInv(db', rollback') /\ WiresInv'
      BY <1>3, RequestStores, RequestWires
    <2> QED BY <2>1, <2>2
  <1>4. ASSUME NEW k \in Dialog, NEW r \in Receivers,
               OfferThread(k, r) \/ AnswerThread(k, r) \/ \E accepted \in BOOLEAN : Answer(k, r, accepted)
        PROVE  Goal
    <2>1. request' = request
      BY <1>4 DEF OfferThread, ServeRequest, ReplyTrue, LookUpGroup, PublishGroup, PublishAssignee,
           BeginOffer, InsertOffer, AnswerThread, LookUpAnswered, RemoveRefused, FindConnection, SendResponse, ServeResponse,
           TakeResponse, Answer, sender
    <2>2. StoredInv(db', rollback')
      BY <1>4, OfferStores, AnswerStores, ResponseStores DEF AnswerThread
    <2>3. WiresInv'
      BY <1>4, OfferWires, AnswerWires DEF AnswerThread
    <2> QED BY <2>1, <2>2, <2>3
  <1>5. ASSUME StartAddition \/ AddRow \/ CommitAddition PROVE Goal
    <2>1. request' = request
      BY <1>5 DEF StartAddition, AddRow, CommitAddition
    <2>2. StoredInv(db', rollback')
      BY <1>5, AdditionTables
    <2>3. WiresInv'
      BY <1>5, OtherWires
    <2> QED BY <2>1, <2>2, <2>3
  <1>6. ASSUME (\E d \in Device : RemoveTransfer(d)) \/ CrashSender \/ \E r \in Receivers : CrashReceiver(r)
        PROVE  Goal
    <2>1. request' = request \/ CrashSender
      BY <1>6 DEF RemoveTransfer, CrashReceiver, sender
    <2>2. RequestsInv(request')
      BY <2>1, CrashEnds
    <2>3. StoredInv(db', rollback')
      BY <1>6, OtherStores
    <2>4. WiresInv'
      BY <1>6, OtherWires
    <2> QED BY <2>2, <2>3, <2>4
  <1>7. Goal
    <2> HIDE DEF Goal, TypesInv
    <2> QED BY <1>2, <1>3, <1>4, <1>5, <1>6 DEF RequestsNext, Goal
  <1> QED BY <1>1, <1>7

-----------------------------------------------------------------------------
(* The beginning *)

\* Nothing is offered before anybody has been asked.
LEMMA KnownStored ==
  ASSUME NEW others, IsFiniteSet(others)
  PROVE  IsDatabase(Known(others)) /\ Known(others)["transfer"] = <<>>
  <1> DEFINE list  == SetToSeq(others)
             n     == Cardinality(others)
             devs  == [i \in 1 .. n |-> [deviceId |-> list[i]]]
             conns == [i \in 1 .. n |-> [deviceId |-> list[i], adapterName |-> "lan", ipAddress |-> list[i]]]
  <1>1. DOMAIN list = 1 .. n /\ n \in Nat
    BY SequenceOfSet
  <1>2. Known(others) = [NewDatabase EXCEPT !["devices"] = devs, !["deviceConnection"] = conns]
    BY <1>1 DEF Known
  <1> HIDE DEF list, n
  <1>3. IsTable(devs) /\ IsTable(conns)
    <2>1. DOMAIN devs = 1 .. n /\ devs = [i \in 1 .. n |-> devs[i]]
      OBVIOUS
    <2>2. DOMAIN conns = 1 .. n /\ conns = [i \in 1 .. n |-> conns[i]]
      OBVIOUS
    <2> HIDE DEF devs, conns
    <2> QED BY <1>1, <2>1, <2>2, RowsAsFunction
  <1> HIDE DEF devs, conns
  <1> DEFINE one == [NewDatabase EXCEPT !["devices"] = devs]
             two == [one EXCEPT !["deviceConnection"] = conns]
  <1>4. ChangesOnly(one, NewDatabase, {"devices"})
    BY <1>3, NewDatabaseIsOne, RowTables, TableReplaced
  <1>5. IsDatabase(one)
    BY <1>4 DEF ChangesOnly
  <1>6. Known(others) = two
    BY <1>2
  <1> HIDE DEF one
  <1>7. ChangesOnly(two, one, {"deviceConnection"})
    BY <1>3, <1>5, RowTables, TableReplaced
  <1> HIDE DEF two
  <1>8. IsDatabase(two) /\ two["transfer"] = one["transfer"]
    BY <1>7, RowTables DEF ChangesOnly
  <1>9. one["transfer"] = NewDatabase["transfer"]
    BY <1>4, RowTables DEF ChangesOnly
  <1>10. NewDatabase["transfer"] = <<>>
    BY RowTables, FilesIsNoTable DEF NewDatabase
  <1> QED
    BY <1>6, <1>8, <1>9, <1>10

LEMMA SenderStored ==
  ASSUME plan \in Plans
  PROVE  LET data == [Known(Receivers) EXCEPT !["transferGroup"] = <<[id |-> Group]>>,
                                              !["divisTransfer"] = Division(Group)]
         IN  IsDatabase(data) /\ data["transfer"] = <<>>
  <1> DEFINE k     == Known(Receivers)
             group == <<[id |-> Group]>>
             rows  == Division(Group)
             one   == [k EXCEPT !["transferGroup"] = group]
             two   == [one EXCEPT !["divisTransfer"] = rows]
  <1>1. IsDatabase(k) /\ k["transfer"] = <<>>
    BY PlansAssumption, KnownStored
  <1>2. IsTable(group)
    <2>1. group \in Seq({[id |-> Group]})
      OBVIOUS
    <2> QED BY <2>1 DEF IsTable
  <1>3. IsTable(rows)
    <2>1. Files \in Seq(Nat)
      BY PlansAssumption DEF Files
    <2>2. DOMAIN Files = 1 .. Len(Files) /\ Len(Files) \in Nat
      BY <2>1
    <2>3. rows = [i \in 1 .. Len(Files) |-> Row(Group, "null", Files[i], "Outgoing")]
      BY <2>2 DEF Division
    <2>4. DOMAIN rows = 1 .. Len(Files) /\ rows = [i \in 1 .. Len(Files) |-> rows[i]]
      BY <2>3
    <2> HIDE DEF rows
    <2> QED BY <2>2, <2>4, RowsAsFunction
  <1>4. [Known(Receivers) EXCEPT !["transferGroup"] = <<[id |-> Group]>>, !["divisTransfer"] = Division(Group)] = two
    OBVIOUS
  <1> HIDE DEF k, group, rows
  <1>5. ChangesOnly(one, k, {"transferGroup"})
    BY <1>1, <1>2, RowTables, TableReplaced
  <1>6. IsDatabase(one)
    BY <1>5 DEF ChangesOnly
  <1> HIDE DEF one
  <1>7. ChangesOnly(two, one, {"divisTransfer"})
    BY <1>3, <1>6, RowTables, TableReplaced
  <1> HIDE DEF two
  <1>8. IsDatabase(two) /\ two["transfer"] = one["transfer"]
    BY <1>7, RowTables DEF ChangesOnly
  <1>9. one["transfer"] = k["transfer"]
    BY <1>5, RowTables DEF ChangesOnly
  <1> QED
    BY <1>1, <1>4, <1>8, <1>9

LEMMA InitTypes == RequestsInit => TypesInv /\ db[Sender]["transfer"] = <<>>
  <1> SUFFICES ASSUME RequestsInit PROVE TypesInv /\ db[Sender]["transfer"] = <<>>
    OBVIOUS
  <1>1. plan \in Plans
    BY DEF RequestsInit
  <1> DEFINE data == [Known(Receivers) EXCEPT !["transferGroup"] = <<[id |-> Group]>>,
                                              !["divisTransfer"] = Division(Group)]
             other == Known({Sender})
  <1>2. db = [d \in Device |-> IF d \in Receivers THEN other ELSE data]
    BY DEF RequestsInit
  <1>3. IsDatabase(data) /\ data["transfer"] = <<>>
    BY <1>1, SenderStored
  <1>4. IsDatabase(other)
    BY FS_Singleton, KnownStored
  <1> HIDE DEF data, other
  <1>5. DOMAIN db = Device /\ (\A d \in Device : IsDatabase(db[d])) /\ db[Sender] = data
    BY <1>2, <1>3, <1>4, DeviceKinds
  <1>6. StoredInv(db, rollback)
    BY <1>5 DEF RequestsInit, StoredInv, IsRollback
  <1>7. RequestsInv(request)
    <2> DEFINE q == [pc |-> "idle", todo |-> <<>>, at |-> 1, row |-> 1, passed |-> <<>>,
                     failed |-> <<>>, interrupted |-> FALSE]
    <2>1. <<>> \in Seq(Receivers)
      BY EmptySeq
    <2>2. AskingInv(q)
      BY <2>1 DEF AskingInv, RequestRows, RequestPlaces
    <2>3. request = [k \in Dialog |-> q]
      BY DEF RequestsInit
    <2> HIDE DEF q
    <2> QED BY <2>2, <2>3 DEF RequestsInv, AskingInv
  <1>8. WiresInv
    <2> DEFINE o == [pc |-> "none", publishing |-> FALSE, row |-> 1, count |-> 0, accepted |-> FALSE]
    <2>1. o \in OfferRows
      BY PlacesOfOffers DEF OfferRows
    <2>2. offer = [k \in Dialog |-> [r \in Receivers |-> o]]
      BY DEF RequestsInit
    <2> HIDE DEF o
    <2>3. offer \in [Dialog -> [Receivers -> OfferRows]]
      BY <2>1, <2>2
    <2>4. addition \in AdditionRows
      BY DEF RequestsInit, AdditionRows
    <2>5. dialogs \in [Receivers -> Seq(Dialog)]
      BY EmptySeq DEF RequestsInit
    <2>6. call \in [Dialog -> [Receivers -> {"none"}]] /\ response \in [Dialog -> [Receivers -> {"none"}]]
      BY DEF RequestsInit
    <2> QED BY <2>3, <2>4, <2>5, <2>6 DEF WiresInv
  <1>9. HistoryInv
    BY <1>1, PlansAssumption DEF RequestsInit, HistoryInv
  <1>10. CountsInv
    <2>1. Files \in Seq(Nat)
      BY <1>1, PlansAssumption DEF Files
    <2>2. 0 \in 0 .. Len(Files)
      BY <2>1
    <2> QED BY <2>2 DEF RequestsInit, CountsInv
  <1> QED
    BY <1>3, <1>5, <1>6, <1>7, <1>8, <1>9, <1>10 DEF TypesInv

\* Databases stay databases, a device is asked while it is the first of those that are left, and
\* there is never more than one transaction at a device.
THEOREM RequestsInvariant == RequestsSpec => []TypesInv
  <1>1. RequestsInit => TypesInv
    BY InitTypes
  <1>2. TypesInv /\ [RequestsNext]_requestVars => TypesInv'
    BY TypesStep
  <1> QED
    BY <1>1, <1>2, PTL DEF RequestsSpec

\* Every variable has its type (RequestsTypeOK).
THEOREM RequestsAreTyped == RequestsSpec => []RequestsTypeOK
  <1>1. TypesInv => RequestsTypeOK
    <2> SUFFICES ASSUME TypesInv PROVE RequestsTypeOK
      OBVIOUS
    <2>1. \A d \in Device : Len(rollback[d]) \in 0 .. 1
      <3> TAKE d \in Device
      <3>1. IsRollback(rollback[d])
        BY DEF TypesInv, StoredInv
      <3>2. Len(<<>>) = 0 /\ \A old : Len(<<old>>) = 1
        OBVIOUS
      <3>3. rollback[d] = <<>> \/ \E old : rollback[d] = <<old>>
        BY <3>1 DEF IsRollback, NoTransaction
      <3>4. Len(rollback[d]) = 0 \/ Len(rollback[d]) = 1
        BY <3>2, <3>3
      <3> QED BY <3>4
    <2>2. \A k \in Dialog : request[k].pc \in RequestPlaces
      BY DEF TypesInv, RequestsInv, RequestRows
    <2>3. /\ addition.pc \in {"idle", "insert", "commit", "ended"}
          /\ \A k \in Dialog, r \in Receivers : offer[k][r].pc \in OfferPlaces
      BY DEF TypesInv, WiresInv, AdditionRows, OfferRows
    <2>4. \A r \in Receivers : ToSet(dialogs[r]) \subseteq Dialog
      <3> TAKE r \in Receivers
      <3>1. dialogs[r] \in Seq(Dialog)
        BY DEF TypesInv, WiresInv
      <3> QED BY <3>1 DEF ToSet
    <2> QED
      BY <2>1, <2>2, <2>3, <2>4 DEF RequestsTypeOK, TypesInv, StoredInv, WiresInv, HistoryInv, CountsInv, RequestPlaces, OfferPlaces
  <1> QED
    BY <1>1, RequestsInvariant, PTL

-----------------------------------------------------------------------------
(* What is offered belongs to an assignee *)

LEMMA SharesKept ==
  ASSUME NEW old, NEW new, NEW gone, NEW more, Keeps(new, old), gone \subseteq more, SharesInv(old, gone)
  PROVE  SharesInv(new, more)
  BY DEF Keeps, SharesInv

\* A request that goes on, over databases that take no share away.
LEMMA PassedKept ==
  ASSUME NEW q \in RequestRows, NEW new \in RequestRows, Moves(q, new), AskingInv(q), NEW old, NEW data, Keeps(data, old),
         NEW gone, NEW more, gone \subseteq more, PassedInv(q, old, gone)
  PROVE  PassedInv(new, data, more)
  <1> DEFINE n == Len(q.passed)
  <1>1. q.passed \in Seq(Receivers) /\ n \in Nat /\ \A i \in 1 .. n : q.passed[i] \in Receivers
    BY ElementOfSeq DEF RequestRows
  <1>2. q.pc # "ended"
    BY DEF Moves
  <1>3. q.pc = "idle" => n = 0
    BY EmptySeq DEF AskingInv
  <1>4. ASSUME NEW i \in 1 .. n, q.pc # "publish" \/ i # n
        PROVE  Assigned(data, q.passed[i]) \/ q.passed[i] \in more
    <2>1. q.pc \notin {"idle", "ended"}
      BY <1>1, <1>2, <1>3
    <2>2. Assigned(old, q.passed[i]) \/ q.passed[i] \in gone
      BY <1>4, <2>1 DEF PassedInv
    <2> QED BY <1>1, <2>2 DEF Keeps
  <1>5. CASE new.passed = q.passed /\ (q.pc # "publish" \/ new.pc = "publish")
    BY <1>4, <1>5 DEF PassedInv
  <1>6. CASE q.pc = "await" /\ new.pc = "publish" /\ new.passed = Append(q.passed, Head(q.todo))
    <2> DEFINE r == Head(q.todo)
    <2>1. r \in Receivers
      BY <1>6, RestOfDevices DEF RequestRows, AskingInv
    <2> HIDE DEF r
    <2>2. Len(new.passed) = n + 1 /\ \A i \in 1 .. n : new.passed[i] = q.passed[i]
      BY <1>1, <1>6, <2>1, AppendProperties DEF r
    <2> HIDE DEF n
    <2> QED BY <1>1, <1>4, <1>6, <2>2 DEF PassedInv
  <1> QED BY <1>5, <1>6 DEF Moves

\* One request goes on, the others wait.
LEMMA OneMoves ==
  ASSUME TypesInv, OfferedInv, NEW k \in Dialog, RequestMoves(k), NEW data, Keeps(data, db[Sender]),
         NEW more, early \subseteq more
  PROVE  \A j \in Dialog : PassedInv(request'[j], data, more)
  <1>1. \A j \in Dialog : /\ request[j] \in RequestRows /\ AskingInv(request[j])
                          /\ PassedInv(request[j], db[Sender], early)
    BY DEF TypesInv, RequestsInv, OfferedInv
  <1>2. \A j \in Dialog : request'[j] \in RequestRows
    BY DEF RequestMoves, RequestsInv
  <1>3. PassedInv(request'[k], data, more)
    BY <1>1, <1>2, PassedKept DEF RequestMoves
  <1>4. ASSUME NEW j \in Dialog \ {k} PROVE PassedInv(request'[j], data, more)
    <2>1. request'[j] = request[j]
      BY DEF RequestMoves
    <2> QED BY <1>1, <2>1 DEF PassedInv, Keeps, RequestRows
  <1> QED BY <1>3, <1>4

\* The steps over which the sender's databases lose no share, and no request moves but one.
LEMMA KeepingStep ==
  ASSUME TypesInv, OfferedInv, Keeps(db'[Sender], db[Sender]), early \subseteq early',
         rollback'[Sender] \in {rollback[Sender], NoTransaction, <<db[Sender]>>},
         request' = request \/ \E k \in Dialog : RequestMoves(k)
  PROVE  OfferedInv'
  <1>1. SharesInv(db'[Sender], early')
    BY SharesKept DEF OfferedInv
  <1>2. ASSUME NEW old, rollback'[Sender] = <<old>> PROVE SharesInv(old, early')
    <2>1. <<old>> # NoTransaction
      BY DEF NoTransaction
    <2>2. rollback[Sender] = <<old>> \/ old = db[Sender]
      BY <1>2, <2>1
    <2>3. SharesInv(old, early)
      BY <2>2 DEF OfferedInv
    <2> QED BY <2>3 DEF SharesInv
  <1>3. \A k \in Dialog : PassedInv(request'[k], db'[Sender], early')
    <2>1. CASE request' = request
      <3>1. \A k \in Dialog : request[k] \in RequestRows /\ PassedInv(request[k], db[Sender], early)
        BY DEF TypesInv, RequestsInv, OfferedInv
      <3>2. ASSUME NEW k \in Dialog PROVE PassedInv(request[k], db'[Sender], early')
        <4>1. \A i \in 1 .. Len(request[k].passed) : request[k].passed[i] \in Receivers
          BY <3>1, ElementOfSeq DEF RequestRows
        <4> QED BY <3>1, <4>1 DEF PassedInv, Keeps
      <3> QED BY <2>1, <3>2
    <2>2. ASSUME NEW k \in Dialog, RequestMoves(k)
          PROVE  \A j \in Dialog : PassedInv(request'[j], db'[Sender], early')
      BY <2>2, OneMoves
    <2> QED BY <2>1, <2>2
  <1> QED BY <1>1, <1>2, <1>3 DEF OfferedInv

LEMMA SameKeeps == \A data : IsDatabase(data) => Keeps(data, data)
  BY DEF Keeps

\* The steps of a request that write no rows of the shares.
LEMMA RequestOffers ==
  ASSUME TypesInv, OfferedInv, early \subseteq early', NEW k \in Dialog,
         \/ AskDevice(k) \/ SendRequest(k) \/ GetResult(k) \/ NoResult(k) \/ NoMoreDevices(k) \/ CheckRows(k)
         \/ BeginRows(k) \/ Interrupt(k) \/ Retry(k) \/ StartRequest(k)
  PROVE  OfferedInv'
  <1>1. /\ StoredInv(db, rollback) /\ Sender \in Device /\ IsDatabase(db[Sender])
        /\ DOMAIN db = Device /\ DOMAIN rollback = Device
    BY DeviceKinds DEF TypesInv, StoredInv
  <1>2. \E j \in Dialog : RequestMoves(j)
    BY AskDeviceMoves, WaitingMoves, CheckingMoves, UserMoves
  <1>3. rollback'[Sender] \in {rollback[Sender], NoTransaction, <<db[Sender]>>}
    BY <1>1 DEF AskDevice, SendRequest, GetResult, NoResult, NoMoreDevices, CheckRows, BeginRows, Interrupt, Retry,
                StartRequest, StartTask, stored, Begin, Denied
  <1>4. db' = db \/ (\E peer : Set(Sender, Forget(Sender, peer))) \/ \E peer : Set(Sender, Record(Sender, peer))
    BY DEF AskDevice, SendRequest, GetResult, NoResult, NoMoreDevices, CheckRows, BeginRows, Interrupt, Retry,
           StartRequest, StartTask, stored
  <1>5. \A peer : Keeps(Forget(Sender, peer), db[Sender]) /\ Keeps(Record(Sender, peer), db[Sender])
    <2>1. \A peer : /\ ChangesOnly(Forget(Sender, peer), db[Sender], {"deviceConnection"})
                    /\ ChangesOnly(Record(Sender, peer), db[Sender], {"deviceConnection"})
      BY <1>1, ConnectionStores
    <2> QED BY <2>1, OtherTablesKeep
  <1>6. Keeps(db'[Sender], db[Sender])
    BY <1>1, <1>4, <1>5, SameKeeps DEF Set
  <1> QED
    BY <1>2, <1>3, <1>6, KeepingStep

LEMMA PublishOffers ==
  ASSUME TypesInv, OfferedInv, early \subseteq early', NEW k \in Dialog, PublishShare(k)
  PROVE  OfferedInv'
  <1> DEFINE r   == Head(request[k].todo)
             new == Publish(db[Sender], WhereAssignee(Group, r), Share(r))
             q   == request[k]
  <1>1. Sender \in Device /\ IsDatabase(db[Sender]) /\ DOMAIN db = Device
    BY DeviceKinds DEF TypesInv, StoredInv
  <1>2. rollback' = rollback /\ Set(Sender, new) /\ q.pc = "publish"
    BY DEF PublishShare, Share
  <1>3. Keeps(new, db[Sender]) /\ Assigned(new, r)
    BY <1>1, SharePublished
  <1>4. /\ q \in RequestRows /\ q.passed # <<>> /\ q.passed[Len(q.passed)] = r
        /\ \A i \in 1 .. Len(q.passed) : q.passed[i] \in Receivers
    <2>1. q \in RequestRows /\ AskingInv(q)
      BY DEF TypesInv, RequestsInv
    <2> QED BY <1>2, <2>1, ElementOfSeq DEF AskingInv, RequestRows
  <1>5. /\ \A j \in Dialog \ {k} : request'[j] = request[j]
        /\ request'[k].passed = q.passed /\ request'[k].pc = "next"
    BY PublishingMoves
  <1> HIDE DEF new, r, q
  <1>6. db'[Sender] = new
    BY <1>1, <1>2 DEF Set
  <1>7. SharesInv(new, early')
    BY <1>3, SharesKept DEF OfferedInv
  <1>8. \A old : rollback'[Sender] = <<old>> => SharesInv(old, early')
    BY <1>2 DEF OfferedInv, SharesInv
  <1>9. PassedInv(request'[k], new, early')
    <2>1. PassedInv(q, db[Sender], early)
      BY DEF OfferedInv, q
    <2>2. ASSUME NEW i \in 1 .. Len(q.passed)
          PROVE  Assigned(new, q.passed[i]) \/ q.passed[i] \in early'
      <3>1. CASE i = Len(q.passed)
        BY <1>3, <1>4, <3>1
      <3>2. CASE i # Len(q.passed)
        <4>1. Assigned(db[Sender], q.passed[i]) \/ q.passed[i] \in early
          BY <1>2, <2>1, <3>2 DEF PassedInv
        <4> QED BY <1>3, <1>4, <4>1 DEF Keeps
      <3> QED BY <3>1, <3>2
    <2> QED BY <1>5, <2>2 DEF PassedInv
  <1>10. ASSUME NEW j \in Dialog \ {k} PROVE PassedInv(request'[j], new, early')
    <2>1. request'[j] = request[j] /\ PassedInv(request[j], db[Sender], early) /\ request[j] \in RequestRows
      BY <1>5 DEF OfferedInv, TypesInv, RequestsInv
    <2>2. \A i \in 1 .. Len(request[j].passed) : request[j].passed[i] \in Receivers
      BY <2>1, ElementOfSeq DEF RequestRows
    <2> QED BY <1>3, <2>1, <2>2 DEF PassedInv, Keeps
  <1> QED
    BY <1>6, <1>7, <1>8, <1>9, <1>10 DEF OfferedInv

\* A row is only written for a device that has said yes.
LEMMA InsertOffers ==
  ASSUME TypesInv, OfferedInv, early \subseteq early', NEW k \in Dialog, InsertRow(k)
  PROVE  OfferedInv'
  <1> DEFINE q == request[k]
             r == q.passed[q.at]
  <1>1. Sender \in Device /\ IsDatabase(db[Sender]) /\ DOMAIN db = Device /\ DOMAIN rollback = Device
    BY DeviceKinds DEF TypesInv, StoredInv
  <1>2. RequestMoves(k)
    BY InsertingMoves
  <1>3. q.pc = "insert" /\ r \in Receivers /\ (Assigned(db[Sender], r) \/ r \in early)
    <2>1. q.pc = "insert" /\ q \in RequestRows /\ AskingInv(q) /\ PassedInv(q, db[Sender], early)
      BY DEF InsertRow, TypesInv, RequestsInv, OfferedInv
    <2> HIDE DEF q
    <2>2. q.at \in 1 .. Len(q.passed)
      BY <2>1 DEF AskingInv, RequestRows
    <2>3. r \in Receivers
      BY <2>1, <2>2, ElementOfSeq DEF RequestRows
    <2> QED BY <2>1, <2>2, <2>3 DEF PassedInv
  <1>4. CASE db' = db /\ Commit(Sender)
    <2>1. rollback'[Sender] = NoTransaction
      BY <1>1, <1>4 DEF Commit
    <2> QED BY <1>1, <1>2, <1>4, <2>1, SameKeeps, KeepingStep
  <1>5. ASSUME NEW f, rollback' = rollback, Set(Sender, Insert(db[Sender], "transfer", Row(Group, r, f, "Outgoing")))
        PROVE  OfferedInv'
    <2> DEFINE new == Insert(db[Sender], "transfer", Row(Group, r, f, "Outgoing"))
    <2> HIDE DEF r
    <2>1. /\ IsDatabase(new)
          /\ \A x \in Receivers : (Offered(new, x) => Offered(db[Sender], x) \/ x = r)
                                  /\ (Assigned(db[Sender], x) => Assigned(new, x))
      BY <1>1, RowOffered
    <2>2. Set(Sender, new)
      BY <1>5
    <2> HIDE DEF new
    <2>3. db'[Sender] = new
      BY <1>1, <2>2 DEF Set
    <2>4. SharesInv(new, early')
      BY <1>3, <2>1 DEF SharesInv, OfferedInv
    <2>5. \A old : rollback'[Sender] = <<old>> => SharesInv(old, early')
      BY <1>5 DEF OfferedInv, SharesInv
    <2>6. ASSUME NEW j \in Dialog PROVE PassedInv(request'[j], new, early')
      <3>1. /\ request[j] \in RequestRows /\ PassedInv(request[j], db[Sender], early)
            /\ \A i \in 1 .. Len(request[j].passed) : request[j].passed[i] \in Receivers
        BY ElementOfSeq DEF OfferedInv, TypesInv, RequestsInv, RequestRows
      <3>2. PassedInv(request[j], new, early')
        BY <2>1, <3>1 DEF PassedInv
      <3>3. CASE j # k
        BY <1>2, <3>2, <3>3 DEF RequestMoves
      <3>4. CASE j = k
        <4>1. request'[j].passed = request[j].passed
          BY <1>2, <1>3, <3>4 DEF RequestMoves, Moves
        <4>2. request[j].pc = "insert"
          BY <1>3, <3>4
        <4> QED BY <3>2, <4>1, <4>2 DEF PassedInv
      <3> QED BY <3>3, <3>4
    <2> QED BY <2>3, <2>4, <2>5, <2>6 DEF OfferedInv
  <1>6. \/ db' = db /\ Commit(Sender)
        \/ \E f : rollback' = rollback /\ Set(Sender, Insert(db[Sender], "transfer", Row(Group, r, f, "Outgoing")))
    BY DEF InsertRow
  <1> QED BY <1>4, <1>5, <1>6

\* A share that goes takes its rows with it, and all requests that it concerns know that it went early.
LEMMA TakingStep ==
  ASSUME TypesInv, OfferedInv, NEW gone \in SUBSET Receivers, EarlyWithout(gone), request' = request,
         rollback' = rollback, NEW new, db'[Sender] = new,
         \A x \in Receivers : Offered(new, x) => Offered(db[Sender], x) /\ x \notin gone,
         \A x \in Receivers : Assigned(db[Sender], x) => Assigned(new, x) \/ x \in gone
  PROVE  OfferedInv'
  <1>1. early \subseteq early' /\ \A k \in Dialog, r \in gone : Concerns(k, r) => r \in early'
    BY DEF EarlyWithout
  <1>2. SharesInv(new, early')
    BY <1>1 DEF OfferedInv, SharesInv
  <1>3. \A old : rollback'[Sender] = <<old>> => SharesInv(old, early')
    BY <1>1 DEF OfferedInv, SharesInv
  <1>4. ASSUME NEW k \in Dialog PROVE PassedInv(request[k], new, early')
    <2> DEFINE q == request[k]
    <2>1. /\ q \in RequestRows /\ PassedInv(q, db[Sender], early)
          /\ \A i \in 1 .. Len(q.passed) : q.passed[i] \in Receivers
      BY ElementOfSeq DEF OfferedInv, TypesInv, RequestsInv, RequestRows
    <2>2. ASSUME q.pc \notin {"idle", "ended"}, NEW i \in 1 .. Len(q.passed), q.passed[i] \in gone
          PROVE  q.passed[i] \in early'
      <3>1. q.passed[i] \in ToSet(q.passed)
        <4>1. q.passed \in Seq(Receivers)
          BY <2>1 DEF RequestRows
        <4> HIDE DEF q
        <4>2. i \in DOMAIN q.passed
          BY <2>2, <4>1
        <4> QED BY <4>2 DEF ToSet
      <3>2. Concerns(k, q.passed[i])
        BY <2>2, <3>1 DEF Concerns, Running
      <3> QED BY <1>1, <2>2, <3>2
    <2> HIDE DEF q
    <2>3. PassedInv(q, new, early')
      BY <1>1, <2>1, <2>2 DEF PassedInv
    <2> QED BY <2>3 DEF q
  <1> QED
    BY <1>2, <1>3, <1>4 DEF OfferedInv

LEMMA ResponseOffers ==
  ASSUME TypesInv, OfferedInv, early \subseteq early', NEW k \in Dialog, NEW r \in Receivers,
         ServeResponse(k, r) \/ TakeResponse(k, r)
  PROVE  OfferedInv'
  <1> DEFINE linked == Record(Sender, r)
  <1>1. /\ Sender \in Device /\ IsDatabase(db[Sender]) /\ DOMAIN db = Device /\ StoredInv(db, rollback)
        /\ request' = request /\ rollback' = rollback
    BY DeviceKinds DEF TypesInv, StoredInv, ServeResponse, TakeResponse, sender
  <1>2. Keeps(linked, db[Sender]) /\ Keeps(Forget(Sender, r), db[Sender])
    BY <1>1, ConnectionStores, OtherTablesKeep
  <1>3. CASE ServeResponse(k, r)
    <2>1. db' = db \/ Set(Sender, Forget(Sender, r))
      BY <1>3 DEF ServeResponse
    <2>2. Keeps(db'[Sender], db[Sender])
      BY <1>1, <1>2, <2>1, SameKeeps DEF Set
    <2> QED BY <1>1, <2>2, KeepingStep
  <1>4. CASE TakeResponse(k, r)
    <2>1. \/ Set(Sender, linked)
          \/ Set(Sender, RefusedBy(linked, r)) /\ EarlyWithout({r})
      BY <1>4 DEF TakeResponse
    <2> HIDE DEF linked
    <2>2. CASE Set(Sender, linked)
      <3>1. Keeps(db'[Sender], db[Sender])
        BY <1>1, <1>2, <2>2 DEF Set
      <3> QED BY <1>1, <3>1, KeepingStep
    <2>3. CASE Set(Sender, RefusedBy(linked, r)) /\ EarlyWithout({r})
      <3> DEFINE new == RefusedBy(linked, r)
      <3>1. /\ \A x \in Receivers : Offered(new, x) => Offered(linked, x) /\ x # r
            /\ \A x \in Receivers : Assigned(linked, x) => Assigned(new, x) \/ x = r
        BY <1>2, ShareRefused DEF Keeps
      <3>2. /\ \A x \in Receivers : Offered(new, x) => Offered(db[Sender], x) /\ x \notin {r}
            /\ \A x \in Receivers : Assigned(db[Sender], x) => Assigned(new, x) \/ x \in {r}
        BY <1>2, <3>1 DEF Keeps
      <3>3. db'[Sender] = new
        BY <1>1, <2>3 DEF Set
      <3> HIDE DEF new
      <3> QED BY <1>1, <2>3, <3>2, <3>3, TakingStep
    <2> QED BY <2>1, <2>2, <2>3
  <1> QED BY <1>3, <1>4

LEMMA RemovalOffers ==
  ASSUME TypesInv, OfferedInv, NEW d \in Device, RemoveTransfer(d)
  PROVE  OfferedInv'
  <1>1. /\ d \in Device /\ Sender \in Device /\ IsDatabase(db[d]) /\ DOMAIN db = Device
        /\ request' = request /\ rollback' = rollback
    BY DeviceKinds DEF TypesInv, StoredInv, RemoveTransfer, sender
  <1> DEFINE new == RemoveGroup(db[d], Group)
  <1>2. Set(d, new)
    BY DEF RemoveTransfer, GroupRemoved
  <1>3. CASE d = Sender
    <2>1. EarlyWithout(Receivers)
      BY <1>3 DEF RemoveTransfer
    <2>2. \A x \in Receivers : ~Offered(new, x)
      BY <1>1, GroupTaken
    <2>3. db'[Sender] = new
      BY <1>1, <1>2, <1>3 DEF Set
    <2> HIDE DEF new
    <2>4. Receivers \in SUBSET Receivers
      OBVIOUS
    <2>5. \A x \in Receivers : Offered(new, x) => Offered(db[Sender], x) /\ x \notin Receivers
      BY <2>2
    <2>6. \A x \in Receivers : Assigned(db[Sender], x) => Assigned(new, x) \/ x \in Receivers
      OBVIOUS
    <2> QED BY <1>1, <2>1, <2>3, <2>4, <2>5, <2>6, TakingStep
  <1>4. CASE d # Sender
    <2>1. early' = early
      BY <1>4 DEF RemoveTransfer
    <2>2. db'[Sender] = db[Sender]
      BY <1>1, <1>2, <1>4 DEF Set
    <2>3. Keeps(db'[Sender], db[Sender])
      BY <2>2, DeviceKinds, SameKeeps DEF TypesInv, StoredInv
    <2> QED BY <1>1, <2>1, <2>3, KeepingStep
  <1> QED BY <1>3, <1>4

\* A crash brings an older database back, and ends all requests.
LEMMA CrashOffers ==
  ASSUME TypesInv, OfferedInv, CrashSender
  PROVE  OfferedInv'
  <1>1. Sender \in Device /\ DOMAIN db = Device /\ DOMAIN rollback = Device /\ IsRollback(rollback[Sender])
    BY DeviceKinds DEF TypesInv, StoredInv
  <1>2. early' = early /\ rollback'[Sender] = NoTransaction
    BY <1>1 DEF CrashSender, Commit
  <1>3. db'[Sender] = IF rollback[Sender] = NoTransaction THEN db[Sender] ELSE rollback[Sender][1]
    BY <1>1 DEF CrashSender
  <1>4. SharesInv(db'[Sender], early)
    <2>1. CASE rollback[Sender] = NoTransaction
      BY <1>3, <2>1 DEF OfferedInv
    <2>2. CASE rollback[Sender] # NoTransaction
      <3>1. PICK old : rollback[Sender] = <<old>>
        BY <1>1, <2>2 DEF IsRollback
      <3>2. db'[Sender] = old
        BY <1>3, <2>2, <3>1
      <3> QED BY <3>1, <3>2 DEF OfferedInv
    <2> QED BY <2>1, <2>2
  <1>5. \A old : rollback'[Sender] # <<old>>
    BY <1>2 DEF NoTransaction
  <1>6. \A k \in Dialog : PassedInv(request'[k], db'[Sender], early')
    BY CrashEnds DEF PassedInv
  <1> QED BY <1>2, <1>4, <1>5, <1>6 DEF OfferedInv

\* What happens at a receiver does not concern the sender's rows.
LEMMA ReceiverOffers ==
  ASSUME TypesInv, OfferedInv, early \subseteq early', NEW r \in Receivers,
         \/ \E k \in Dialog :
              \/ OfferThread(k, r)
              \/ LookUpAnswered(k, r) \/ RemoveRefused(k, r) \/ FindConnection(k, r) \/ SendResponse(k, r)
              \/ \E accepted \in BOOLEAN : Answer(k, r, accepted)
         \/ CrashReceiver(r)
  PROVE  OfferedInv'
  <1>1. request' = request
    BY DEF OfferThread, ServeRequest, ReplyTrue, LookUpGroup, PublishGroup, PublishAssignee, BeginOffer, InsertOffer,
           LookUpAnswered, RemoveRefused, FindConnection, SendResponse, Answer, CrashReceiver, sender
  <1>2. db'[Sender] = db[Sender] /\ rollback'[Sender] = rollback[Sender]
    <2>1. CASE CrashReceiver(r)
      <3>1. Sender \in Device /\ r \in Device /\ r # Sender /\ DOMAIN db = Device /\ DOMAIN rollback = Device
        BY DeviceKinds DEF TypesInv, StoredInv
      <3> QED BY <2>1, <3>1 DEF CrashReceiver, Commit
    <2>2. CASE ~CrashReceiver(r)
      BY <2>2, OfferStores, AnswerStores
    <2> QED BY <2>1, <2>2
  <1>3. Keeps(db'[Sender], db[Sender])
    BY <1>2, DeviceKinds, SameKeeps DEF TypesInv, StoredInv
  <1> QED BY <1>1, <1>2, <1>3, KeepingStep

LEMMA AdditionOffers ==
  ASSUME TypesInv, OfferedInv, early \subseteq early', StartAddition \/ AddRow \/ CommitAddition
  PROVE  OfferedInv'
  <1>1. /\ Sender \in Device /\ IsDatabase(db[Sender]) /\ DOMAIN rollback = Device /\ StoredInv(db, rollback)
    BY DeviceKinds DEF TypesInv, StoredInv
  <1>2. request' = request
    BY DEF StartAddition, AddRow, CommitAddition
  <1>3. rollback'[Sender] \in {rollback[Sender], NoTransaction, <<db[Sender]>>}
    BY <1>1 DEF StartAddition, AddRow, CommitAddition, Begin, Denied, Commit
  <1>4. db' = db \/ \E T : ChangesOnly(db'[Sender], db[Sender], T) /\ T \cap {"transfer", "transferAssignee"} = {}
    BY <1>1, AdditionTables
  <1>5. Keeps(db'[Sender], db[Sender])
    <2>1. CASE db' = db
      BY <1>1, <2>1, SameKeeps
    <2>2. ASSUME NEW T, ChangesOnly(db'[Sender], db[Sender], T), T \cap {"transfer", "transferAssignee"} = {}
          PROVE  Keeps(db'[Sender], db[Sender])
      <3>1. "transfer" \notin T /\ "transferAssignee" \notin T
        BY <2>2
      <3> QED BY <2>2, <3>1, OtherTablesKeep
    <2> QED BY <1>4, <2>1, <2>2
  <1> QED BY <1>2, <1>3, <1>5, KeepingStep

LEMMA OfferedStep == TypesInv /\ OfferedInv /\ [RequestsNext]_requestVars => OfferedInv'
  <1> SUFFICES ASSUME TypesInv, OfferedInv, [RequestsNext]_requestVars PROVE OfferedInv'
    OBVIOUS
  <1>1. early \subseteq early'
    BY HistoryStep DEF TypesInv
  <1>2. CASE UNCHANGED requestVars
    BY <1>2 DEF requestVars, stored, sender, history, OfferedInv
  <1>3. ASSUME NEW k \in Dialog, RequestThread(k) \/ Interrupt(k) \/ Retry(k) \/ StartRequest(k) PROVE OfferedInv'
    BY <1>1, <1>3, RequestOffers, PublishOffers, InsertOffers DEF RequestThread
  <1>4. ASSUME NEW k \in Dialog, NEW r \in Receivers,
               OfferThread(k, r) \/ AnswerThread(k, r) \/ \E accepted \in BOOLEAN : Answer(k, r, accepted)
        PROVE  OfferedInv'
    BY <1>1, <1>4, ReceiverOffers, ResponseOffers DEF AnswerThread
  <1>5. CASE StartAddition \/ AddRow \/ CommitAddition
    BY <1>1, <1>5, AdditionOffers
  <1>6. CASE (\E d \in Device : RemoveTransfer(d)) \/ CrashSender
    BY <1>6, RemovalOffers, CrashOffers
  <1>7. ASSUME NEW r \in Receivers, CrashReceiver(r) PROVE OfferedInv'
    BY <1>1, <1>7, ReceiverOffers
  <1> QED
    BY <1>2, <1>3, <1>4, <1>5, <1>6, <1>7 DEF RequestsNext

\* A device that has said yes is an assignee of the group until its share is taken away; only such
\* devices get rows, and what a crash brings back obeys the same
\* (TransferRequestProgressDialog::task).
THEOREM OffersInvariant == RequestsSpec => [](TypesInv /\ OfferedInv)
  <1>1. RequestsInit => TypesInv /\ OfferedInv
    <2> SUFFICES ASSUME RequestsInit PROVE TypesInv /\ OfferedInv
      OBVIOUS
    <2>1. TypesInv /\ db[Sender]["transfer"] = <<>>
      BY InitTypes
    <2>2. \A r \in Receivers : ~Offered(db[Sender], r)
      <3>1. ToSet(db[Sender]["transfer"]) = {}
        BY <2>1 DEF ToSet
      <3> QED BY <3>1, OfferedRows
    <2>3. \A old : rollback[Sender] # <<old>>
      BY DeviceKinds DEF RequestsInit, NoTransaction
    <2>4. \A k \in Dialog : request[k].pc = "idle"
      BY DEF RequestsInit
    <2> QED BY <2>1, <2>2, <2>3, <2>4 DEF OfferedInv, SharesInv, PassedInv
  <1>2. TypesInv /\ OfferedInv /\ [RequestsNext]_requestVars => (TypesInv /\ OfferedInv)'
    BY TypesStep, OfferedStep
  <1> QED
    BY <1>1, <1>2, PTL DEF RequestsSpec

\* Rows that a device is to get belong to an assignee, unless its share was taken away while a
\* request still concerned it (TransferRequestProgressDialog::task, CommunicationServer::connected).
THEOREM OffersHaveAssignees == RequestsSpec => []OutgoingHasAssignee
  <1>1. OfferedInv => OutgoingHasAssignee
    BY DEF OfferedInv, SharesInv, OutgoingHasAssignee, Offered, Assigned
  <1> QED
    BY <1>1, OffersInvariant, PTL

-----------------------------------------------------------------------------
(* Lists as sequences of rows: no row is there twice *)

FirstOf(s, n)   == {s[i] : i \in 1 .. n}
DifferTo(s, n)  == \A i, j \in 1 .. n : s[i] = s[j] => i = j

\* A sequence without repetition is as long as the set of its elements.
LEMMA LengthOfElements ==
  ASSUME NEW n \in Nat, NEW m \in Nat, NEW s, NEW t, DifferTo(s, n), DifferTo(t, m), FirstOf(s, n) = FirstOf(t, m)
  PROVE  n = m
  <1> USE DEF FirstOf, DifferTo
  <1> DEFINE S == {s[i] : i \in 1 .. n}
             f == [i \in 1 .. n |-> s[i]]
             g == [i \in 1 .. m |-> t[i]]
  <1>0. S = {t[i] : i \in 1 .. m}
    OBVIOUS
  <1>1. f \in Bijection(1 .. n, S) /\ g \in Bijection(1 .. m, S)
    <2>1. f \in [1 .. n -> S] /\ \A i \in 1 .. n : f[i] = s[i]
      OBVIOUS
    <2>2. g \in [1 .. m -> S] /\ \A i \in 1 .. m : g[i] = t[i]
      BY <1>0
    <2>3. (\A x \in S : \E i \in 1 .. n : s[i] = x) /\ \A x \in S : \E i \in 1 .. m : t[i] = x
      BY <1>0
    <2> HIDE DEF f, g, S
    <2> QED BY <2>1, <2>2, <2>3 DEF Bijection, Injection, IsInjective, Surjection
  <1>2. ExistsBijection(1 .. n, S) /\ ExistsBijection(1 .. m, S)
    BY <1>1 DEF ExistsBijection
  <1>3. Cardinality(S) = n /\ Cardinality(S) = m
    BY <1>2, FS_CountingElements
  <1> QED BY <1>3

\* The rows of d are the first n of the list, and each of them is there once.
HoldsFirst(files, data, d, type, n) ==
  /\ \A i, j \in DOMAIN data["transfer"] :
       data["transfer"][i].deviceId = d /\ data["transfer"][i] = data["transfer"][j] => i = j
  /\ {row \in ToSet(data["transfer"]) : row.deviceId = d} = {Row(Group, d, files[i], type) : i \in 1 .. n}

\* A list of files: some, and no two of them have the same number.
IsList(files) == files \in Seq(Nat) /\ files # <<>> /\ \A i, j \in DOMAIN files : files[i] = files[j] => i = j

LEMMA ListLength ==
  ASSUME NEW files, IsList(files)
  PROVE  Len(files) \in Nat /\ Len(files) > 0 /\ DOMAIN files = 1 .. Len(files)
  BY EmptySeq DEF IsList

LEMMA RowFields ==
  ASSUME NEW d, NEW f, NEW type
  PROVE  /\ Row(Group, d, f, type).groupId = Group /\ Row(Group, d, f, type).id = f
         /\ Row(Group, d, f, type).deviceId = d /\ Row(Group, d, f, type).type = type
         /\ DOMAIN Row(Group, d, f, type) = {"groupId", "id", "deviceId", "type", "flag"}
  BY DEF Row

\* The rows that a selection by group and device finds are the first n, in some order.
LEMMA LengthOfList ==
  ASSUME NEW files, IsList(files), NEW data, IsDatabase(data), NEW d, NEW type, NEW n \in 0 .. Len(files),
         HoldsFirst(files, data, d, type, n), NEW s, s.table = "transfer",
         \A row \in ToSet(data["transfer"]) : Matches(row, s.where) <=> row.deviceId = d
  PROVE  /\ Len(Rows(data, s)) = n
         /\ {row.id : row \in ToSet(Rows(data, s))} = {files[i] : i \in 1 .. n}
         /\ Has(data, s) <=> n > 0
  <1> DEFINE t == data["transfer"]
             T == Chosen(t, s.where)
             R == Rows(data, s)
  <1>1. PICK S : t \in Seq(S)
    BY RowTables DEF IsDatabase, IsTable
  <1>2. R = Selected(t, T)
    BY DEF Rows
  <1>3. ToSet(R) = {Row(Group, d, files[i], type) : i \in 1 .. n} /\ IsTable(R)
    <2>1. ToSet(R) = Matching(t, s.where) /\ IsTable(R)
      BY <1>1, RowsOfSelection DEF IsTable
    <2> HIDE DEF R
    <2>2. Matching(t, s.where) = {row \in ToSet(t) : row.deviceId = d}
      BY DEF Matching
    <2> QED BY <2>1, <2>2 DEF HoldsFirst
  <1>4. \A i, j \in 1 .. Len(R) : R[i] = R[j] => i = j
    <2> HIDE DEF T
    <2>1. PICK f : Chooses(f, t, T, R)
      BY <1>1, <1>2, SelectedInOrder
    <2>2. DOMAIN t = 1 .. Len(t) /\ Len(t) \in Nat
      BY <1>1
    <2>3. Len(R) \in Nat /\ DOMAIN R = 1 .. Len(R)
      BY <1>3, TableDomain
    <2> HIDE DEF R, t
    <2>4. \A j \in 1 .. Len(R) : f[j] \in DOMAIN t /\ R[j] = t[f[j]]
      BY <2>1, <2>2 DEF Chooses
    <2>5. \A j \in 1 .. Len(R) : R[j].deviceId = d
      <3>1. \A j \in 1 .. Len(R) : R[j] \in ToSet(R)
        BY <2>3 DEF ToSet
      <3> QED BY <1>3, <3>1, RowFields
    <2>6. \A i, j \in 1 .. Len(R) : R[i] = R[j] => f[i] = f[j]
      BY <2>4, <2>5 DEF HoldsFirst, t
    <2>7. \A i, j \in 1 .. Len(R) : i < j => f[i] < f[j]
      BY <2>1 DEF Chooses
    <2>8. \A j \in 1 .. Len(R) : f[j] \in Nat
      BY <2>2, <2>4
    <2> QED BY <2>3, <2>6, <2>7, <2>8
  <1>5. Len(R) \in Nat /\ ToSet(R) = {R[i] : i \in 1 .. Len(R)}
    BY <1>3, TableDomain DEF ToSet
  <1> HIDE DEF R, t
  <1> DEFINE row(i) == Row(Group, d, files[i], type)
             list   == [i \in 1 .. n |-> row(i)]
  <1>6. \A i, j \in 1 .. n : list[i] = list[j] => i = j
    <2>1. \A i \in 1 .. n : list[i].id = files[i] /\ i \in DOMAIN files
      BY RowFields, ListLength
    <2> HIDE DEF list
    <2> QED BY <2>1 DEF IsList
  <1>7. {R[i] : i \in 1 .. Len(R)} = {list[i] : i \in 1 .. n}
    BY <1>3, <1>5
  <1> HIDE DEF list
  <1>8. Len(R) = n
    <2>1. n \in Nat
      BY ListLength
    <2>2. DifferTo(R, Len(R)) /\ DifferTo(list, n) /\ FirstOf(R, Len(R)) = FirstOf(list, n)
      BY <1>4, <1>6, <1>7 DEF DifferTo, FirstOf
    <2> QED BY <1>5, <2>1, <2>2, LengthOfElements
  <1>9. {x.id : x \in ToSet(R)} = {files[i] : i \in 1 .. n}
    BY <1>3, RowFields
  <1>10. Has(data, s) <=> n > 0
    <2>1. Has(data, s) <=> \E x \in ToSet(t) : x.deviceId = d
      BY HasARow DEF t
    <2>2. Has(data, s) <=> {x \in ToSet(t) : x.deviceId = d} # {}
      BY <2>1
    <2> QED BY <2>2 DEF HoldsFirst, t
  <1> QED BY <1>8, <1>9, <1>10 DEF R

\* The next file is inserted.
LEMMA NextInserted ==
  ASSUME NEW files, IsList(files), NEW data, IsDatabase(data), NEW d, NEW type, NEW n \in 0 .. Len(files) - 1,
         HoldsFirst(files, data, d, type, n)
  PROVE  HoldsFirst(files, Insert(data, "transfer", Row(Group, d, files[n + 1], type)), d, type, n + 1)
  <1> DEFINE t   == data["transfer"]
             row == Row(Group, d, files[n + 1], type)
             new == Insert(data, "transfer", row)
             u   == new["transfer"]
  <1>1. u = Append(t, row)
    BY RowTables, FilesIsNoTable DEF Insert, IsDatabase
  <1>2. DOMAIN t = 1 .. Len(t) /\ Len(t) \in Nat /\ \E S : t \in Seq(S)
    BY RowTables, TableDomain DEF IsDatabase, IsTable
  <1>3. ToSet(u) = ToSet(t) \cup {row}
    <2> HIDE DEF row
    <2>1. ToSet(Insert(data, "transfer", row)["transfer"]) = Added(data["transfer"], row)
      BY RowTables, InsertAddsRow
    <2> QED BY <2>1 DEF Added
  <1>4. row \notin ToSet(t)
    <2> SUFFICES ASSUME row \in ToSet(t) PROVE FALSE
      OBVIOUS
    <2>1. row.deviceId = d /\ row.id = files[n + 1]
      BY RowFields
    <2> HIDE DEF row
    <2>2. PICK i \in 1 .. n : row = Row(Group, d, files[i], type)
      BY <2>1 DEF HoldsFirst
    <2>3. files[i] = files[n + 1] /\ i \in DOMAIN files /\ n + 1 \in DOMAIN files
      BY <2>1, <2>2, RowFields, ListLength
    <2> QED BY <2>3 DEF IsList
  <1>5. \A i, j \in DOMAIN u : u[i].deviceId = d /\ u[i] = u[j] => i = j
    <2> HIDE DEF row
    <2>1. PICK S : t \in Seq(S)
      BY <1>2
    <2>2. DOMAIN u = 1 .. Len(t) + 1 /\ u[Len(t) + 1] = row /\ \A i \in 1 .. Len(t) : u[i] = t[i]
      BY <1>1, <2>1
    <2>3. \A i \in 1 .. Len(t) : t[i] # row
      BY <1>2, <1>4 DEF ToSet
    <2> HIDE DEF t, u
    <2> QED BY <1>2, <2>2, <2>3 DEF HoldsFirst, t
  <1>6. {x \in ToSet(u) : x.deviceId = d} = {Row(Group, d, files[i], type) : i \in 1 .. n + 1}
    <2>1. {x \in ToSet(u) : x.deviceId = d} = {x \in ToSet(t) : x.deviceId = d} \cup {row}
      BY <1>3, RowFields
    <2>2. 1 .. n + 1 = (1 .. n) \cup {n + 1}
      BY ListLength
    <2> QED BY <2>1, <2>2 DEF HoldsFirst
  <1> QED BY <1>5, <1>6 DEF HoldsFirst

\* A row of another device is inserted, and a table that stays as it was.
LEMMA OtherInserted ==
  ASSUME NEW files, NEW data, IsDatabase(data), NEW d, NEW type, NEW n, HoldsFirst(files, data, d, type, n),
         NEW object, object.deviceId # d
  PROVE  HoldsFirst(files, Insert(data, "transfer", object), d, type, n)
  <1> DEFINE t   == data["transfer"]
             new == Insert(data, "transfer", object)
             u   == new["transfer"]
  <1>1. u = Append(t, object)
    BY RowTables, FilesIsNoTable DEF Insert, IsDatabase
  <1>2. DOMAIN t = 1 .. Len(t) /\ Len(t) \in Nat /\ \E S : t \in Seq(S)
    BY RowTables, TableDomain DEF IsDatabase, IsTable
  <1>3. DOMAIN u = 1 .. Len(t) + 1 /\ u[Len(t) + 1] = object /\ \A i \in 1 .. Len(t) : u[i] = t[i]
    <2>1. PICK S : t \in Seq(S)
      BY <1>2
    <2> QED BY <1>1, <2>1
  <1>4. {x \in ToSet(u) : x.deviceId = d} = {x \in ToSet(t) : x.deviceId = d}
    <2>1. ToSet(Insert(data, "transfer", object)["transfer"]) = Added(data["transfer"], object)
      BY RowTables, InsertAddsRow
    <2>2. ToSet(u) = ToSet(t) \cup {object}
      BY <2>1 DEF Added
    <2> QED BY <2>2
  <1> HIDE DEF t, u, new
  <1>5. \A i, j \in DOMAIN u : u[i].deviceId = d /\ u[i] = u[j] => i = j
    <2> SUFFICES ASSUME NEW i \in DOMAIN u, NEW j \in DOMAIN u, u[i].deviceId = d, u[i] = u[j] PROVE i = j
      OBVIOUS
    <2>1. i # Len(t) + 1 /\ j # Len(t) + 1
      BY <1>3
    <2>2. i \in DOMAIN t /\ j \in DOMAIN t /\ t[i].deviceId = d /\ t[i] = t[j]
      BY <1>2, <1>3, <2>1
    <2> QED BY <2>2 DEF HoldsFirst, t
  <1> QED BY <1>4, <1>5 DEF HoldsFirst, t, u, new

LEMMA SameRowsHold ==
  ASSUME NEW files, NEW data, NEW new, new["transfer"] = data["transfer"], NEW d, NEW type, NEW n
  PROVE  HoldsFirst(files, new, d, type, n) <=> HoldsFirst(files, data, d, type, n)
  BY DEF HoldsFirst

\* Some of the rows, each at most as often as before.
IsPart(new, old) ==
  \E f \in [DOMAIN new -> DOMAIN old] : \A i, j \in DOMAIN new : new[i] = old[f[i]] /\ (f[i] = f[j] => i = j)

LEMMA DeletedPart ==
  ASSUME NEW data, IsDatabase(data), NEW s, s.table \in Tables
  PROVE  IsPart(Delete(data, s)[s.table], data[s.table])
  <1> DEFINE t   == data[s.table]
             T   == DOMAIN t \ Chosen(t, s.where)
             new == Selected(t, T)
  <1>1. PICK S : t \in Seq(S)
    BY DEF IsDatabase, IsTable
  <1>2. Delete(data, s)[s.table] = new
    BY DEF Delete, IsDatabase
  <1> HIDE DEF T, t
  <1>3. PICK f : Chooses(f, t, T, new)
    BY <1>1, SelectedInOrder
  <1>4. new \in Seq(S)
    BY <1>1, SelectedInOrder
  <1>5. DOMAIN new = 1 .. Len(new) /\ Len(new) \in Nat /\ DOMAIN t = 1 .. Len(t) /\ Len(t) \in Nat
    BY <1>1, <1>4
  <1> HIDE DEF new
  <1>6. f \in [DOMAIN new -> DOMAIN t]
    BY <1>3, <1>5 DEF Chooses
  <1>7. \A i, j \in DOMAIN new : new[i] = t[f[i]] /\ (f[i] = f[j] => i = j)
    <2>1. \A i, j \in 1 .. Len(new) : i < j => f[i] < f[j]
      BY <1>3 DEF Chooses
    <2>2. \A i \in 1 .. Len(new) : f[i] \in Nat /\ new[i] = t[f[i]]
      BY <1>3, <1>5, <1>6 DEF Chooses
    <2> QED BY <1>5, <2>1, <2>2
  <1> QED BY <1>2, <1>6, <1>7 DEF IsPart, t

LEMMA RemovedPart ==
  ASSUME NEW data, IsDatabase(data), NEW s, s.table = "transfer"
  PROVE  IsPart(RemoveObjects(data, s)["transfer"], data["transfer"])
  <1> DEFINE new == Delete(data, s)
  <1>1. PICK files : RemoveObjects(data, s) = [new EXCEPT !.files = files]
    BY DEF RemoveObjects
  <1>2. IsDatabase(new) /\ IsPart(new["transfer"], data["transfer"])
    BY RowTables, DeleteRemovesRows, DeletedPart DEF ChangesOnly
  <1> HIDE DEF new
  <1>3. RemoveObjects(data, s)["transfer"] = new["transfer"]
    BY <1>1, <1>2, FilesReplaced, RowTables, UnchangedRows
  <1> QED BY <1>2, <1>3

LEMMA AssigneePart ==
  ASSUME NEW data, IsDatabase(data), NEW g, NEW d
  PROVE  IsPart(RemoveAssignee(data, g, d)["transfer"], data["transfer"])
  <1> DEFINE one == Delete(data, WhereAssignee(g, d))
             S   == ShareOf(g, d)
  <1>1. RemoveAssignee(data, g, d) = RemoveObjects(one, S) \/ RemoveAssignee(data, g, d) = Delete(one, S)
    BY DEF RemoveAssignee
  <1>2. ChangesOnly(one, data, {"transferAssignee"}) /\ S.table = "transfer"
    BY SelectedTables, DeleteRemovesRows
  <1> HIDE DEF one, S
  <1>3. IsDatabase(one) /\ one["transfer"] = data["transfer"]
    BY <1>2, RowTables DEF ChangesOnly
  <1>4. IsPart(RemoveObjects(one, S)["transfer"], one["transfer"])
    BY <1>2, <1>3, RemovedPart
  <1>5. IsPart(Delete(one, S)["transfer"], one["transfer"])
    BY <1>2, <1>3, RowTables, DeletedPart
  <1> QED BY <1>1, <1>3, <1>4, <1>5

LEMMA PartHolds ==
  ASSUME NEW files, NEW data, NEW new, IsPart(new["transfer"], data["transfer"]), NEW where,
         ToSet(new["transfer"]) = Remaining(data["transfer"], where),
         NEW d, NEW type, NEW n, HoldsFirst(files, data, d, type, n)
  PROVE  /\ (\A row : row.deviceId = d => ~Matches(row, where)) => HoldsFirst(files, new, d, type, n)
         /\ (\A f : Matches(Row(Group, d, f, type), where)) => HoldsFirst(files, new, d, type, 0)
  <1> DEFINE t == data["transfer"]
             u == new["transfer"]
             mine == {row \in ToSet(t) : row.deviceId = d}
             left == {row \in ToSet(u) : row.deviceId = d}
  <1>1. \A i, j \in DOMAIN u : u[i].deviceId = d /\ u[i] = u[j] => i = j
    <2>1. PICK f \in [DOMAIN u -> DOMAIN t] : \A i, j \in DOMAIN u : u[i] = t[f[i]] /\ (f[i] = f[j] => i = j)
      BY DEF IsPart
    <2> HIDE DEF t, u
    <2> QED BY <2>1 DEF HoldsFirst, t
  <1>2. left = {row \in mine : ~Matches(row, where)}
    BY DEF Remaining
  <1>3. mine = {Row(Group, d, files[i], type) : i \in 1 .. n}
    BY DEF HoldsFirst
  <1>4. ASSUME \A row : row.deviceId = d => ~Matches(row, where) PROVE left = mine
    BY <1>2, <1>4
  <1>5. ASSUME \A f : Matches(Row(Group, d, f, type), where) PROVE left = {}
    BY <1>2, <1>3, <1>5
  <1>6. {Row(Group, d, files[i], type) : i \in 1 .. 0} = {}
    OBVIOUS
  <1> HIDE DEF mine
  <1> QED BY <1>1, <1>3, <1>4, <1>5, <1>6 DEF HoldsFirst

LEMMA GroupPart ==
  ASSUME NEW data, IsDatabase(data), NEW g
  PROVE  IsPart(RemoveGroup(data, g)["transfer"], data["transfer"])
  <1> DEFINE one   == Delete(data, WhereGroup(g))
             two   == Delete(one, AssigneesOf(g))
             three == Delete(two, DivisionOf(g))
             S     == [table |-> "transfer", where |-> [groupId |-> g]]
  <1>1. RemoveGroup(data, g) = RemoveObjects(three, S)
    BY DEF RemoveGroup
  <1>0. /\ WhereGroup(g).table = "transferGroup" /\ AssigneesOf(g).table = "transferAssignee"
        /\ DivisionOf(g).table = "divisTransfer"
    BY SelectedTables
  <1>2. ChangesOnly(one, data, {"transferGroup"})
    BY <1>0, RowTables, DeleteRemovesRows
  <1> HIDE DEF one
  <1>3. ChangesOnly(two, one, {"transferAssignee"})
    <2>1. IsDatabase(one)
      BY <1>2 DEF ChangesOnly
    <2> QED BY <1>0, <2>1, RowTables, DeleteRemovesRows
  <1> HIDE DEF two
  <1>4. ChangesOnly(three, two, {"divisTransfer"})
    <2>1. IsDatabase(two)
      BY <1>3 DEF ChangesOnly
    <2> QED BY <1>0, <2>1, RowTables, DeleteRemovesRows
  <1> HIDE DEF three
  <1>5. IsDatabase(three) /\ three["transfer"] = data["transfer"]
    BY <1>2, <1>3, <1>4, RowTables DEF ChangesOnly
  <1>6. S.table = "transfer"
    OBVIOUS
  <1> HIDE DEF S
  <1> QED BY <1>1, <1>5, <1>6, RemovedPart

\* A group that is removed takes the list of every device with it.
LEMMA RemovedGroupHolds ==
  ASSUME NEW data, IsDatabase(data), NEW files, NEW d, NEW type, NEW n, HoldsFirst(files, data, d, type, n)
  PROVE  HoldsFirst(files, RemoveGroup(data, Group), d, type, 0) /\ ~Has(RemoveGroup(data, Group), WhereGroup(Group))
  <1> DEFINE new   == RemoveGroup(data, Group)
             where == [groupId |-> Group]
  <1>1. IsPart(new["transfer"], data["transfer"])
    BY GroupPart
  <1>2. /\ ToSet(new["transfer"]) = Remaining(data["transfer"], where)
        /\ ToSet(new["transferGroup"]) = Remaining(data["transferGroup"], WhereGroup(Group).where)
    BY RemoveGroupRemovesAll
  <1>3. \A f : Matches(Row(Group, d, f, type), where)
    BY MatchesGroup, RowFields
  <1>4. \A row : Matches(row, WhereGroup(Group).where) <=> row.id = Group
    BY MatchesGroup
  <1>5. Has(new, WhereGroup(Group)) <=> \E row \in ToSet(new["transferGroup"]) : row.id = Group
    BY HasGroup
  <1> HIDE DEF new, where
  <1>6. HoldsFirst(files, new, d, type, 0)
    BY <1>1, <1>2, <1>3, PartHolds
  <1>7. ~Has(new, WhereGroup(Group))
    BY <1>2, <1>4, <1>5 DEF Remaining
  <1> QED BY <1>6, <1>7 DEF new

\* A refusal takes the list of one device, and leaves those of the other ones.
LEMMA RefusedHolds ==
  ASSUME NEW data, IsDatabase(data), NEW files, NEW r, NEW d, NEW type, NEW n, HoldsFirst(files, data, d, type, n)
  PROVE  HoldsFirst(files, RefusedBy(data, r), d, type, IF d = r THEN 0 ELSE n)
  <1> DEFINE new   == RemoveAssignee(data, Group, r)
             where == ShareOf(Group, r).where
  <1>1. IsPart(new["transfer"], data["transfer"])
    BY AssigneePart
  <1>2. ToSet(new["transfer"]) = Remaining(data["transfer"], where)
    BY RemoveAssigneeRemovesShare
  <1>3. \A row : Matches(row, where) <=> row.groupId = Group /\ row.deviceId = r
    BY MatchesShare
  <1>4. new = RefusedBy(data, r)
    BY DEF RefusedBy
  <1> HIDE DEF new, where
  <1>5. CASE d = r
    <2>1. \A f : Matches(Row(Group, d, f, type), where)
      BY <1>3, <1>5, RowFields
    <2> QED BY <1>1, <1>2, <1>4, <1>5, <2>1, PartHolds
  <1>6. CASE d # r
    <2>1. \A row : row.deviceId = d => ~Matches(row, where)
      BY <1>3, <1>6
    <2> QED BY <1>1, <1>2, <1>4, <1>6, <2>1, PartHolds
  <1> QED BY <1>5, <1>6

\* One table is rewritten.
Updates(new, data, s, values) ==
  /\ ChangesOnly(new, data, {s.table}) /\ Len(new[s.table]) = Len(data[s.table])
  /\ \A k \in 1 .. Len(data[s.table]) : new[s.table][k] = Rewritten(data[s.table][k], s.where, values)

LEMMA TableUpdated ==
  ASSUME NEW data, IsDatabase(data), NEW s, s.table \in Tables, NEW values
  PROVE  Updates(Update(data, s, values), data, s, values)
  <1> DEFINE new == Update(data, s, values)
  <1>1. ChangesOnly(new, data, {s.table})
    BY UpdateRewritesRows
  <1>2. Len(new[s.table]) = Len(data[s.table])
    BY UpdateRewritesRows
  <1>3. \A i \in 1 .. Len(data[s.table]) : new[s.table][i] = Rewritten(data[s.table][i], s.where, values)
    <2> DEFINE old  == data[s.table]
               rows == [i \in DOMAIN old |-> Rewritten(old[i], s.where, values)]
    <2>1. DOMAIN old = 1 .. Len(old)
      BY TableDomain DEF IsDatabase
    <2>2. new[s.table] = rows
      BY DEF Update, Rewritten, IsDatabase
    <2> HIDE DEF new
    <2> QED BY <2>1, <2>2
  <1>4. new = Update(data, s, values)
    OBVIOUS
  <1> HIDE DEF new
  <1> QED BY <1>1, <1>2, <1>3, <1>4 DEF Updates

\* A row that is there is published: nothing changes.
LEMMA RowRepublished ==
  ASSUME NEW files, IsList(files), NEW data, IsDatabase(data), NEW d, NEW type, NEW n \in 0 .. Len(files),
         HoldsFirst(files, data, d, type, n), NEW i \in 1 .. n
  PROVE  Publish(data, WhereObject(Row(Group, d, files[i], type)), Row(Group, d, files[i], type))["transfer"]
           = data["transfer"]
  <1> DEFINE t   == data["transfer"]
             row == Row(Group, d, files[i], type)
             S   == WhereObject(row)
             new == Update(data, S, row)
             u   == new["transfer"]
  <1>1. S.table = "transfer" /\ \A x : Matches(x, S.where) <=> x.id = files[i] /\ x.type = type /\ x.deviceId = d
    BY RowFields DEF WhereObject, Matches
  <1>2. row \in ToSet(t)
    BY ListLength DEF HoldsFirst
  <1>3. Has(data, S)
    <2>1. row.id = files[i] /\ row.type = type /\ row.deviceId = d
      BY RowFields
    <2> HIDE DEF row, S
    <2> QED BY <1>1, <1>2, <2>1, HasARow
  <1>4. \A x \in ToSet(t) : Matches(x, S.where) => x = row
    <2> SUFFICES ASSUME NEW x \in ToSet(t), x.id = files[i], x.deviceId = d PROVE x = row
      BY <1>1
    <2>1. PICK j \in 1 .. n : x = Row(Group, d, files[j], type)
      BY DEF HoldsFirst
    <2> QED BY <2>1, RowFields
  <1>5. Updated(row, row) = row
    BY DEF Updated, Row
  <1> HIDE DEF S, row
  <1>6. Publish(data, S, row) = new
    BY <1>3 DEF Publish
  <1>7. /\ ChangesOnly(new, data, {S.table}) /\ Len(u) = Len(t)
        /\ \A k \in 1 .. Len(t) : u[k] = Rewritten(t[k], S.where, row)
    <2>1. S.table \in Tables
      BY <1>1, RowTables
    <2>2. Updates(Update(data, S, row), data, S, row)
      BY <2>1, TableUpdated
    <2>3. S.table = "transfer"
      BY <1>1
    <2> QED BY <2>2, <2>3 DEF Updates
  <1> HIDE DEF new
  <1>8. \A k \in 1 .. Len(t) : u[k] = t[k]
    <2>1. \A k \in 1 .. Len(t) : t[k] \in ToSet(t)
      BY RowTables, TableDomain DEF IsDatabase, ToSet
    <2> HIDE DEF t
    <2> QED BY <1>4, <1>5, <1>7, <2>1 DEF Rewritten
  <1>9. (\E A : t \in Seq(A)) /\ (\E A : u \in Seq(A))
    BY <1>7, RowTables DEF IsDatabase, IsTable, ChangesOnly
  <1> HIDE DEF t, u
  <1>10. u = t
    <2>1. PICK A : t \in Seq(A)
      BY <1>9
    <2>2. PICK B : u \in Seq(B)
      BY <1>9
    <2> QED BY <1>7, <1>8, <2>1, <2>2
  <1> QED BY <1>6, <1>10 DEF t, u, S, row

Further(m, n) == IF m > n THEN m ELSE n

\* The thread of an offer writes the next row, or one that is there already.
LEMMA OfferWritten ==
  ASSUME NEW files, IsList(files), NEW data, IsDatabase(data), NEW d, NEW type, NEW m \in 0 .. Len(files) - 1,
         NEW n \in 0 .. Len(files), NEW publishing, n = 0 \/ publishing, HoldsFirst(files, data, d, type, Further(m, n))
  PROVE  HoldsFirst(files, InsertOrPublish(publishing, data, Row(Group, d, files[m + 1], type)), d, type, Further(m + 1, n))
  <1> DEFINE row == Row(Group, d, files[m + 1], type)
             new == InsertOrPublish(publishing, data, row)
             S   == WhereObject(row)
  <1>0. m + 1 \in DOMAIN files /\ Len(files) \in Nat
    BY ListLength
  <1>1. ASSUME m >= n PROVE HoldsFirst(files, new, d, type, Further(m + 1, n))
    <2>0. Further(m, n) = m /\ Further(m + 1, n) = m + 1 /\ HoldsFirst(files, data, d, type, m)
      BY <1>0, <1>1 DEF Further
    <2>1. ~Has(data, S)
      <3>1. S.table = "transfer" /\ \A x : Matches(x, S.where) => x.id = files[m + 1] /\ x.deviceId = d
        BY RowFields DEF WhereObject, Matches
      <3> HIDE DEF S
      <3> SUFFICES ASSUME NEW x \in ToSet(data["transfer"]), x.id = files[m + 1], x.deviceId = d PROVE FALSE
        BY <3>1, HasARow
      <3>2. PICK j \in 1 .. m : x = Row(Group, d, files[j], type)
        BY <2>0 DEF HoldsFirst
      <3>3. files[j] = files[m + 1] /\ j \in DOMAIN files
        BY <3>2, RowFields, ListLength
      <3>4. j # m + 1
        BY ListLength
      <3> QED BY <1>0, <3>3, <3>4 DEF IsList
    <2>2. Publish(data, S, row) = Insert(data, "transfer", row)
      <3>1. S.table = "transfer"
        BY DEF WhereObject
      <3> HIDE DEF S, row
      <3> QED BY <2>1, <3>1 DEF Publish
    <2>3. new = Insert(data, "transfer", row)
      <3> HIDE DEF row
      <3> QED BY <2>2 DEF InsertOrPublish, S
    <2>4. HoldsFirst(files, Insert(data, "transfer", row), d, type, m + 1)
      BY <2>0, NextInserted
    <2> QED BY <2>0, <2>3, <2>4
  <1>2. ASSUME m < n PROVE HoldsFirst(files, new, d, type, Further(m + 1, n))
    <2>0. Further(m, n) = n /\ Further(m + 1, n) = n /\ HoldsFirst(files, data, d, type, n) /\ m + 1 \in 1 .. n /\ publishing
      BY <1>0, <1>2 DEF Further
    <2>1. new = Publish(data, S, row)
      BY <2>0 DEF InsertOrPublish
    <2>2. Publish(data, S, row)["transfer"] = data["transfer"]
      BY <2>0, RowRepublished
    <2>3. new["transfer"] = data["transfer"]
      BY <2>1, <2>2
    <2> HIDE DEF new
    <2> QED BY <2>0, <2>3, SameRowsHold
  <1> QED BY <1>0, <1>1, <1>2

-----------------------------------------------------------------------------
(* Lists at a receiver *)

Incoming(files, data, n) == HoldsFirst(files, data, Sender, "Incoming", n)
GroupKnown(data)         == Has(data, WhereGroup(Group))

\* What nobody is at: the rows are those of a list that has come, and there is none without the group.
Settled(files, sizes, data) ==
  /\ \E n \in sizes : Incoming(files, data, n)
  /\ ~GroupKnown(data) => Incoming(files, data, 0)

\* Some rows are there.
Filled(files, sizes, data) == \E n \in sizes \ {0} : Incoming(files, data, n)

\* A thread that inserts: what was there when its transaction began, and what it has inserted.
InsertsRows(files, sizes, data, saved, o) ==
  /\ saved # NoTransaction /\ Settled(files, sizes, saved[1])
  /\ o.row <= o.count + 1
  /\ \E n \in sizes : (n = 0 \/ o.publishing) /\ Incoming(files, data, Further(o.row - 1, n))

\* What a thread has found out remains true until it inserts.
OfferInv(files, sizes, data, saved, o) ==
  /\ o.pc # "commit"
  /\ o.pc \in {"lookup", "group", "assignee", "begin", "insert"} => o.count \in sizes
  /\ o.pc \in {"lookup", "group", "assignee", "begin"} => o.row = 1
  /\ o.pc \in {"group", "assignee", "begin"} /\ ~o.publishing => Incoming(files, data, 0)
  /\ o.pc \in {"assignee", "begin", "insert"} => GroupKnown(data)
  /\ o.pc = "insert" => InsertsRows(files, sizes, data, saved, o)

\* Only one thread is at the rows; without one the list is settled, and the users are asked for lists
\* that are there, unless one that was empty has come.
ReceiverInv(r) ==
  /\ \A j, k \in Dialog : Inserting(j, r) /\ Inserting(k, r) => j = k
  /\ \A k \in Dialog : OfferInv(Files, counts[r], db[r], rollback[r], offer[k][r])
  /\ (\A k \in Dialog : offer[k][r].pc # "insert") => Settled(Files, counts[r], db[r]) /\ rollback[r] = NoTransaction
  /\ (\A k \in Dialog : ~Inserting(k, r)) /\ dialogs[r] # <<>> /\ GroupKnown(db[r])
       => Filled(Files, counts[r], db[r]) \/ \E k \in Dialog : offer[k][r].pc = "dropped"

ReceiversInv == \A r \in Receivers \ overlap : ReceiverInv(r)

\* The same list, and the same group.
SameList(new, data) == new["transfer"] = data["transfer"] /\ new["transferGroup"] = data["transferGroup"]

LEMMA SameListHolds ==
  ASSUME NEW files, NEW data, NEW new, SameList(new, data)
  PROVE  /\ \A n : Incoming(files, new, n) <=> Incoming(files, data, n)
         /\ GroupKnown(new) <=> GroupKnown(data)
         /\ \A sizes : Settled(files, sizes, new) <=> Settled(files, sizes, data)
         /\ \A sizes : Filled(files, sizes, new) <=> Filled(files, sizes, data)
         /\ \A sizes, saved, o : OfferInv(files, sizes, new, saved, o) <=> OfferInv(files, sizes, data, saved, o)
  <1>1. \A n : Incoming(files, new, n) <=> Incoming(files, data, n)
    BY SameRowsHold DEF SameList, Incoming
  <1>2. GroupKnown(new) <=> GroupKnown(data)
    BY HasGroup DEF SameList, GroupKnown
  <1>3. \A sizes : Settled(files, sizes, new) <=> Settled(files, sizes, data)
    BY <1>1, <1>2 DEF Settled
  <1>4. \A sizes : Filled(files, sizes, new) <=> Filled(files, sizes, data)
    BY <1>1 DEF Filled
  <1>5. \A sizes, saved, o : InsertsRows(files, sizes, new, saved, o) <=> InsertsRows(files, sizes, data, saved, o)
    BY <1>1 DEF InsertsRows
  <1>6. \A sizes, saved, o : OfferInv(files, sizes, new, saved, o) <=> OfferInv(files, sizes, data, saved, o)
    BY <1>1, <1>2, <1>5 DEF OfferInv
  <1> QED BY <1>1, <1>2, <1>3, <1>4, <1>6

\* Who is not at the rows has nothing to keep.
LEMMA IdleOffer ==
  ASSUME NEW files, NEW sizes, NEW data, NEW saved, NEW o,
         o.pc \notin {"lookup", "group", "assignee", "begin", "insert", "commit"}
  PROVE  OfferInv(files, sizes, data, saved, o)
  BY DEF OfferInv

\* The threads at r, but for one, stay where they are.
OthersStay(k, r) == \A j \in Dialog \ {k} : offer'[j][r] = offer[j][r]

\* The same group is offered, and no other list has come to r.
SameOffers(r) == Files' = Files /\ counts'[r] = counts[r]

\* A step that leaves the list as it is, of a thread that is not at the rows.
LEMMA ListUntouched ==
  ASSUME NEW r \in Receivers, ReceiverInv(r), SameOffers(r), SameList(db'[r], db[r]), rollback'[r] = rollback[r],
         dialogs'[r] # <<>> => dialogs[r] # <<>>,
         \A k \in Dialog : offer'[k][r] = offer[k][r] \/ (~Inserting(k, r) /\ ~Inserting(k, r)'),
         \A k \in Dialog : offer[k][r].pc = "dropped" => offer'[k][r].pc = "dropped"
  PROVE  ReceiverInv(r)'
  <1>1. \A k \in Dialog : Inserting(k, r)' <=> Inserting(k, r)
    BY DEF Inserting
  <1>2. \A k \in Dialog : Inserting(k, r) => offer'[k][r] = offer[k][r]
    OBVIOUS
  <1>3. \A k \in Dialog : offer'[k][r].pc = "insert" <=> offer[k][r].pc = "insert"
    BY DEF Inserting
  <1> DEFINE sizes == counts[r]
  <1>4. /\ GroupKnown(db'[r]) <=> GroupKnown(db[r])
        /\ Settled(Files, sizes, db'[r]) <=> Settled(Files, sizes, db[r])
        /\ Filled(Files, sizes, db'[r]) <=> Filled(Files, sizes, db[r])
        /\ \A saved, o : OfferInv(Files, sizes, db'[r], saved, o) <=> OfferInv(Files, sizes, db[r], saved, o)
    BY SameListHolds
  <1>5. \A k \in Dialog : OfferInv(Files, sizes, db'[r], rollback'[r], offer'[k][r])
    <2> SUFFICES ASSUME NEW k \in Dialog PROVE OfferInv(Files, sizes, db'[r], rollback'[r], offer'[k][r])
      OBVIOUS
    <2>1. CASE Inserting(k, r)
      BY <1>2, <1>4, <2>1 DEF ReceiverInv
    <2>2. CASE ~Inserting(k, r)
      <3>1. ~Inserting(k, r)'
        BY <1>1, <2>2
      <3>2. offer'[k][r].pc \notin {"lookup", "group", "assignee", "begin", "insert", "commit"}
        BY <3>1 DEF Inserting
      <3> QED BY <3>2, IdleOffer
    <2> QED BY <2>1, <2>2
  <1> QED
    BY <1>1, <1>3, <1>4, <1>5 DEF ReceiverInv, SameOffers

\* A step of the thread that is at the rows, or goes there while nobody is.
LEMMA ListWritten ==
  ASSUME NEW r \in Receivers, ReceiverInv(r), Files' = Files, NEW k \in Dialog, OthersStay(k, r),
         \A j \in Dialog : Inserting(j, r) => j = k,
         OfferInv(Files, counts'[r], db'[r], rollback'[r], offer'[k][r]),
         offer'[k][r].pc # "insert" => Settled(Files, counts'[r], db'[r]) /\ rollback'[r] = NoTransaction,
         ~Inserting(k, r)' /\ dialogs'[r] # <<>> /\ GroupKnown(db'[r])
           => Filled(Files, counts'[r], db'[r]) \/ offer'[k][r].pc = "dropped"
  PROVE  ReceiverInv(r)'
  <1>1. \A j \in Dialog \ {k} : ~Inserting(j, r)'
    BY DEF Inserting, OthersStay
  <1>2. \A j \in Dialog \ {k} : offer'[j][r].pc \notin {"lookup", "group", "assignee", "begin", "insert", "commit"}
    BY <1>1 DEF Inserting
  <1>3. \A j \in Dialog \ {k} : OfferInv(Files, counts'[r], db'[r], rollback'[r], offer'[j][r])
    BY <1>2, IdleOffer
  <1>4. \A j \in Dialog : OfferInv(Files, counts'[r], db'[r], rollback'[r], offer'[j][r])
    BY <1>3
  <1> QED
    BY <1>1, <1>4 DEF ReceiverInv

LEMMA Goes ==
  ASSUME WiresInv, NEW k \in Dialog, NEW r \in Receivers, NEW record, Go(k, r, record)
  PROVE  /\ offer[k][r] \in OfferRows /\ offer'[k][r] = Updated(offer[k][r], record) /\ OthersStay(k, r)
         /\ \A j \in Dialog, x \in Receivers \ {r} : offer'[j][x] = offer[j][x]
  BY DEF WiresInv, Go, OthersStay

LEMMA ConnectionsKeepList ==
  ASSUME StoredInv(db, rollback), NEW d \in Device, NEW peer
  PROVE  SameList(Forget(d, peer), db[d]) /\ SameList(Record(d, peer), db[d])
  <1>1. /\ ChangesOnly(Forget(d, peer), db[d], {"deviceConnection"})
        /\ ChangesOnly(Record(d, peer), db[d], {"deviceConnection"})
    BY ConnectionStores
  <1> QED
    BY <1>1, RowTables DEF ChangesOnly, SameList

LEMMA PlaceOfOffer ==
  ASSUME NEW o, NEW p
  PROVE  Updated(o, [pc |-> p]).pc = p /\ \A x : Updated(o, [pc |-> p, accepted |-> x]).pc = p
  BY DEF Updated

\* Connections and answers do not touch the list.
LEMMA AnswersLeaveList ==
  ASSUME TypesInv, NEW r \in Receivers, ReceiverInv(r), SameOffers(r), NEW k \in Dialog,
         \/ ServeRequest(k, r) \/ LookUpAnswered(k, r) \/ FindConnection(k, r) \/ SendResponse(k, r)
         \/ \E accepted \in BOOLEAN : Answer(k, r, accepted)
  PROVE  ReceiverInv(r)'
  <1>1. StoredInv(db, rollback) /\ r \in Device /\ DOMAIN db = Device /\ WiresInv
    BY DeviceKinds DEF TypesInv, StoredInv
  <1>2. rollback' = rollback
    BY DEF ServeRequest, LookUpAnswered, FindConnection, SendResponse, Answer, stored
  <1>3. db' = db \/ Set(r, Forget(r, Sender)) \/ Set(r, Record(r, Sender))
    BY DEF ServeRequest, LookUpAnswered, FindConnection, SendResponse, Answer, stored
  <1>4. SameList(db'[r], db[r])
    <2>1. SameList(Forget(r, Sender), db[r]) /\ SameList(Record(r, Sender), db[r])
      BY <1>1, ConnectionsKeepList
    <2> QED BY <1>1, <1>3, <2>1 DEF Set, SameList
  <1>5. dialogs'[r] # <<>> => dialogs[r] # <<>>
    BY <1>1 DEF ServeRequest, LookUpAnswered, FindConnection, SendResponse, Answer, receivers, WiresInv
  <1>6. \/ offer' = offer
        \/ /\ offer[k][r].pc \in {"asking", "answered", "connection", "link"}
           /\ \E p \in {"answered", "remove", "connection", "link", "done"} :
                Go(k, r, [pc |-> p]) \/ \E accepted : Go(k, r, [pc |-> p, accepted |-> accepted])
    BY DEF ServeRequest, LookUpAnswered, FindConnection, SendResponse, Answer, receivers
  <1>7. \A j \in Dialog : offer'[j][r] = offer[j][r] \/ (~Inserting(j, r) /\ ~Inserting(j, r)')
    <2>1. CASE offer' = offer
      BY <2>1
    <2>2. ASSUME NEW p \in {"answered", "remove", "connection", "link", "done"},
                 offer[k][r].pc \in {"asking", "answered", "connection", "link"},
                 Go(k, r, [pc |-> p]) \/ \E accepted : Go(k, r, [pc |-> p, accepted |-> accepted])
          PROVE  \A j \in Dialog : offer'[j][r] = offer[j][r] \/ (~Inserting(j, r) /\ ~Inserting(j, r)')
      <3>1. offer'[k][r].pc = p /\ OthersStay(k, r)
        <4>1. CASE Go(k, r, [pc |-> p])
          <5>1. offer[k][r] \in OfferRows /\ offer'[k][r] = Updated(offer[k][r], [pc |-> p]) /\ OthersStay(k, r)
            BY <1>1, <4>1, Goes
          <5> QED BY <5>1, PlaceOfOffer
        <4>2. ASSUME NEW accepted, Go(k, r, [pc |-> p, accepted |-> accepted]) PROVE offer'[k][r].pc = p /\ OthersStay(k, r)
          <5> DEFINE record == [pc |-> p, accepted |-> accepted]
          <5>1. Go(k, r, record)
            BY <4>2
          <5>2. \A o \in OfferRows : Updated(o, record).pc = p
            BY PlaceOfOffer
          <5> HIDE DEF record
          <5>3. offer[k][r] \in OfferRows /\ offer'[k][r] = Updated(offer[k][r], record) /\ OthersStay(k, r)
            BY <1>1, <5>1, Goes
          <5> QED BY <5>2, <5>3
        <4> QED BY <2>2, <4>1, <4>2
      <3>2. ~Inserting(k, r) /\ ~Inserting(k, r)'
        BY <2>2, <3>1 DEF Inserting
      <3> QED BY <3>1, <3>2 DEF OthersStay
    <2> QED BY <1>6, <2>1, <2>2
  <1>8. \A j \in Dialog : offer[j][r].pc = "dropped" => offer'[j][r].pc = "dropped"
    <2>1. CASE offer' = offer
      BY <2>1
    <2>2. CASE offer' # offer
      <3>1. offer[k][r].pc # "dropped" /\ \E record : Go(k, r, record)
        BY <1>6, <2>2
      <3>2. OthersStay(k, r)
        BY <1>1, <3>1, Goes
      <3> QED BY <3>1, <3>2 DEF OthersStay
    <2> QED BY <2>1, <2>2
  <1> QED
    BY <1>2, <1>4, <1>5, <1>7, <1>8, ListUntouched

\* A settled list is gone with the group.
LEMMA RemovedIsSettled ==
  ASSUME NEW files, NEW data, IsDatabase(data), NEW sizes, 0 \in sizes, Settled(files, sizes, data)
  PROVE  LET new == RemoveGroup(data, Group)
         IN  Settled(files, sizes, new) /\ ~GroupKnown(new) /\ Incoming(files, new, 0)
  <1>1. PICK n : Incoming(files, data, n)
    BY DEF Settled
  <1>2. HoldsFirst(files, RemoveGroup(data, Group), Sender, "Incoming", 0)
        /\ ~Has(RemoveGroup(data, Group), WhereGroup(Group))
    BY <1>1, RemovedGroupHolds DEF Incoming
  <1> QED
    BY <1>2 DEF Settled, GroupKnown, Incoming

\* The group is removed while no thread is at the rows, or else two threads have met.
LEMMA RemovalLeavesList ==
  ASSUME TypesInv, NEW r \in Receivers, ReceiverInv(r), r \notin overlap', SameOffers(r),
         GroupRemoved(r), rollback' = rollback, \A k \in Dialog : ~Inserting(k, r)' /\ ~Inserting(k, r)
  PROVE  ReceiverInv(r)'
  <1> DEFINE new == RemoveGroup(db[r], Group)
  <1>1. IsDatabase(db[r]) /\ db'[r] = new
    BY DeviceKinds DEF TypesInv, StoredInv, GroupRemoved, Set
  <1>2. \A k \in Dialog : offer[k][r].pc # "insert"
    BY DEF Inserting
  <1>3. Settled(Files, counts[r], db[r]) /\ rollback[r] = NoTransaction
    BY <1>2 DEF ReceiverInv
  <1>4. Settled(Files, counts[r], new) /\ ~GroupKnown(new)
    <2>1. 0 \in counts[r]
      BY DEF TypesInv, CountsInv
    <2> QED BY <1>1, <1>3, <2>1, RemovedIsSettled
  <1> HIDE DEF new
  <1>5. \A k \in Dialog : offer'[k][r].pc \notin {"lookup", "group", "assignee", "begin", "insert", "commit"}
    BY DEF Inserting
  <1>6. \A k \in Dialog : OfferInv(Files, counts[r], db'[r], rollback'[r], offer'[k][r])
    BY <1>5, IdleOffer
  <1> QED
    BY <1>1, <1>3, <1>4, <1>6 DEF ReceiverInv, SameOffers

\* A second thread comes to the rows only when two meet.
LEMMA ReplyLeavesList ==
  ASSUME TypesInv, NEW r \in Receivers, ReceiverInv(r), r \notin overlap', Files' = Files, NEW k \in Dialog, ReplyTrue(k, r)
  PROVE  ReceiverInv(r)'
  <1> DEFINE o == offer[k][r]
             c == Parsed(listed[k][r])
             new == OfferRow("lookup", o.publishing, 1, c, o.accepted)
  <1>1. StoredInv(db, rollback) /\ r \in Device /\ DOMAIN db = Device /\ WiresInv
    BY DeviceKinds DEF TypesInv, StoredInv
  <1>2. rollback' = rollback /\ Set(r, Record(r, Sender)) /\ Go(k, r, [pc |-> "lookup", row |-> 1, count |-> c])
    BY DEF ReplyTrue
  <1>0. counts'[r] = counts[r] \cup {c}
    BY DEF ReplyTrue, TypesInv, CountsInv
  <1>3. \A j \in Dialog : ~Inserting(j, r)
    <2>1. overlap' = IF \E j \in Dialog : Inserting(j, r) THEN overlap \cup {r} ELSE overlap
      BY DEF ReplyTrue
    <2> QED BY <2>1
  <1>4. SameList(db'[r], db[r])
    <2>1. SameList(Record(r, Sender), db[r])
      BY <1>1, ConnectionsKeepList
    <2> QED BY <1>1, <1>2, <2>1 DEF Set
  <1>5. OthersStay(k, r) /\ offer'[k][r] = new
    <2> HIDE DEF c
    <2>1. o \in OfferRows /\ offer'[k][r] = Updated(o, [pc |-> "lookup", row |-> 1, count |-> c]) /\ OthersStay(k, r)
      BY <1>1, <1>2, Goes
    <2> HIDE DEF o
    <2>2. Updated(o, [pc |-> "lookup", row |-> 1, count |-> c]) = new
      BY <2>1, UpdatedOffer3
    <2> QED BY <2>1, <2>2
  <1>6. Settled(Files, counts[r], db[r]) /\ rollback[r] = NoTransaction
    <2>1. \A j \in Dialog : offer[j][r].pc # "insert"
      BY <1>3 DEF Inserting
    <2> QED BY <2>1 DEF ReceiverInv
  <1>7. Settled(Files, counts'[r], db'[r])
    <2>1. Settled(Files, counts[r], db'[r])
      BY <1>4, <1>6, SameListHolds
    <2> QED BY <1>0, <2>1 DEF Settled
  <1>8. new.pc = "lookup" /\ new.row = 1 /\ new.count = c
    BY DEF OfferRow
  <1> HIDE DEF new, c
  <1>9. OfferInv(Files, counts'[r], db'[r], rollback'[r], new)
    BY <1>0, <1>8 DEF OfferInv
  <1>10. Inserting(k, r)'
    BY <1>5, <1>8 DEF Inserting
  <1> QED
    BY <1>2, <1>3, <1>5, <1>6, <1>7, <1>9, <1>10, ListWritten

\* Another record of the thread that is at the rows.
LEMMA ThreadAtRows ==
  ASSUME NEW r \in Receivers, ReceiverInv(r), NEW k \in Dialog, Inserting(k, r)
  PROVE  /\ \A j \in Dialog : Inserting(j, r) => j = k
         /\ OfferInv(Files, counts[r], db[r], rollback[r], offer[k][r])
         /\ offer[k][r].pc # "insert" => Settled(Files, counts[r], db[r]) /\ rollback[r] = NoTransaction
  <1>1. \A j \in Dialog : Inserting(j, r) => j = k
    BY DEF ReceiverInv
  <1>2. ASSUME offer[k][r].pc # "insert" PROVE \A j \in Dialog : offer[j][r].pc # "insert"
    BY <1>1, <1>2 DEF Inserting
  <1> QED
    BY <1>1, <1>2 DEF ReceiverInv

LEMMA LookUpLeavesList ==
  ASSUME TypesInv, NEW r \in Receivers, ReceiverInv(r), SameOffers(r), NEW k \in Dialog, LookUpGroup(k, r)
  PROVE  ReceiverInv(r)'
  <1> DEFINE o == offer[k][r]
             b == GroupKnown(db[r])
             new == OfferRow("group", b, o.row, o.count, o.accepted)
  <1>1. WiresInv /\ db' = db /\ rollback' = rollback /\ o.pc = "lookup" /\ Go(k, r, [pc |-> "group", publishing |-> b])
    BY DEF TypesInv, LookUpGroup, stored, GroupKnown
  <1>2. /\ \A j \in Dialog : Inserting(j, r) => j = k
        /\ Settled(Files, counts[r], db[r]) /\ rollback[r] = NoTransaction /\ o.row = 1 /\ o.count \in counts[r]
    <2>1. Inserting(k, r)
      BY <1>1 DEF Inserting
    <2> QED BY <1>1, <2>1, ThreadAtRows DEF OfferInv
  <1>3. OthersStay(k, r) /\ offer'[k][r] = new
    <2> HIDE DEF b
    <2>1. o \in OfferRows /\ offer'[k][r] = Updated(o, [pc |-> "group", publishing |-> b]) /\ OthersStay(k, r)
      BY <1>1, Goes
    <2> HIDE DEF o
    <2>2. Updated(o, [pc |-> "group", publishing |-> b]) = new
      BY <2>1, UpdatedOffer2
    <2> QED BY <2>1, <2>2
  <1>4. new.pc = "group" /\ new.row = 1 /\ new.count = o.count /\ new.publishing = b
    BY <1>2 DEF OfferRow
  <1> HIDE DEF new
  <1>5. OfferInv(Files, counts'[r], db'[r], rollback'[r], new)
    BY <1>1, <1>2, <1>4 DEF OfferInv, Settled, SameOffers
  <1>6. Inserting(k, r)'
    BY <1>3, <1>4 DEF Inserting
  <1> QED
    BY <1>1, <1>2, <1>3, <1>5, <1>6, ListWritten DEF SameOffers

\* The group is published before any row: afterwards it is there.
LEMMA PublishedGroup ==
  ASSUME NEW data, IsDatabase(data), NEW new, new = Publish(data, WhereGroup(Group), [id |-> Group])
  PROVE  new["transfer"] = data["transfer"] /\ GroupKnown(new)
  <1> DEFINE S   == WhereGroup(Group)
             row == [id |-> Group]
  <1>1. S.table = "transferGroup" /\ row.id = Group /\ (\A x : Matches(x, S.where) <=> x.id = Group)
    BY MatchesGroup DEF WhereGroup
  <1>2. S.table \in Tables
    BY <1>1, RowTables
  <1>3. \A x : Updated(x, row).id = Group
    BY DEF Updated
  <1>6. new = Publish(data, S, row)
    OBVIOUS
  <1>7. GroupKnown(new) <=> \E x \in ToSet(new["transferGroup"]) : x.id = Group
    BY HasGroup DEF GroupKnown
  <1>8. Has(data, S) <=> \E x \in ToSet(data["transferGroup"]) : x.id = Group
    BY HasGroup
  <1> HIDE DEF S, row
  <1>4. /\ ChangesOnly(new, data, {S.table})
        /\ Has(data, S) => ToSet(new[S.table]) = {Rewritten(x, S.where, row) : x \in ToSet(data[S.table])}
        /\ ~Has(data, S) => ToSet(new[S.table]) = Added(data[S.table], row)
    <2>1. /\ ChangesOnly(Publish(data, S, row), data, {S.table})
          /\ Has(data, S) => ToSet(Publish(data, S, row)[S.table])
                               = {Rewritten(x, S.where, row) : x \in ToSet(data[S.table])}
          /\ ~Has(data, S) => ToSet(Publish(data, S, row)[S.table]) = Added(data[S.table], row)
      BY <1>2, PublishWritesRow
    <2> QED BY <1>6, <2>1
  <1>5. new["transfer"] = data["transfer"]
    BY <1>1, <1>4, RowTables DEF ChangesOnly
  <1>9. CASE Has(data, S)
    <2>1. PICK x \in ToSet(data["transferGroup"]) : x.id = Group
      BY <1>8, <1>9
    <2>2. Rewritten(x, S.where, row) \in ToSet(new["transferGroup"])
      BY <1>1, <1>4, <1>9
    <2>3. Rewritten(x, S.where, row).id = Group
      BY <1>3, <2>1 DEF Rewritten
    <2> QED BY <1>5, <1>7, <2>2, <2>3
  <1>10. CASE ~Has(data, S)
    <2>1. row \in ToSet(new["transferGroup"])
      BY <1>1, <1>4, <1>10 DEF Added
    <2> QED BY <1>1, <1>5, <1>7, <2>1
  <1> QED BY <1>9, <1>10

LEMMA GroupLeavesList ==
  ASSUME TypesInv, NEW r \in Receivers, ReceiverInv(r), SameOffers(r), NEW k \in Dialog, PublishGroup(k, r)
  PROVE  ReceiverInv(r)'
  <1> DEFINE o == offer[k][r]
             data == db[r]
             new == OfferRow("assignee", o.publishing, o.row, o.count, o.accepted)
  <1>1. WiresInv /\ rollback' = rollback /\ o.pc = "group" /\ Go(k, r, [pc |-> "assignee"])
    BY DEF TypesInv, PublishGroup
  <1>2. db'[r] = Publish(data, WhereGroup(Group), [id |-> Group]) /\ IsDatabase(data)
    BY DeviceKinds DEF PublishGroup, Set, TypesInv, StoredInv
  <1>3. /\ \A j \in Dialog : Inserting(j, r) => j = k
        /\ Settled(Files, counts[r], data) /\ rollback[r] = NoTransaction /\ o.row = 1 /\ o.count \in counts[r]
        /\ ~o.publishing => Incoming(Files, data, 0)
    <2>1. Inserting(k, r)
      BY <1>1 DEF Inserting
    <2> QED BY <1>1, <2>1, ThreadAtRows DEF OfferInv
  <1>4. OthersStay(k, r) /\ offer'[k][r] = new
    <2>1. o \in OfferRows /\ offer'[k][r] = Updated(o, [pc |-> "assignee"]) /\ OthersStay(k, r)
      BY <1>1, Goes
    <2> HIDE DEF o
    <2>2. Updated(o, [pc |-> "assignee"]) = new
      BY <2>1, UpdatedOffer
    <2> QED BY <2>1, <2>2
  <1>5. new.pc = "assignee" /\ new.row = 1 /\ new.count = o.count /\ new.publishing = o.publishing
    BY <1>3 DEF OfferRow
  <1>6. GroupKnown(db'[r]) /\ db'[r]["transfer"] = data["transfer"]
    BY <1>2, PublishedGroup
  <1> HIDE DEF new, data
  <1>7. \A n : Incoming(Files, db'[r], n) <=> Incoming(Files, data, n)
    BY <1>6, SameRowsHold DEF Incoming
  <1>8. Settled(Files, counts[r], db'[r])
    BY <1>3, <1>6, <1>7 DEF Settled
  <1>9. OfferInv(Files, counts'[r], db'[r], rollback'[r], new)
    BY <1>3, <1>5, <1>6, <1>7 DEF OfferInv, SameOffers
  <1>10. Inserting(k, r)'
    BY <1>4, <1>5 DEF Inserting
  <1> QED
    BY <1>1, <1>3, <1>4, <1>8, <1>9, <1>10, ListWritten DEF SameOffers

LEMMA AssigneeLeavesList ==
  ASSUME TypesInv, NEW r \in Receivers, ReceiverInv(r), SameOffers(r), NEW k \in Dialog, PublishAssignee(k, r)
  PROVE  ReceiverInv(r)'
  <1> DEFINE o == offer[k][r]
             data == db[r]
             new == OfferRow("begin", o.publishing, o.row, o.count, o.accepted)
  <1>1. WiresInv /\ rollback' = rollback /\ o.pc = "assignee" /\ Go(k, r, [pc |-> "begin"])
    BY DEF TypesInv, PublishAssignee
  <1>2. SameList(db'[r], data)
    <2> DEFINE S   == WhereAssignee(Group, Sender)
               row == [groupId |-> Group, deviceId |-> Sender, connectionAdapter |-> "lan"]
    <2>1. db'[r] = Publish(data, S, row) /\ IsDatabase(data)
      BY DeviceKinds DEF PublishAssignee, Set, TypesInv, StoredInv
    <2>2. S.table = "transferAssignee" /\ S.table \in Tables
      BY RowTables DEF WhereAssignee
    <2> HIDE DEF S, row
    <2>3. ChangesOnly(Publish(data, S, row), data, {S.table})
      BY <2>1, <2>2, PublishWritesRow
    <2> QED BY <2>1, <2>2, <2>3, RowTables DEF ChangesOnly, SameList
  <1>3. /\ \A j \in Dialog : Inserting(j, r) => j = k
        /\ Settled(Files, counts[r], data) /\ rollback[r] = NoTransaction /\ o.row = 1 /\ o.count \in counts[r]
        /\ ~o.publishing => Incoming(Files, data, 0)
        /\ GroupKnown(data)
    <2>1. Inserting(k, r)
      BY <1>1 DEF Inserting
    <2> QED BY <1>1, <2>1, ThreadAtRows DEF OfferInv
  <1>4. OthersStay(k, r) /\ offer'[k][r] = new
    <2>1. o \in OfferRows /\ offer'[k][r] = Updated(o, [pc |-> "begin"]) /\ OthersStay(k, r)
      BY <1>1, Goes
    <2> HIDE DEF o
    <2>2. Updated(o, [pc |-> "begin"]) = new
      BY <2>1, UpdatedOffer
    <2> QED BY <2>1, <2>2
  <1>5. new.pc = "begin" /\ new.row = 1 /\ new.count = o.count /\ new.publishing = o.publishing
    BY <1>3 DEF OfferRow
  <1> HIDE DEF new, data
  <1>7. /\ \A n : Incoming(Files, db'[r], n) <=> Incoming(Files, data, n)
        /\ GroupKnown(db'[r]) /\ Settled(Files, counts[r], db'[r])
    BY <1>2, <1>3, SameListHolds
  <1>9. OfferInv(Files, counts'[r], db'[r], rollback'[r], new)
    BY <1>3, <1>5, <1>7 DEF OfferInv, SameOffers
  <1>10. Inserting(k, r)'
    BY <1>4, <1>5 DEF Inserting
  <1> QED
    BY <1>1, <1>3, <1>4, <1>7, <1>9, <1>10, ListWritten DEF SameOffers

LEMMA BeginLeavesList ==
  ASSUME TypesInv, NEW r \in Receivers, ReceiverInv(r), SameOffers(r), NEW k \in Dialog, BeginOffer(k, r)
  PROVE  ReceiverInv(r)'
  <1> DEFINE o == offer[k][r]
             data == db[r]
             new == OfferRow("insert", o.publishing, o.row, o.count, o.accepted)
  <1>1. WiresInv /\ db' = db /\ o.pc = "begin"
    BY DEF TypesInv, BeginOffer
  <1>2. /\ \A j \in Dialog : Inserting(j, r) => j = k
        /\ Settled(Files, counts[r], data) /\ rollback[r] = NoTransaction /\ o.row = 1 /\ o.count \in counts[r]
        /\ ~o.publishing => Incoming(Files, data, 0)
        /\ GroupKnown(data)
    <2>1. Inserting(k, r)
      BY <1>1 DEF Inserting
    <2> QED BY <1>1, <2>1, ThreadAtRows DEF OfferInv
  <1>3. Begin(r) /\ Go(k, r, [pc |-> "insert"])
    BY <1>2 DEF BeginOffer, Denied
  <1>4. rollback'[r] = <<data>>
    BY <1>3, DeviceKinds DEF Begin, TypesInv, StoredInv
  <1>5. OthersStay(k, r) /\ offer'[k][r] = new
    <2>1. o \in OfferRows /\ offer'[k][r] = Updated(o, [pc |-> "insert"]) /\ OthersStay(k, r)
      BY <1>1, <1>3, Goes
    <2> HIDE DEF o
    <2>2. Updated(o, [pc |-> "insert"]) = new
      BY <2>1, UpdatedOffer
    <2> QED BY <2>1, <2>2
  <1>6. new.pc = "insert" /\ new.row = 1 /\ new.count = o.count /\ new.publishing = o.publishing
    BY <1>2 DEF OfferRow
  <1>7. Len(Files) \in Nat
    BY PlansAssumption DEF TypesInv, HistoryInv, Files
  <1> HIDE DEF new, data
  <1>8. db'[r] = data
    BY <1>1 DEF data
  <1>9. InsertsRows(Files, counts[r], data, <<data>>, new)
    <2>1. <<data>> # NoTransaction /\ <<data>>[1] = data
      BY DEF NoTransaction
    <2>2. counts[r] \subseteq Nat /\ 0 \in counts[r]
      BY <1>7 DEF TypesInv, CountsInv
    <2>3. new.row <= new.count + 1 /\ new.row - 1 = 0
      BY <1>2, <1>6, <2>2
    <2>4. \A n \in counts[r] : Further(0, n) = n
      BY <2>2 DEF Further
    <2>5. \E n \in counts[r] : (n = 0 \/ new.publishing) /\ Incoming(Files, data, n)
      BY <1>2, <1>6, <2>2 DEF Settled
    <2>6. \E n \in counts[r] : (n = 0 \/ new.publishing) /\ Incoming(Files, data, Further(new.row - 1, n))
      BY <2>3, <2>4, <2>5
    <2> QED BY <1>2, <2>1, <2>3, <2>6 DEF InsertsRows
  <1>10. OfferInv(Files, counts'[r], db'[r], rollback'[r], new)
    BY <1>2, <1>4, <1>6, <1>8, <1>9 DEF OfferInv, SameOffers
  <1>11. Inserting(k, r)' /\ offer'[k][r].pc = "insert"
    BY <1>5, <1>6 DEF Inserting
  <1> QED
    BY <1>2, <1>5, <1>10, <1>11, ListWritten DEF SameOffers

\* The files of a plan are a list.
LEMMA FilesAreList == TypesInv => IsList(Files)
  BY PlansAssumption DEF TypesInv, HistoryInv, Files, IsList

\* The next row is written, and the rows are those of the file list up to it.
LEMMA RowLeavesList ==
  ASSUME TypesInv, NEW r \in Receivers, ReceiverInv(r), SameOffers(r), NEW k \in Dialog,
         offer[k][r].pc = "insert", offer[k][r].row <= offer[k][r].count,
         Set(r, InsertOrPublish(offer[k][r].publishing, db[r], Row(Group, Sender, Files[offer[k][r].row], "Incoming"))),
         Go(k, r, [row |-> offer[k][r].row + 1]), rollback' = rollback
  PROVE  ReceiverInv(r)'
  <1> DEFINE o == offer[k][r]
             data == db[r]
             i == o.row
             new == OfferRow("insert", o.publishing, i + 1, o.count, o.accepted)
             left == InsertOrPublish(o.publishing, data, Row(Group, Sender, Files[i], "Incoming"))
  <1>1. WiresInv /\ IsDatabase(data) /\ db'[r] = left
    BY DeviceKinds DEF TypesInv, StoredInv, Set
  <1>2. /\ \A j \in Dialog : Inserting(j, r) => j = k
        /\ OfferInv(Files, counts[r], data, rollback[r], o)
    <2>1. Inserting(k, r)
      BY DEF Inserting
    <2> QED BY <2>1, ThreadAtRows
  <1>3. InsertsRows(Files, counts[r], data, rollback[r], o) /\ GroupKnown(data)
    BY <1>2 DEF OfferInv
  <1>4. OthersStay(k, r) /\ offer'[k][r] = new /\ o \in OfferRows
    <2>1. o \in OfferRows /\ offer'[k][r] = Updated(o, [row |-> i + 1]) /\ OthersStay(k, r)
      BY <1>1, Goes
    <2>2. o.pc = "insert"
      OBVIOUS
    <2> HIDE DEF o
    <2>3. Updated(o, [row |-> i + 1]) = new
      BY <2>1, <2>2, UpdatedOffer
    <2> QED BY <2>1, <2>3
  <1>6. IsList(Files) /\ Len(Files) \in Nat
    BY FilesAreList, ListLength
  <1>5. counts[r] \subseteq 0 .. Len(Files) /\ o.count \in counts[r] /\ i \in Nat \ {0} /\ i <= o.count /\ i <= Len(Files)
    <2>1. counts[r] \subseteq 0 .. Len(Files)
      BY DEF TypesInv, CountsInv
    <2>2. o.count \in counts[r]
      BY <1>2 DEF OfferInv
    <2>3. i \in Nat \ {0} /\ i <= o.count
      BY <1>4 DEF OfferRows
    <2> QED BY <1>6, <2>1, <2>2, <2>3
  <1>7. new.pc = "insert" /\ new.row = i + 1 /\ new.count = o.count /\ new.publishing = o.publishing
    BY DEF OfferRow
  <1>8. GroupKnown(left)
    <2>1. ASSUME NEW object PROVE GroupKnown(InsertOrPublish(o.publishing, data, object))
      <3>1. ChangesOnly(InsertOrPublish(o.publishing, data, object), data, {"transfer"})
        BY <1>1, OfferedRowChanges
      <3>2. InsertOrPublish(o.publishing, data, object)["transferGroup"] = data["transferGroup"]
        BY <3>1, RowTables DEF ChangesOnly
      <3> QED BY <1>3, <3>2, HasGroup DEF GroupKnown
    <2> QED BY <2>1
  <1>9. ASSUME NEW n \in counts[r], n = 0 \/ o.publishing, Incoming(Files, data, Further(i - 1, n))
        PROVE  Incoming(Files, left, Further(i, n))
    <2> DEFINE m == i - 1
    <2>1. m \in 0 .. Len(Files) - 1 /\ m + 1 = i /\ n \in 0 .. Len(Files)
      BY <1>5, <1>6
    <2>2. HoldsFirst(Files, data, Sender, "Incoming", Further(m, n))
      BY <1>9 DEF Incoming
    <2> HIDE DEF m, data
    <2>3. HoldsFirst(Files, InsertOrPublish(o.publishing, data, Row(Group, Sender, Files[m + 1], "Incoming")), Sender,
                     "Incoming", Further(m + 1, n))
      BY <1>1, <1>6, <1>9, <2>1, <2>2, OfferWritten
    <2> QED BY <2>1, <2>3 DEF Incoming
  <1> HIDE DEF new, left
  <1>10. InsertsRows(Files, counts[r], left, rollback[r], new)
    <2>1. new.row <= new.count + 1 /\ new.row - 1 = i
      BY <1>5, <1>6, <1>7
    <2>2. PICK n \in counts[r] : (n = 0 \/ o.publishing) /\ Incoming(Files, data, Further(i - 1, n))
      BY <1>3 DEF InsertsRows
    <2>3. Incoming(Files, left, Further(i, n))
      BY <1>9, <2>2
    <2> QED BY <1>3, <1>7, <2>1, <2>2, <2>3 DEF InsertsRows
  <1>11. OfferInv(Files, counts'[r], db'[r], rollback'[r], new)
    BY <1>1, <1>5, <1>7, <1>8, <1>10 DEF OfferInv, SameOffers
  <1>12. Inserting(k, r)' /\ offer'[k][r].pc = "insert"
    BY <1>4, <1>7 DEF Inserting
  <1> QED
    BY <1>2, <1>4, <1>11, <1>12, ListWritten DEF SameOffers

\* The list is complete when the user is asked, and nobody is asked about an empty one.
LEMMA CommitLeavesList ==
  ASSUME TypesInv, NEW r \in Receivers, ReceiverInv(r), SameOffers(r), NEW k \in Dialog,
         offer[k][r].pc = "insert", offer[k][r].row > offer[k][r].count, db' = db, Commit(r),
         \/ offer[k][r].count > 0 /\ Go(k, r, [pc |-> "asking", row |-> 1, publishing |-> FALSE])
         \/ offer[k][r].count = 0 /\ Go(k, r, [pc |-> "dropped"])
  PROVE  ReceiverInv(r)'
  <1> DEFINE o == offer[k][r]
             data == db[r]
             new == IF o.count > 0 THEN OfferRow("asking", FALSE, 1, o.count, o.accepted)
                    ELSE OfferRow("dropped", o.publishing, o.row, o.count, o.accepted)
  <1>1. WiresInv /\ rollback'[r] = NoTransaction
    BY DeviceKinds DEF TypesInv, StoredInv, Commit
  <1>2. /\ \A j \in Dialog : Inserting(j, r) => j = k
        /\ OfferInv(Files, counts[r], data, rollback[r], o)
    <2>1. Inserting(k, r)
      BY DEF Inserting
    <2> QED BY <2>1, ThreadAtRows
  <1>3. InsertsRows(Files, counts[r], data, rollback[r], o) /\ GroupKnown(data) /\ o.count \in counts[r]
    BY <1>2 DEF OfferInv
  <1>4. OthersStay(k, r) /\ offer'[k][r] = new /\ o \in OfferRows
    <2>1. CASE o.count > 0
      <3>1. o \in OfferRows /\ offer'[k][r] = Updated(o, [pc |-> "asking", row |-> 1, publishing |-> FALSE]) /\ OthersStay(k, r)
        BY <1>1, <2>1, Goes
      <3> HIDE DEF o
      <3>2. Updated(o, [pc |-> "asking", row |-> 1, publishing |-> FALSE]) = OfferRow("asking", FALSE, 1, o.count, o.accepted)
        BY <3>1, UpdatedOffer3
      <3> QED BY <2>1, <3>1, <3>2
    <2>2. CASE o.count = 0
      <3>1. o \in OfferRows /\ offer'[k][r] = Updated(o, [pc |-> "dropped"]) /\ OthersStay(k, r)
        BY <1>1, <2>2, Goes
      <3> HIDE DEF o
      <3>2. Updated(o, [pc |-> "dropped"]) = OfferRow("dropped", o.publishing, o.row, o.count, o.accepted)
        BY <3>1, UpdatedOffer
      <3> QED BY <2>2, <3>1, <3>2
    <2> QED BY <2>1, <2>2
  <1>5. o.row - 1 = o.count /\ o.count \in Nat /\ counts[r] \subseteq Nat
    <2>1. Len(Files) \in Nat
      BY FilesAreList, ListLength
    <2>2. counts[r] \subseteq Nat
      BY <2>1 DEF TypesInv, CountsInv
    <2>3. o.row \in Nat /\ o.count \in Nat
      BY <1>4 DEF OfferRows
    <2> QED BY <1>3, <2>2, <2>3 DEF InsertsRows
  <1>6. PICK n \in counts[r] : Incoming(Files, data, Further(o.count, n))
    BY <1>3, <1>5 DEF InsertsRows
  <1> DEFINE m == Further(o.count, n)
  <1>7. m \in counts[r] /\ (o.count > 0 => m # 0)
    BY <1>3, <1>5, <1>6 DEF Further
  <1>8. new.pc = IF o.count > 0 THEN "asking" ELSE "dropped"
    BY DEF OfferRow
  <1> HIDE DEF new, m, o
  <1>9. Settled(Files, counts[r], data) /\ (new.pc = "asking" => Filled(Files, counts[r], data))
    BY <1>3, <1>6, <1>7, <1>8 DEF Settled, Filled, m
  <1>10. OfferInv(Files, counts[r], db'[r], rollback'[r], new)
    BY <1>8, IdleOffer
  <1>11. new.pc = "asking" \/ new.pc = "dropped"
    BY <1>8
  <1> QED
    BY <1>1, <1>2, <1>4, <1>9, <1>10, <1>11, ListWritten DEF SameOffers, o

LEMMA InsertLeavesList ==
  ASSUME TypesInv, NEW r \in Receivers, ReceiverInv(r), SameOffers(r), NEW k \in Dialog, InsertOffer(k, r)
  PROVE  ReceiverInv(r)'
  <1>1. offer[k][r].pc = "insert"
    BY DEF InsertOffer
  <1>2. \/ /\ offer[k][r].row <= offer[k][r].count /\ rollback' = rollback
           /\ Set(r, InsertOrPublish(offer[k][r].publishing, db[r], Row(Group, Sender, Files[offer[k][r].row], "Incoming")))
           /\ Go(k, r, [row |-> offer[k][r].row + 1])
        \/ /\ offer[k][r].row > offer[k][r].count /\ Commit(r) /\ db' = db
           /\ \/ offer[k][r].count > 0 /\ Go(k, r, [pc |-> "asking", row |-> 1, publishing |-> FALSE])
              \/ offer[k][r].count = 0 /\ Go(k, r, [pc |-> "dropped"])
    BY DEF InsertOffer
  <1> QED
    BY <1>1, <1>2, RowLeavesList, CommitLeavesList

\* Whoever removes the group meets no thread at the rows.
LEMMA UsersLeaveList ==
  ASSUME TypesInv, NEW r \in Receivers, ReceiverInv(r), r \notin overlap', SameOffers(r),
         RemoveTransfer(r) \/ \E k \in Dialog : RemoveRefused(k, r)
  PROVE  ReceiverInv(r)'
  <1>1. GroupRemoved(r) /\ rollback' = rollback
    BY DeviceKinds DEF RemoveTransfer, RemoveRefused
  <1>2. \A j \in Dialog : ~Inserting(j, r)
    BY <1>1 DEF GroupRemoved
  <1>3. \A j \in Dialog : ~Inserting(j, r)'
    <2>1. CASE RemoveTransfer(r)
      BY <1>2, <2>1 DEF RemoveTransfer, receivers, Inserting
    <2>2. ASSUME NEW k \in Dialog, RemoveRefused(k, r) PROVE \A j \in Dialog : ~Inserting(j, r)'
      <3>1. Go(k, r, [pc |-> "connection"]) /\ WiresInv
        BY <2>2 DEF RemoveRefused, TypesInv
      <3>2. offer'[k][r] = Updated(offer[k][r], [pc |-> "connection"]) /\ OthersStay(k, r)
        BY <3>1, Goes
      <3>3. offer'[k][r].pc = "connection"
        BY <3>2, PlaceOfOffer
      <3> QED BY <1>2, <3>2, <3>3 DEF Inserting, OthersStay
    <2> QED BY <2>1, <2>2
  <1> QED
    BY <1>1, <1>2, <1>3, RemovalLeavesList

\* A crash in a transaction brings back the list as it was before it, and nobody is asked any more.
LEMMA CrashLeavesList ==
  ASSUME TypesInv, NEW r \in Receivers, ReceiverInv(r), SameOffers(r), CrashReceiver(r)
  PROVE  ReceiverInv(r)'
  <1>1. r \in Device /\ DOMAIN db = Device /\ DOMAIN rollback = Device /\ WiresInv
    BY DeviceKinds DEF TypesInv, StoredInv
  <1>2. /\ db'[r] = IF rollback[r] = NoTransaction THEN db[r] ELSE rollback[r][1]
        /\ rollback'[r] = NoTransaction /\ dialogs'[r] = <<>>
    BY <1>1 DEF CrashReceiver, Commit, WiresInv
  <1>3. \A j \in Dialog : offer'[j][r].pc \in {"none", "done"}
    BY <1>1 DEF CrashReceiver, WiresInv, OfferRows
  <1>4. Settled(Files, counts[r], db'[r])
    <2>1. CASE \E j \in Dialog : offer[j][r].pc = "insert"
      <3>1. PICK j \in Dialog : offer[j][r].pc = "insert"
        BY <2>1
      <3>2. InsertsRows(Files, counts[r], db[r], rollback[r], offer[j][r])
        BY <3>1 DEF ReceiverInv, OfferInv
      <3> QED BY <1>2, <3>2 DEF InsertsRows
    <2>2. CASE \A j \in Dialog : offer[j][r].pc # "insert"
      BY <1>2, <2>2 DEF ReceiverInv
    <2> QED BY <2>1, <2>2
  <1>5. \A j \in Dialog : offer'[j][r].pc \notin {"lookup", "group", "assignee", "begin", "insert", "commit"}
    BY <1>3
  <1>6. \A j \in Dialog : OfferInv(Files, counts[r], db'[r], rollback'[r], offer'[j][r]) /\ ~Inserting(j, r)'
    BY <1>5, IdleOffer DEF Inserting
  <1> QED
    BY <1>2, <1>4, <1>6 DEF ReceiverInv, SameOffers

-----------------------------------------------------------------------------
(* Steps elsewhere *)

\* Nothing at r is touched.
Untouched(r) ==
  /\ db'[r] = db[r] /\ rollback'[r] = rollback[r] /\ dialogs'[r] = dialogs[r]
  /\ \A k \in Dialog : offer'[k][r] = offer[k][r]

LEMMA UntouchedKeeps ==
  ASSUME NEW r \in Receivers, ReceiverInv(r), SameOffers(r), Untouched(r)
  PROVE  ReceiverInv(r)'
  <1>1. SameList(db'[r], db[r])
    BY DEF Untouched, SameList
  <1> QED BY <1>1, ListUntouched DEF Untouched

LEMMA SenderElsewhere ==
  ASSUME TypesInv, NEW r \in Receivers,
         \/ \E k \in Dialog : RequestThread(k) \/ Interrupt(k) \/ Retry(k) \/ StartRequest(k)
         \/ StartAddition \/ AddRow \/ CommitAddition \/ RemoveTransfer(Sender) \/ CrashSender
         \/ \E k \in Dialog, x \in Receivers : ServeResponse(k, x) \/ TakeResponse(k, x)
  PROVE  Untouched(r)
  <1>1. r \in Device /\ r # Sender /\ Sender \in Device /\ DOMAIN db = Device /\ DOMAIN rollback = Device
    BY DeviceKinds DEF TypesInv, StoredInv
  <1>2. \A new : Set(Sender, new) => db'[r] = db[r]
    BY <1>1 DEF Set
  <1>3. Begin(Sender) \/ Denied(Sender) \/ Commit(Sender) \/ rollback' = rollback => rollback'[r] = rollback[r]
    BY <1>1 DEF Begin, Denied, Commit
  <1>4. ASSUME NEW k \in Dialog, RequestThread(k) \/ Interrupt(k) \/ Retry(k) \/ StartRequest(k) PROVE Untouched(r)
    <2>1. offer' = offer /\ dialogs' = dialogs
      BY <1>4 DEF RequestThread, AskDevice, SendRequest, GetResult, NoResult, PublishShare, NoMoreDevices, CheckRows,
             BeginRows, InsertRow, Interrupt, Retry, StartRequest, StartTask, receivers
    <2>2. db' = db \/ \E new : Set(Sender, new)
      BY <1>4 DEF RequestThread, AskDevice, SendRequest, GetResult, NoResult, PublishShare, NoMoreDevices, CheckRows,
             BeginRows, InsertRow, Interrupt, Retry, StartRequest, StartTask, stored
    <2>3. Begin(Sender) \/ Denied(Sender) \/ Commit(Sender) \/ rollback' = rollback
      BY <1>4 DEF RequestThread, AskDevice, SendRequest, GetResult, NoResult, PublishShare, NoMoreDevices, CheckRows,
             BeginRows, InsertRow, Interrupt, Retry, StartRequest, StartTask, stored
    <2> QED BY <1>2, <1>3, <2>1, <2>2, <2>3 DEF Untouched
  <1>5. CASE StartAddition \/ AddRow \/ CommitAddition
    <2>1. offer' = offer /\ dialogs' = dialogs
      BY <1>5 DEF StartAddition, AddRow, CommitAddition, receivers
    <2>2. db' = db \/ \E new : Set(Sender, new)
      BY <1>5 DEF StartAddition, AddRow, CommitAddition
    <2>3. Begin(Sender) \/ Denied(Sender) \/ Commit(Sender) \/ rollback' = rollback
      BY <1>5 DEF StartAddition, AddRow, CommitAddition
    <2> QED BY <1>2, <1>3, <2>1, <2>2, <2>3 DEF Untouched
  <1>6. CASE RemoveTransfer(Sender)
    BY <1>2, <1>6 DEF RemoveTransfer, receivers, Untouched
  <1>7. CASE CrashSender
    BY <1>1, <1>3, <1>7 DEF CrashSender, receivers, Untouched
  <1>8. ASSUME NEW k \in Dialog, NEW x \in Receivers, ServeResponse(k, x) \/ TakeResponse(k, x) PROVE Untouched(r)
    <2>1. offer' = offer /\ dialogs' = dialogs /\ rollback' = rollback
      BY <1>8 DEF ServeResponse, TakeResponse, receivers
    <2>2. db' = db \/ \E new : Set(Sender, new)
      BY <1>8 DEF ServeResponse, TakeResponse
    <2> QED BY <1>2, <2>1, <2>2 DEF Untouched
  <1> QED
    BY <1>4, <1>5, <1>6, <1>7, <1>8

LEMMA ReceiverElsewhere ==
  ASSUME TypesInv, NEW r \in Receivers, NEW x \in Receivers, x # r,
         \/ \E k \in Dialog :
              \/ OfferThread(k, x) \/ LookUpAnswered(k, x) \/ RemoveRefused(k, x) \/ FindConnection(k, x)
              \/ SendResponse(k, x) \/ \E accepted \in BOOLEAN : Answer(k, x, accepted)
         \/ RemoveTransfer(x) \/ CrashReceiver(x)
  PROVE  Untouched(r)
  <1>1. /\ r \in Device /\ x \in Device /\ x # Sender /\ DOMAIN db = Device /\ DOMAIN rollback = Device /\ WiresInv
    BY DeviceKinds DEF TypesInv, StoredInv
  <1>2. \A new : Set(x, new) => db'[r] = db[r]
    BY <1>1 DEF Set
  <1>3. Begin(x) \/ Denied(x) \/ Commit(x) \/ rollback' = rollback => rollback'[r] = rollback[r]
    BY <1>1 DEF Begin, Denied, Commit
  <1>4. ASSUME NEW k \in Dialog,
               \/ OfferThread(k, x) \/ LookUpAnswered(k, x) \/ RemoveRefused(k, x) \/ FindConnection(k, x)
               \/ SendResponse(k, x) \/ \E accepted \in BOOLEAN : Answer(k, x, accepted)
        PROVE  Untouched(r)
    <2>1. offer' = offer \/ \E record : Go(k, x, record)
      BY <1>4 DEF OfferThread, ServeRequest, ReplyTrue, LookUpGroup, PublishGroup, PublishAssignee, BeginOffer,
             InsertOffer, LookUpAnswered, RemoveRefused, FindConnection, SendResponse, Answer, receivers
    <2>2. \A j \in Dialog : offer'[j][r] = offer[j][r]
      BY <1>1, <2>1, Goes
    <2>3. dialogs'[r] = dialogs[r]
      BY <1>1, <1>4 DEF OfferThread, ServeRequest, ReplyTrue, LookUpGroup, PublishGroup, PublishAssignee, BeginOffer,
             InsertOffer, LookUpAnswered, RemoveRefused, FindConnection, SendResponse, Answer, receivers, WiresInv
    <2>4. db' = db \/ \E new : Set(x, new)
      BY <1>4 DEF OfferThread, ServeRequest, ReplyTrue, LookUpGroup, PublishGroup, PublishAssignee, BeginOffer,
             InsertOffer, LookUpAnswered, RemoveRefused, FindConnection, SendResponse, Answer, stored, GroupRemoved
    <2>5. Begin(x) \/ Denied(x) \/ Commit(x) \/ rollback' = rollback
      BY <1>4 DEF OfferThread, ServeRequest, ReplyTrue, LookUpGroup, PublishGroup, PublishAssignee, BeginOffer,
             InsertOffer, LookUpAnswered, RemoveRefused, FindConnection, SendResponse, Answer, stored
    <2> QED BY <1>2, <1>3, <2>2, <2>3, <2>4, <2>5 DEF Untouched
  <1>5. CASE RemoveTransfer(x)
    BY <1>1, <1>2, <1>5 DEF RemoveTransfer, GroupRemoved, receivers, Untouched
  <1>6. CASE CrashReceiver(x)
    <2>1. db'[r] = db[r] /\ rollback'[r] = rollback[r] /\ dialogs'[r] = dialogs[r]
      BY <1>1, <1>3, <1>6 DEF CrashReceiver, WiresInv
    <2>2. \A j \in Dialog : offer'[j][r] = offer[j][r]
      BY <1>1, <1>6 DEF CrashReceiver, WiresInv
    <2> QED BY <2>1, <2>2 DEF Untouched
  <1> QED
    BY <1>4, <1>5, <1>6

LEMMA ReceiversStep ==
  ASSUME TypesInv, ReceiversInv, [RequestsNext]_requestVars
  PROVE  ReceiversInv'
  <1>1. overlap \subseteq overlap' /\ Files' = Files
    BY HistoryStep DEF TypesInv, Files
  <1> SUFFICES ASSUME NEW r \in Receivers, r \notin overlap' PROVE ReceiverInv(r)'
    BY DEF ReceiversInv
  <1>2. ReceiverInv(r)
    BY <1>1 DEF ReceiversInv
  <1>0. SameOffers(r) \/ \E k \in Dialog : ReplyTrue(k, r)
    BY <1>1, CountsStep DEF TypesInv, SameOffers
  <1>9. ASSUME NEW k \in Dialog, ReplyTrue(k, r) PROVE ReceiverInv(r)'
    BY <1>1, <1>2, <1>9, ReplyLeavesList
  <1> SUFFICES ASSUME SameOffers(r) PROVE ReceiverInv(r)'
    BY <1>0, <1>9
  <1>3. ASSUME Untouched(r) PROVE ReceiverInv(r)'
    BY <1>1, <1>2, <1>3, UntouchedKeeps
  <1>4. CASE UNCHANGED requestVars
    BY <1>3, <1>4 DEF requestVars, stored, receivers, Untouched
  <1>5. ASSUME \/ \E k \in Dialog : RequestThread(k) \/ Interrupt(k) \/ Retry(k) \/ StartRequest(k)
               \/ StartAddition \/ AddRow \/ CommitAddition \/ CrashSender
        PROVE  ReceiverInv(r)'
    BY <1>3, <1>5, SenderElsewhere
  <1>6. ASSUME NEW k \in Dialog, NEW x \in Receivers,
               OfferThread(k, x) \/ AnswerThread(k, x) \/ \E accepted \in BOOLEAN : Answer(k, x, accepted)
        PROVE  ReceiverInv(r)'
    <2>1. CASE ServeResponse(k, x) \/ TakeResponse(k, x)
      BY <1>3, <2>1, SenderElsewhere
    <2>2. CASE \/ OfferThread(k, x) \/ LookUpAnswered(k, x) \/ RemoveRefused(k, x) \/ FindConnection(k, x)
               \/ SendResponse(k, x) \/ \E accepted \in BOOLEAN : Answer(k, x, accepted)
      <3>1. CASE x # r
        BY <1>3, <2>2, <3>1, ReceiverElsewhere
      <3>2. CASE x = r
        <4>1. CASE OfferThread(k, r)
          BY <1>1, <1>2, <4>1, AnswersLeaveList, <1>9, LookUpLeavesList, GroupLeavesList,
             AssigneeLeavesList, BeginLeavesList, InsertLeavesList DEF OfferThread
        <4>2. CASE \/ LookUpAnswered(k, r) \/ FindConnection(k, r) \/ SendResponse(k, r)
                   \/ \E accepted \in BOOLEAN : Answer(k, r, accepted)
          BY <1>1, <1>2, <4>2, AnswersLeaveList
        <4>3. CASE RemoveRefused(k, r)
          BY <1>1, <1>2, <4>3, UsersLeaveList
        <4> QED BY <2>2, <3>2, <4>1, <4>2, <4>3
      <3> QED BY <3>1, <3>2
    <2> QED BY <1>6, <2>1, <2>2 DEF AnswerThread
  <1>7. ASSUME NEW d \in Device, RemoveTransfer(d) PROVE ReceiverInv(r)'
    <2>1. CASE d = Sender
      BY <1>3, <1>7, <2>1, SenderElsewhere
    <2>2. CASE d = r
      BY <1>1, <1>2, <1>7, <2>2, UsersLeaveList
    <2>3. CASE d \in Receivers \ {r}
      BY <1>3, <1>7, <2>3, ReceiverElsewhere
    <2> QED BY <2>1, <2>2, <2>3 DEF Device
  <1>8. ASSUME NEW x \in Receivers, CrashReceiver(x) PROVE ReceiverInv(r)'
    <2>1. CASE x = r
      BY <1>1, <1>2, <1>8, <2>1, CrashLeavesList
    <2>2. CASE x # r
      BY <1>3, <1>8, <2>2, ReceiverElsewhere
    <2> QED BY <2>1, <2>2
  <1> QED
    BY <1>4, <1>5, <1>6, <1>7, <1>8 DEF RequestsNext

LEMMA ReceiversStart == RequestsInit => ReceiversInv
  <1> SUFFICES ASSUME RequestsInit, NEW r \in Receivers PROVE ReceiverInv(r)
    BY DEF ReceiversInv
  <1> DEFINE data == Known({Sender})
  <1>1. db[r] = data
    <2>1. r \in Device
      BY DeviceKinds
    <2> QED BY <2>1 DEF RequestsInit
  <1>2. data["transfer"] = <<>>
    BY FS_Singleton, KnownStored
  <1> HIDE DEF data
  <1>3. Incoming(Files, data, 0)
    BY <1>2 DEF Incoming, HoldsFirst, ToSet
  <1>4. Settled(Files, counts[r], data)
    <2>1. 0 \in counts[r]
      BY DEF RequestsInit
    <2> QED BY <1>3, <2>1 DEF Settled
  <1>5. /\ rollback[r] = NoTransaction /\ dialogs[r] = <<>>
        /\ \A k \in Dialog : offer[k][r].pc = "none"
    BY DeviceKinds DEF RequestsInit
  <1>6. \A k \in Dialog : OfferInv(Files, counts[r], data, rollback[r], offer[k][r])
    BY <1>5, IdleOffer
  <1> QED
    BY <1>1, <1>4, <1>5, <1>6 DEF ReceiverInv, Inserting

-----------------------------------------------------------------------------
(* Lists at the sender *)

Outgoing(files, data, r, n) == HoldsFirst(files, data, r, "Outgoing", n)
Whole(files, data, r)       == Outgoing(files, data, r, 0) \/ Outgoing(files, data, r, Len(files))

Devices(q)   == ToSet(q.todo) \cup ToSet(q.passed)
Active(q)    == q.pc \notin {"idle", "ended"}
Writes(q, r) == q.pc = "insert" /\ q.passed[q.at] = r

\* A device is asked by one request at a time.
Apart(requests) ==
  \A j, k \in Dialog, r \in Receivers :
    Active(requests[j]) /\ Active(requests[k]) /\ r \in Devices(requests[j]) /\ r \in Devices(requests[k]) => j = k

\* A request begins each list at its first row.
RowInv(files, q) ==
  /\ q.pc \notin {"insert", "ended"} => q.row = 1
  /\ q.pc = "insert" => q.row <= Len(files) + 1

\* What a request has found out of the rows of r, or has inserted.
RowsOf(files, data, q, r) ==
  /\ Writes(q, r) => Outgoing(files, data, r, q.row - 1)
  /\ q.pc = "begin" /\ q.passed[q.at] = r => Outgoing(files, data, r, 0)

ListInv(files, data, requests, r) ==
  /\ \A k \in Dialog : RowsOf(files, data, requests[k], r)
  /\ (\A k \in Dialog : ~Writes(requests[k], r)) => Whole(files, data, r)

\* Without trouble the only transaction is that of the request that inserts, and a crash brings back
\* lists that are whole.
TransactionInv ==
  /\ addition.pc = "idle"
  /\ \A j, k \in Dialog : request[j].pc = "insert" /\ request[k].pc = "insert" => j = k
  /\ rollback[Sender] = NoTransaction => \A k \in Dialog : request[k].pc # "insert"
  /\ rollback[Sender] # NoTransaction => \A r \in Receivers \ early : Whole(Files, rollback[Sender][1], r)

SenderInv ==
  /\ Apart(request)
  /\ \A k \in Dialog : RowInv(Files, request[k])
  /\ \A r \in Receivers \ early : ListInv(Files, db[Sender], request, r)
  /\ trouble = 0 => TransactionInv

SenderListsInv == Sender \notin overlap /\ trouble < 2 => SenderInv

-----------------------------------------------------------------------------
(* Steps of requests that are not at the rows *)

\* No device is added, and who is not at the rows does not go there.
Quiet(q, new) ==
  /\ Active(q) /\ new.row = q.row /\ Devices(new) \subseteq Devices(q)
  /\ q.pc \in {"begin", "insert"} \/ new.pc \in {"begin", "insert"}
       => new.pc = q.pc /\ new.at = q.at /\ new.passed = q.passed

LEMMA FewerDevices ==
  ASSUME NEW todo \in Seq(Receivers), NEW passed \in Seq(Receivers), todo # <<>>
  PROVE  /\ ToSet(Tail(todo)) \subseteq ToSet(todo)
         /\ ToSet(Append(passed, Head(todo))) \subseteq ToSet(todo) \cup ToSet(passed)
  <1>1. ToSet(Tail(todo)) \subseteq ToSet(todo)
    <2>1. \A i \in DOMAIN Tail(todo) : Tail(todo)[i] = todo[i + 1] /\ i + 1 \in DOMAIN todo
      BY HeadTailProperties
    <2> QED BY <2>1 DEF ToSet
  <1>2. Head(todo) \in ToSet(todo)
    <2>1. Head(todo) = todo[1] /\ 1 \in DOMAIN todo
      BY EmptySeq
    <2> QED BY <2>1 DEF ToSet
  <1>3. \A x \in ToSet(Append(passed, Head(todo))) : x \in ToSet(passed) \/ x = Head(todo)
    <2> DEFINE h == Head(todo)
    <2> HIDE DEF h
    <2>1. \A i \in DOMAIN Append(passed, h) : (i \in DOMAIN passed /\ Append(passed, h)[i] = passed[i])
                                              \/ Append(passed, h)[i] = h
      OBVIOUS
    <2> QED BY <2>1 DEF ToSet, h
  <1> QED BY <1>1, <1>2, <1>3

LEMMA QuietAsks ==
  ASSUME TypesInv, NEW k \in Dialog,
         \/ AskDevice(k) \/ SendRequest(k) \/ GetResult(k) \/ NoResult(k) \/ PublishShare(k) \/ NoMoreDevices(k)
         \/ Interrupt(k)
  PROVE  \E new : Asks(k, new) /\ Quiet(request[k], new)
  <1> DEFINE q == request[k]
             t == Tail(q.todo)
             y == Append(q.passed, Head(q.todo))
             Places == {"next", "link", "await", "publish", "check", "ended"}
  <1>1. RequestsInv(request) /\ q \in RequestRows /\ AskingInv(q) /\ \A record : Ask(k, record) => Asks(k, Updated(q, record))
    BY AskFields DEF TypesInv
  <1>2. /\ q.pc \in {"next", "link", "await", "publish"} \/ Interrupt(k)
        /\ Active(q)
    BY DEF AskDevice, SendRequest, GetResult, NoResult, PublishShare, NoMoreDevices, Interrupt, Running, Active
  <1>3. \/ q.todo # <<>> /\ q.pc = "next" /\ (Ask(k, [todo |-> t]) \/ Ask(k, [pc |-> "link"]))
        \/ q.pc = "next" /\ Ask(k, [pc |-> "link", interrupted |-> TRUE])
        \/ q.todo # <<>> /\ q.pc \in {"next", "await"} /\ \E stop : NextFails(k, stop)
        \/ q.pc = "link" /\ Ask(k, [pc |-> "await"])
        \/ q.todo # <<>> /\ q.pc = "await" /\ Ask(k, [pc |-> "publish", passed |-> y])
        \/ q.todo # <<>> /\ q.pc = "publish" /\ Ask(k, [pc |-> "next", todo |-> t])
        \/ q.pc = "next" /\ \E p \in {"check", "ended"} : Ask(k, [pc |-> p, todo |-> <<>>])
        \/ Ask(k, [interrupted |-> TRUE])
    BY <1>1 DEF AskDevice, PutTogether, SendRequest, GetResult, NoResult, PublishShare, NoMoreDevices, Interrupt, AskingInv
  <1>4. q.todo # <<>> => ToSet(t) \subseteq ToSet(q.todo) /\ ToSet(y) \subseteq Devices(q)
    BY <1>1, FewerDevices DEF RequestRows, Devices
  <1>5. ToSet(<<>>) = {}
    BY DEF ToSet
  <1>6. ASSUME NEW stop, q.todo # <<>>, q.pc \in {"next", "await"}, NextFails(k, stop)
        PROVE  \E new : Asks(k, new) /\ Quiet(request[k], new)
    <2> DEFINE f   == Append(q.failed, Head(q.todo))
               new == RequestRow("next", t, q.at, q.row, q.passed, f, stop)
    <2>1. Asks(k, new)
      BY <1>1, <1>6, NextFailsAsks
    <2> HIDE DEF q, t, f
    <2>2. Quiet(q, new)
      BY <1>2, <1>4, <1>6 DEF Quiet, RequestRow, Devices
    <2> QED BY <2>1, <2>2 DEF q
  <1> HIDE DEF q, t, y
  <1>7. CASE q.todo # <<>> /\ q.pc = "next" /\ Ask(k, [todo |-> t])
    <2> DEFINE new == RequestRow(q.pc, t, q.at, q.row, q.passed, q.failed, q.interrupted)
    <2>1. Asks(k, new)
      BY <1>1, <1>7, UpdatedRequest
    <2>2. Quiet(q, new)
      BY <1>2, <1>4, <1>7 DEF Quiet, RequestRow, Devices
    <2> QED BY <2>1, <2>2 DEF q
  <1>8. ASSUME NEW p \in {"link", "await"}, q.pc \in {"next", "link"}, Ask(k, [pc |-> p])
        PROVE  \E new : Asks(k, new) /\ Quiet(request[k], new)
    <2> DEFINE new == RequestRow(p, q.todo, q.at, q.row, q.passed, q.failed, q.interrupted)
    <2>1. Asks(k, new)
      BY <1>1, <1>8, UpdatedRequest
    <2>2. Quiet(q, new)
      BY <1>2, <1>8 DEF Quiet, RequestRow, Devices
    <2> QED BY <2>1, <2>2 DEF q
  <1>9. CASE q.todo # <<>> /\ q.pc = "await" /\ Ask(k, [pc |-> "publish", passed |-> y])
    <2> DEFINE new == RequestRow("publish", q.todo, q.at, q.row, y, q.failed, q.interrupted)
    <2>1. Asks(k, new)
      BY <1>1, <1>9, UpdatedRequest2
    <2>2. Quiet(q, new)
      BY <1>2, <1>4, <1>9 DEF Quiet, RequestRow, Devices
    <2> QED BY <2>1, <2>2 DEF q
  <1>10. CASE q.todo # <<>> /\ q.pc = "publish" /\ Ask(k, [pc |-> "next", todo |-> t])
    <2> DEFINE new == RequestRow("next", t, q.at, q.row, q.passed, q.failed, q.interrupted)
    <2>1. Asks(k, new)
      BY <1>1, <1>10, UpdatedRequest2
    <2>2. Quiet(q, new)
      BY <1>2, <1>4, <1>10 DEF Quiet, RequestRow, Devices
    <2> QED BY <2>1, <2>2 DEF q
  <1>11. ASSUME NEW p \in {"check", "ended"}, q.pc = "next", Ask(k, [pc |-> p, todo |-> <<>>])
         PROVE  \E new : Asks(k, new) /\ Quiet(request[k], new)
    <2> DEFINE new == RequestRow(p, <<>>, q.at, q.row, q.passed, q.failed, q.interrupted)
    <2>1. Asks(k, new)
      BY <1>1, <1>11, UpdatedRequest2
    <2>2. Quiet(q, new)
      BY <1>2, <1>5, <1>11 DEF Quiet, RequestRow, Devices
    <2> QED BY <2>1, <2>2 DEF q
  <1>12. CASE Ask(k, [interrupted |-> TRUE])
    <2> DEFINE new == RequestRow(q.pc, q.todo, q.at, q.row, q.passed, q.failed, TRUE)
    <2>1. Asks(k, new)
      BY <1>1, <1>12, UpdatedRequest
    <2>2. Quiet(q, new)
      BY <1>2 DEF Quiet, RequestRow, Devices
    <2> QED BY <2>1, <2>2 DEF q
  <1>13. CASE q.pc = "next" /\ Ask(k, [pc |-> "link", interrupted |-> TRUE])
    <2> DEFINE new == RequestRow("link", q.todo, q.at, q.row, q.passed, q.failed, TRUE)
    <2>1. Asks(k, new)
      BY <1>1, <1>13, UpdatedRequest2
    <2>2. Quiet(q, new)
      BY <1>2, <1>13 DEF Quiet, RequestRow, Devices
    <2> QED BY <2>1, <2>2 DEF q
  <1> QED BY <1>3, <1>6, <1>7, <1>8, <1>9, <1>10, <1>11, <1>12, <1>13

-----------------------------------------------------------------------------
(* What a step of one request, or of none, keeps *)

LEMMA AskedRequest ==
  ASSUME RequestsInv(request), NEW k \in Dialog, NEW new, Asks(k, new)
  PROVE  request'[k] = new /\ \A j \in Dialog \ {k} : request'[j] = request[j]
  BY DEF RequestsInv, Asks

LEMMA ApartStep ==
  ASSUME RequestsInv(request), Apart(request), NEW k \in Dialog, NEW new, Asks(k, new),
         Active(request[k]) /\ Devices(new) \subseteq Devices(request[k])
  PROVE  Apart(request')
  <1>1. request'[k] = new /\ \A j \in Dialog \ {k} : request'[j] = request[j]
    BY AskedRequest
  <1> SUFFICES ASSUME NEW i \in Dialog, NEW j \in Dialog, NEW r \in Receivers,
                      Active(request'[i]), Active(request'[j]), r \in Devices(request'[i]), r \in Devices(request'[j])
               PROVE  i = j
    BY DEF Apart
  <1>2. /\ Active(request[i]) /\ r \in Devices(request[i])
        /\ Active(request[j]) /\ r \in Devices(request[j])
    BY <1>1
  <1> QED BY <1>2 DEF Apart

\* Only one request is at the rows of a device.
LEMMA AloneAtRows ==
  ASSUME RequestsInv(request), Apart(request), NEW k \in Dialog, request[k].pc \in {"check", "begin", "insert"},
         NEW i \in DOMAIN request[k].passed, NEW r, r = request[k].passed[i], NEW j \in Dialog \ {k}
  PROVE  ~Writes(request[j], r) /\ ~(request[j].pc = "begin" /\ request[j].passed[request[j].at] = r)
  <1>1. request[k] \in RequestRows /\ request[j] \in RequestRows /\ AskingInv(request[j])
    BY AskFields
  <1>2. r \in Receivers /\ r \in Devices(request[k]) /\ Active(request[k])
    <2>1. r \in ToSet(request[k].passed) /\ request[k].passed \in Seq(Receivers)
      BY <1>1 DEF ToSet, RequestRows
    <2> QED BY <2>1, ElementOfSeq DEF Devices, Active
  <1> SUFFICES ASSUME request[j].pc \in {"begin", "insert"}, request[j].passed[request[j].at] = r PROVE FALSE
    BY DEF Writes
  <1>3. request[j].at \in DOMAIN request[j].passed
    BY <1>1 DEF AskingInv, RequestRows
  <1>4. r \in Devices(request[j]) /\ Active(request[j])
    BY <1>3 DEF Devices, Active, ToSet
  <1> QED BY <1>2, <1>4 DEF Apart

\* A list over one that holds at least as much.
LEMMA OneListStep ==
  ASSUME RequestsInv(request), NEW files, NEW data, NEW new, NEW r, ListInv(files, data, request, r),
         NEW k \in Dialog, NEW q, Asks(k, q),
         \A j \in Dialog \ {k} : RowsOf(files, new, request[j], r),
         RowsOf(files, new, q, r),
         (\A j \in Dialog \ {k} : ~Writes(request[j], r)) /\ ~Writes(q, r) => Whole(files, new, r)
  PROVE  ListInv(files, new, request', r)
  <1>1. request'[k] = q /\ \A j \in Dialog \ {k} : request'[j] = request[j]
    BY AskedRequest
  <1>2. \A j \in Dialog : RowsOf(files, new, request'[j], r)
    BY <1>1
  <1> QED BY <1>1, <1>2 DEF ListInv

\* Rows are kept.
ListKept(files, new, data, r) == \A n : Outgoing(files, data, r, n) => Outgoing(files, new, r, n)

LEMMA KeptRows ==
  ASSUME NEW files, NEW data, NEW new, NEW r, ListKept(files, new, data, r)
  PROVE  /\ \A q : RowsOf(files, data, q, r) => RowsOf(files, new, q, r)
         /\ Whole(files, data, r) => Whole(files, new, r)
  BY DEF ListKept, RowsOf, Whole

LEMMA SameTableKept ==
  ASSUME NEW files, NEW data, NEW new, new["transfer"] = data["transfer"], NEW r
  PROVE  ListKept(files, new, data, r)
  BY SameRowsHold DEF ListKept, Outgoing

LEMMA SameRequestsStep ==
  ASSUME NEW files, NEW data, NEW new, NEW r, ListInv(files, data, request, r), ListKept(files, new, data, r)
  PROVE  ListInv(files, new, request, r)
  BY KeptRows DEF ListInv

\* The list of a device that no request concerns is taken.
LEMMA TakenList ==
  ASSUME RequestsInv(request), NEW files, NEW data, NEW new, NEW r \in Receivers, ListInv(files, data, request, r),
         \A k \in Dialog : ~Concerns(k, r), \A n : Outgoing(files, data, r, n) => Outgoing(files, new, r, 0)
  PROVE  ListInv(files, new, request, r)
  <1>1. ASSUME NEW k \in Dialog PROVE ~(request[k].pc \in {"begin", "insert"} /\ request[k].passed[request[k].at] = r)
    <2>1. request[k] \in RequestRows /\ AskingInv(request[k])
      BY AskFields
    <2> SUFFICES ASSUME request[k].pc \in {"begin", "insert"}, request[k].passed[request[k].at] = r PROVE FALSE
      OBVIOUS
    <2>2. request[k].at \in DOMAIN request[k].passed
      BY <2>1 DEF AskingInv, RequestRows
    <2>3. Concerns(k, r)
      BY <2>2 DEF Concerns, Running, ToSet
    <2> QED BY <2>3
  <1>2. \A k \in Dialog : ~Writes(request[k], r) /\ RowsOf(files, new, request[k], r)
    BY <1>1 DEF Writes, RowsOf
  <1>3. Whole(files, data, r)
    BY <1>2 DEF ListInv
  <1>4. Whole(files, new, r)
    BY <1>3 DEF Whole
  <1> QED BY <1>2, <1>4 DEF ListInv

\* A quiet step leaves the lists alone.
LEMMA QuietList ==
  ASSUME RequestsInv(request), NEW files, NEW data, NEW new, NEW r, ListInv(files, data, request, r),
         ListKept(files, new, data, r), NEW k \in Dialog, NEW q, Asks(k, q), Quiet(request[k], q)
  PROVE  ListInv(files, new, request', r)
  <1>1. \A j \in Dialog : RowsOf(files, new, request[j], r)
    BY KeptRows DEF ListInv
  <1>2. RowsOf(files, new, q, r) /\ (Writes(q, r) <=> Writes(request[k], r))
    BY <1>1 DEF Quiet, RowsOf, Writes
  <1>3. (\A j \in Dialog : ~Writes(request[j], r)) => Whole(files, new, r)
    BY KeptRows DEF ListInv
  <1> QED BY <1>1, <1>2, <1>3, OneListStep

\* The transaction of the sender, and who is in it.
LEMMA TransactionKept ==
  ASSUME TransactionInv, addition' = addition, rollback'[Sender] = rollback[Sender], early \subseteq early', Files' = Files,
         \A k \in Dialog : request'[k].pc = "insert" <=> request[k].pc = "insert"
  PROVE  TransactionInv'
  BY DEF TransactionInv

LEMMA QuietRows ==
  ASSUME RequestsInv(request), \A k \in Dialog : RowInv(Files, request[k]), NEW k \in Dialog, NEW q, Asks(k, q),
         Quiet(request[k], q)
  PROVE  /\ \A j \in Dialog : RowInv(Files, request'[j])
         /\ \A j \in Dialog : request'[j].pc = "insert" <=> request[j].pc = "insert"
  <1>1. request'[k] = q /\ \A j \in Dialog \ {k} : request'[j] = request[j]
    BY AskedRequest
  <1>2. RowInv(Files, q) /\ (q.pc = "insert" <=> request[k].pc = "insert")
    BY DEF RowInv, Quiet, Active
  <1> QED BY <1>1, <1>2

-----------------------------------------------------------------------------
(* Steps that the sender's lists see *)

\* What the history does in every step.
HistoryGrows == early \subseteq early' /\ Files' = Files /\ (trouble' = 0 => trouble = 0)

\* The sender asks, and records connections and shares.
LEMMA QuietSender ==
  ASSUME TypesInv, SenderInv, HistoryGrows, NEW k \in Dialog,
         \/ AskDevice(k) \/ SendRequest(k) \/ GetResult(k) \/ NoResult(k) \/ PublishShare(k) \/ NoMoreDevices(k)
         \/ Interrupt(k)
  PROVE  SenderInv'
  <1>1. RequestsInv(request) /\ StoredInv(db, rollback) /\ Sender \in Device /\ IsDatabase(db[Sender]) /\ DOMAIN db = Device
    BY DeviceKinds DEF TypesInv, StoredInv
  <1>2. PICK q : Asks(k, q) /\ Quiet(request[k], q)
    BY QuietAsks
  <1>3. rollback' = rollback /\ addition' = addition
    BY DEF AskDevice, SendRequest, GetResult, NoResult, PublishShare, NoMoreDevices, Interrupt, stored
  <1>4. db'[Sender]["transfer"] = db[Sender]["transfer"]
    <2>1. \/ db' = db \/ (\E peer : Set(Sender, Forget(Sender, peer)) \/ Set(Sender, Record(Sender, peer)))
          \/ \E r : Set(Sender, Publish(db[Sender], WhereAssignee(Group, r), Share(r)))
      BY DEF AskDevice, SendRequest, GetResult, NoResult, PublishShare, NoMoreDevices, Interrupt, stored, Share
    <2>2. ASSUME NEW new, Set(Sender, new), new["transfer"] = db[Sender]["transfer"]
          PROVE  db'[Sender]["transfer"] = db[Sender]["transfer"]
      BY <1>1, <2>2 DEF Set
    <2>3. \A peer : Forget(Sender, peer)["transfer"] = db[Sender]["transfer"]
                    /\ Record(Sender, peer)["transfer"] = db[Sender]["transfer"]
      BY <1>1, ConnectionsKeepList DEF SameList
    <2>4. ASSUME NEW r, Set(Sender, Publish(db[Sender], WhereAssignee(Group, r), Share(r)))
          PROVE  db'[Sender]["transfer"] = db[Sender]["transfer"]
      <3> DEFINE S     == WhereAssignee(Group, r)
                 share == Share(r)
                 new   == Publish(db[Sender], S, share)
      <3>1. S.table = "transferAssignee" /\ S.table \in Tables
        BY RowTables DEF WhereAssignee
      <3>2. Set(Sender, new)
        BY <2>4
      <3> HIDE DEF S, share
      <3>3. ChangesOnly(new, db[Sender], {S.table})
        BY <1>1, <3>1, PublishWritesRow
      <3>4. new["transfer"] = db[Sender]["transfer"]
        BY <3>1, <3>3, RowTables DEF ChangesOnly
      <3> HIDE DEF new
      <3> QED BY <2>2, <3>2, <3>4
    <2> QED BY <2>1, <2>2, <2>3, <2>4
  <1>5. Apart(request')
    BY <1>1, <1>2, ApartStep DEF SenderInv, Quiet
  <1>6. /\ \A j \in Dialog : RowInv(Files, request'[j])
        /\ \A j \in Dialog : request'[j].pc = "insert" <=> request[j].pc = "insert"
    BY <1>1, <1>2, QuietRows DEF SenderInv
  <1>7. \A r \in Receivers \ early' : ListInv(Files, db'[Sender], request', r)
    <2> SUFFICES ASSUME NEW r \in Receivers \ early' PROVE ListInv(Files, db'[Sender], request', r)
      OBVIOUS
    <2>1. ListInv(Files, db[Sender], request, r)
      BY DEF SenderInv, HistoryGrows
    <2>2. ListKept(Files, db'[Sender], db[Sender], r)
      BY <1>4, SameTableKept
    <2> QED BY <1>1, <1>2, <2>1, <2>2, QuietList
  <1>8. trouble' = 0 => TransactionInv'
    BY <1>3, <1>6, TransactionKept DEF SenderInv, HistoryGrows
  <1> QED BY <1>5, <1>6, <1>7, <1>8 DEF SenderInv, HistoryGrows

\* A selection by group, device and type finds the list.
OutgoingRows(files, data, r, n) ==
  /\ Len(Rows(data, OutgoingOf(Group, r))) = n
  /\ {row.id : row \in ToSet(Rows(data, OutgoingOf(Group, r)))} = {files[i] : i \in 1 .. n}
  /\ Has(data, OutgoingOf(Group, r)) <=> n > 0

LEMMA OutgoingFound ==
  ASSUME NEW files, IsList(files), NEW data, IsDatabase(data), NEW r, NEW n \in 0 .. Len(files), Outgoing(files, data, r, n)
  PROVE  OutgoingRows(files, data, r, n)
  <1> DEFINE S == OutgoingOf(Group, r)
  <1>1. S.table = "transfer"
    BY DEF OutgoingOf
  <1>2. \A row : Matches(row, S.where) <=> row.groupId = Group /\ row.deviceId = r /\ row.type = "Outgoing"
    BY DEF OutgoingOf, Matches
  <1>3. \A row \in ToSet(data["transfer"]) : row.deviceId = r => row.groupId = Group /\ row.type = "Outgoing"
    BY RowFields DEF Outgoing, HoldsFirst
  <1> HIDE DEF S
  <1>4. \A row \in ToSet(data["transfer"]) : Matches(row, S.where) <=> row.deviceId = r
    BY <1>2, <1>3
  <1>5. /\ Len(Rows(data, S)) = n
        /\ {row.id : row \in ToSet(Rows(data, S))} = {files[i] : i \in 1 .. n}
        /\ Has(data, S) <=> n > 0
    BY <1>1, <1>4, LengthOfList DEF Outgoing
  <1> QED BY <1>5 DEF OutgoingRows, S

\* The rows of a device that has none are found missing.
LEMMA NoRowsFound ==
  ASSUME TypesInv, NEW r \in Receivers, Whole(Files, db[Sender], r), ~AlreadyThere(r)
  PROVE  Outgoing(Files, db[Sender], r, 0)
  <1>1. IsList(Files) /\ Len(Files) \in Nat /\ Len(Files) > 0 /\ IsDatabase(db[Sender])
    BY FilesAreList, ListLength, DeviceKinds DEF TypesInv, StoredInv
  <1> SUFFICES ASSUME Outgoing(Files, db[Sender], r, Len(Files)) PROVE FALSE
    BY DEF Whole
  <1>2. OutgoingRows(Files, db[Sender], r, Len(Files))
    BY <1>1, OutgoingFound
  <1> QED BY <1>1, <1>2 DEF OutgoingRows, AlreadyThere

LEMMA CheckSender ==
  ASSUME TypesInv, SenderInv, HistoryGrows, NEW k \in Dialog, CheckRows(k)
  PROVE  SenderInv'
  <1> DEFINE q == request[k]
             r0 == q.passed[q.at]
  <1>1. RequestsInv(request) /\ q \in RequestRows /\ AskingInv(q) /\ \A record : Ask(k, record) => Asks(k, Updated(q, record))
    BY AskFields DEF TypesInv
  <1>2. /\ q.pc = "check" /\ rollback' = rollback /\ addition' = addition /\ db' = db
        /\ \/ Ask(k, [pc |-> "ended"]) \/ Ask(k, [at |-> q.at + 1])
           \/ q.at <= Len(q.passed) /\ ~AlreadyThere(r0) /\ Ask(k, [pc |-> "begin"])
    <2>1. q.at \in Nat /\ Len(q.passed) \in Nat
      BY <1>1 DEF RequestRows
    <2> QED BY <2>1 DEF CheckRows, stored
  <1>3. \E new : Asks(k, new) /\ new.row = q.row /\ Devices(new) = Devices(q)
                 /\ \/ new.pc \in {"check", "ended"}
                    \/ /\ new.pc = "begin" /\ new.at = q.at /\ new.passed = q.passed
                       /\ q.at \in DOMAIN q.passed /\ ~AlreadyThere(r0)
    <2> DEFINE n == q.at + 1
    <2>0. q.at <= Len(q.passed) => q.at \in DOMAIN q.passed
      BY <1>1 DEF RequestRows
    <2>1. Ask(k, [pc |-> "ended"]) \/ Ask(k, [at |-> n]) \/ (q.at <= Len(q.passed) /\ ~AlreadyThere(r0) /\ Ask(k, [pc |-> "begin"]))
      BY <1>2
    <2>8. q.pc = "check"
      BY <1>2
    <2> HIDE DEF n, q
    <2>2. CASE Ask(k, [pc |-> "ended"])
      <3> DEFINE new == RequestRow("ended", q.todo, q.at, q.row, q.passed, q.failed, q.interrupted)
      <3>1. Asks(k, new)
        BY <1>1, <2>2, UpdatedRequest
      <3> QED BY <3>1 DEF RequestRow, Devices
    <2>3. CASE Ask(k, [at |-> n])
      <3> DEFINE new == RequestRow(q.pc, q.todo, n, q.row, q.passed, q.failed, q.interrupted)
      <3>1. Asks(k, new)
        BY <1>1, <2>3, UpdatedRequest
      <3> QED BY <2>8, <3>1 DEF RequestRow, Devices
    <2>4. CASE q.at <= Len(q.passed) /\ ~AlreadyThere(r0) /\ Ask(k, [pc |-> "begin"])
      <3> DEFINE new == RequestRow("begin", q.todo, q.at, q.row, q.passed, q.failed, q.interrupted)
      <3>1. Asks(k, new)
        BY <1>1, <2>4, UpdatedRequest
      <3> QED BY <2>0, <2>4, <3>1 DEF RequestRow, Devices
    <2> QED BY <2>1, <2>2, <2>3, <2>4
  <1>4. PICK new : Asks(k, new) /\ new.row = q.row /\ Devices(new) = Devices(q)
                   /\ \/ new.pc \in {"check", "ended"}
                      \/ /\ new.pc = "begin" /\ new.at = q.at /\ new.passed = q.passed
                         /\ q.at \in DOMAIN q.passed /\ ~AlreadyThere(r0)
    BY <1>3
  <1>5. request'[k] = new /\ \A j \in Dialog \ {k} : request'[j] = request[j]
    BY <1>1, <1>4, AskedRequest
  <1>6. Active(q)
    BY <1>2 DEF Active
  <1>7. Apart(request')
    BY <1>1, <1>4, <1>6, ApartStep DEF SenderInv
  <1>8. \A j \in Dialog : RowInv(Files, request'[j])
    <2>1. RowInv(Files, new)
      BY <1>2, <1>4 DEF SenderInv, RowInv
    <2> QED BY <1>5, <2>1 DEF SenderInv
  <1>9. \A j \in Dialog : request'[j].pc = "insert" <=> request[j].pc = "insert"
    BY <1>2, <1>4, <1>5
  <1>10. trouble' = 0 => TransactionInv'
    BY <1>2, <1>9, TransactionKept DEF SenderInv, HistoryGrows
  <1>11. \A r \in Receivers \ early' : ListInv(Files, db'[Sender], request', r)
    <2> SUFFICES ASSUME NEW r \in Receivers \ early' PROVE ListInv(Files, db[Sender], request', r)
      BY <1>2
    <2>1. ListInv(Files, db[Sender], request, r)
      BY DEF SenderInv, HistoryGrows
    <2>2. ~Writes(q, r) /\ ~Writes(new, r)
      BY <1>2, <1>4 DEF Writes
    <2>3. RowsOf(Files, db[Sender], new, r)
      <3> SUFFICES ASSUME new.pc = "begin", new.passed[new.at] = r PROVE Outgoing(Files, db[Sender], r, 0)
        BY <2>2 DEF RowsOf
      <3>1. q.at \in DOMAIN q.passed /\ r = q.passed[q.at] /\ ~AlreadyThere(r)
        BY <1>4
      <3>2. \A j \in Dialog \ {k} : ~Writes(request[j], r)
        BY <1>1, <1>2, <3>1, AloneAtRows DEF SenderInv
      <3>3. Whole(Files, db[Sender], r)
        BY <2>1, <2>2, <3>2 DEF ListInv
      <3> QED BY <3>1, <3>3, NoRowsFound
    <2>4. /\ \A j \in Dialog \ {k} : RowsOf(Files, db[Sender], request[j], r)
          /\ (\A j \in Dialog \ {k} : ~Writes(request[j], r)) => Whole(Files, db[Sender], r)
      BY <2>1, <2>2 DEF ListInv
    <2> QED BY <1>1, <1>4, <2>1, <2>3, <2>4, OneListStep
  <1> QED BY <1>7, <1>8, <1>10, <1>11 DEF SenderInv, HistoryGrows

LEMMA BeginSender ==
  ASSUME TypesInv, SenderInv, HistoryGrows, NEW k \in Dialog, BeginRows(k)
  PROVE  SenderInv'
  <1> DEFINE q == request[k]
             r0 == q.passed[q.at]
             n == q.at + 1
  <1>1. RequestsInv(request) /\ q \in RequestRows /\ AskingInv(q) /\ \A record : Ask(k, record) => Asks(k, Updated(q, record))
    BY AskFields DEF TypesInv
  <1>2. /\ q.pc = "begin" /\ addition' = addition /\ db' = db
        /\ \/ Begin(Sender) /\ Ask(k, [pc |-> "insert"])
           \/ Denied(Sender) /\ Ask(k, [pc |-> "check", at |-> n])
    BY DEF BeginRows
  <1>3. q.at \in DOMAIN q.passed
    BY <1>1, <1>2 DEF AskingInv, RequestRows
  <1>4. PICK new : /\ Asks(k, new) /\ new.row = q.row /\ Devices(new) = Devices(q)
                   /\ \/ Begin(Sender) /\ new.pc = "insert" /\ new.at = q.at /\ new.passed = q.passed
                      \/ Denied(Sender) /\ new.pc = "check"
    <2> HIDE DEF q, n
    <2>1. CASE Begin(Sender) /\ Ask(k, [pc |-> "insert"])
      <3> DEFINE new == RequestRow("insert", q.todo, q.at, q.row, q.passed, q.failed, q.interrupted)
      <3>1. Asks(k, new)
        BY <1>1, <2>1, UpdatedRequest
      <3> QED BY <2>1, <3>1 DEF RequestRow, Devices
    <2>2. CASE Denied(Sender) /\ Ask(k, [pc |-> "check", at |-> n])
      <3> DEFINE new == RequestRow("check", q.todo, n, q.row, q.passed, q.failed, q.interrupted)
      <3>1. Asks(k, new)
        BY <1>1, <2>2, UpdatedRequest2
      <3> QED BY <2>2, <3>1 DEF RequestRow, Devices
    <2> QED BY <1>2, <2>1, <2>2
  <1>5. request'[k] = new /\ \A j \in Dialog \ {k} : request'[j] = request[j]
    BY <1>1, <1>4, AskedRequest
  <1>6. Active(q) /\ q.row = 1 /\ Len(Files) \in Nat
    <2>1. IsList(Files) /\ Len(Files) \in Nat
      BY FilesAreList, ListLength
    <2> QED BY <1>2, <2>1 DEF Active, SenderInv, RowInv
  <1>7. Apart(request')
    BY <1>1, <1>4, <1>6, ApartStep DEF SenderInv
  <1>8. \A j \in Dialog : RowInv(Files, request'[j])
    <2>1. RowInv(Files, new)
      BY <1>4, <1>6 DEF RowInv
    <2> QED BY <1>5, <2>1 DEF SenderInv
  <1>9. \A r \in Receivers \ early : (\A j \in Dialog : request[j].pc # "insert") => Whole(Files, db[Sender], r)
    BY DEF SenderInv, ListInv, Writes
  <1>10. ASSUME trouble' = 0 PROVE TransactionInv'
    <2>1. TransactionInv
      BY <1>10 DEF SenderInv, HistoryGrows
    <2>2. CASE Denied(Sender) /\ new.pc = "check"
      <3>1. rollback' = rollback
        BY <2>2 DEF Denied
      <3>2. \A j \in Dialog : request'[j].pc = "insert" <=> request[j].pc = "insert"
        BY <1>2, <1>5, <2>2
      <3> QED BY <1>2, <2>1, <3>1, <3>2, TransactionKept DEF HistoryGrows
    <2>3. CASE Begin(Sender) /\ new.pc = "insert"
      <3>1. rollback[Sender] = NoTransaction /\ rollback'[Sender] = <<db[Sender]>>
        BY <2>3, DeviceKinds DEF Begin, TypesInv, StoredInv
      <3>2. \A j \in Dialog : request[j].pc # "insert"
        BY <2>1, <3>1 DEF TransactionInv
      <3>3. \A r \in Receivers \ early' : Whole(Files, rollback'[Sender][1], r)
        BY <1>9, <3>1, <3>2 DEF HistoryGrows
      <3>4. \A i, j \in Dialog : request'[i].pc = "insert" /\ request'[j].pc = "insert" => i = j
        BY <1>5, <3>2
      <3>5. rollback'[Sender] # NoTransaction
        BY <3>1 DEF NoTransaction
      <3>6. Files' = Files /\ addition'.pc = "idle"
        BY <1>2, <2>1 DEF HistoryGrows, TransactionInv
      <3> QED BY <3>3, <3>4, <3>5, <3>6 DEF TransactionInv
    <2> QED BY <1>4, <2>2, <2>3
  <1>11. \A r \in Receivers \ early' : ListInv(Files, db'[Sender], request', r)
    <2> SUFFICES ASSUME NEW r \in Receivers \ early' PROVE ListInv(Files, db[Sender], request', r)
      BY <1>2
    <2>1. ListInv(Files, db[Sender], request, r)
      BY DEF SenderInv, HistoryGrows
    <2>2. ~Writes(q, r)
      BY <1>2 DEF Writes
    <2>3. RowsOf(Files, db[Sender], new, r)
      <3>1. RowsOf(Files, db[Sender], q, r)
        BY <2>1 DEF ListInv
      <3>2. new.pc = "insert" => new.row - 1 = 0
        BY <1>4, <1>6
      <3> QED BY <1>2, <1>4, <3>1, <3>2 DEF RowsOf, Writes
    <2>4. /\ \A j \in Dialog \ {k} : RowsOf(Files, db[Sender], request[j], r)
          /\ (\A j \in Dialog \ {k} : ~Writes(request[j], r)) => Whole(Files, db[Sender], r)
      BY <2>1, <2>2 DEF ListInv
    <2> QED BY <1>1, <1>4, <2>1, <2>3, <2>4, OneListStep
  <1> QED BY <1>7, <1>8, <1>10, <1>11 DEF SenderInv, HistoryGrows

\* A row is written for the device that the request is at.
LEMMA WriteSender ==
  ASSUME TypesInv, SenderInv, HistoryGrows, NEW k \in Dialog, request[k].pc = "insert", request[k].row <= Len(Files),
         Set(Sender, Insert(db[Sender], "transfer",
                            Row(Group, request[k].passed[request[k].at], Files[request[k].row], "Outgoing"))),
         Ask(k, [row |-> request[k].row + 1]), rollback' = rollback, addition' = addition
  PROVE  SenderInv'
  <1> DEFINE q == request[k]
             r0 == q.passed[q.at]
             i == q.row
             left == Insert(db[Sender], "transfer", Row(Group, r0, Files[i], "Outgoing"))
             new == RequestRow("insert", q.todo, q.at, i + 1, q.passed, q.failed, q.interrupted)
  <1>1. RequestsInv(request) /\ q \in RequestRows /\ AskingInv(q) /\ \A record : Ask(k, record) => Asks(k, Updated(q, record))
    BY AskFields DEF TypesInv
  <1>2. db'[Sender] = left /\ IsDatabase(db[Sender])
    BY DeviceKinds DEF Set, TypesInv, StoredInv
  <1>3. q.at \in DOMAIN q.passed
    BY <1>1 DEF AskingInv, RequestRows
  <1>4. Asks(k, new)
    <2>1. q.pc = "insert" /\ Ask(k, [row |-> i + 1])
      OBVIOUS
    <2> HIDE DEF q
    <2> QED BY <1>1, <2>1, UpdatedRequest
  <1>5. new.pc = "insert" /\ new.at = q.at /\ new.passed = q.passed /\ new.row = i + 1 /\ Devices(new) = Devices(q)
    BY DEF RequestRow, Devices
  <1>6. IsList(Files) /\ Len(Files) \in Nat /\ i \in Nat \ {0} /\ i <= Len(Files)
    BY <1>1, FilesAreList, ListLength DEF RequestRows
  <1> HIDE DEF new
  <1>7. request'[k] = new /\ \A j \in Dialog \ {k} : request'[j] = request[j]
    BY <1>1, <1>4, AskedRequest
  <1>8. Apart(request')
    BY <1>1, <1>4, <1>5, ApartStep DEF SenderInv, Active
  <1>9. \A j \in Dialog : RowInv(Files, request'[j])
    <2>1. RowInv(Files, new)
      BY <1>5, <1>6 DEF RowInv
    <2> QED BY <1>7, <2>1 DEF SenderInv
  <1>10. trouble' = 0 => TransactionInv'
    <2>1. \A j \in Dialog : request'[j].pc = "insert" <=> request[j].pc = "insert"
      BY <1>5, <1>7
    <2> QED BY <2>1, TransactionKept DEF SenderInv, HistoryGrows
  <1>11. ASSUME NEW r \in Receivers \ early' PROVE ListInv(Files, left, request', r)
    <2>1. ListInv(Files, db[Sender], request, r)
      BY DEF SenderInv, HistoryGrows
    <2>2. CASE r = r0
      <3>1. \A j \in Dialog \ {k} : RowsOf(Files, left, request[j], r)
        <4>1. \A j \in Dialog \ {k} : ~Writes(request[j], r) /\ ~(request[j].pc = "begin" /\ request[j].passed[request[j].at] = r)
          BY <1>1, <1>3, <2>2, AloneAtRows DEF SenderInv
        <4> QED BY <4>1 DEF RowsOf
      <3>2. Outgoing(Files, left, r, i)
        <4> DEFINE n == i - 1
        <4>1. n \in 0 .. Len(Files) - 1 /\ n + 1 = i
          BY <1>6
        <4>2. Outgoing(Files, db[Sender], r, n)
          BY <2>1, <2>2 DEF ListInv, RowsOf, Writes
        <4> HIDE DEF n
        <4>3. HoldsFirst(Files, Insert(db[Sender], "transfer", Row(Group, r, Files[n + 1], "Outgoing")), r, "Outgoing", n + 1)
          BY <1>2, <1>6, <4>1, <4>2, NextInserted DEF Outgoing
        <4> QED BY <2>2, <4>1, <4>3 DEF Outgoing
      <3>3. RowsOf(Files, left, new, r) /\ Writes(new, r)
        <4>1. new.row - 1 = i
          BY <1>5, <1>6
        <4> QED BY <1>5, <2>2, <3>2, <4>1 DEF RowsOf, Writes
      <3> QED BY <1>1, <1>4, <2>1, <3>1, <3>3, OneListStep
    <2>3. CASE r # r0
      <3>1. ListKept(Files, left, db[Sender], r)
        <4> DEFINE row == Row(Group, r0, Files[i], "Outgoing")
        <4>1. row.deviceId # r
          BY <2>3, RowFields
        <4> HIDE DEF row
        <4>2. \A n : HoldsFirst(Files, db[Sender], r, "Outgoing", n)
                       => HoldsFirst(Files, Insert(db[Sender], "transfer", row), r, "Outgoing", n)
          BY <1>2, <4>1, OtherInserted
        <4> QED BY <4>2 DEF ListKept, Outgoing, row
      <3> HIDE DEF left
      <3>2. \A j \in Dialog : RowsOf(Files, left, request[j], r)
        BY <2>1, <3>1, KeptRows DEF ListInv
      <3>3. ~Writes(q, r) /\ ~Writes(new, r) /\ RowsOf(Files, left, new, r)
        BY <1>5, <2>3 DEF Writes, RowsOf
      <3>4. (\A j \in Dialog \ {k} : ~Writes(request[j], r)) => Whole(Files, left, r)
        BY <2>1, <3>1, <3>3, KeptRows DEF ListInv
      <3> QED BY <1>1, <1>4, <2>1, <3>2, <3>3, <3>4, OneListStep
    <2> QED BY <2>2, <2>3
  <1> HIDE DEF left
  <1> QED BY <1>2, <1>8, <1>9, <1>10, <1>11 DEF SenderInv, HistoryGrows

\* The last row was written: the list is whole when the transaction ends.
LEMMA CommitSender ==
  ASSUME TypesInv, SenderInv, HistoryGrows, NEW k \in Dialog, request[k].pc = "insert", request[k].row > Len(Files),
         Commit(Sender), db' = db, addition' = addition,
         Ask(k, [pc |-> IF request[k].interrupted THEN "ended" ELSE "check", at |-> request[k].at + 1, row |-> 1])
  PROVE  SenderInv'
  <1> DEFINE q == request[k]
             n == q.at + 1
             p == IF q.interrupted THEN "ended" ELSE "check"
             new == RequestRow(p, q.todo, n, 1, q.passed, q.failed, q.interrupted)
  <1>1. RequestsInv(request) /\ q \in RequestRows /\ AskingInv(q) /\ \A record : Ask(k, record) => Asks(k, Updated(q, record))
    BY AskFields DEF TypesInv
  <1>2. Asks(k, new)
    <2>1. q.pc = "insert" /\ Ask(k, [pc |-> p, at |-> n, row |-> 1])
      OBVIOUS
    <2> HIDE DEF q, n, p
    <2> QED BY <1>1, <2>1, UpdatedRequest3
  <1>3. new.pc \in {"ended", "check"} /\ new.row = 1 /\ Devices(new) = Devices(q)
    BY DEF RequestRow, Devices
  <1>4. rollback'[Sender] = NoTransaction
    BY DeviceKinds DEF Commit, TypesInv, StoredInv
  <1> HIDE DEF new
  <1>5. request'[k] = new /\ \A j \in Dialog \ {k} : request'[j] = request[j]
    BY <1>1, <1>2, AskedRequest
  <1>6. Apart(request')
    BY <1>1, <1>2, <1>3, ApartStep DEF SenderInv, Active
  <1>7. \A j \in Dialog : RowInv(Files, request'[j])
    <2>1. RowInv(Files, new)
      BY <1>3 DEF RowInv
    <2> QED BY <1>5, <2>1 DEF SenderInv
  <1>8. ASSUME trouble' = 0 PROVE TransactionInv'
    <2>1. TransactionInv
      BY <1>8 DEF SenderInv, HistoryGrows
    <2>2. \A j \in Dialog : request'[j].pc # "insert"
      BY <1>3, <1>5, <2>1 DEF TransactionInv
    <2> QED BY <1>4, <2>1, <2>2 DEF TransactionInv
  <1>9. q.row - 1 = Len(Files)
    <2>1. IsList(Files) /\ Len(Files) \in Nat
      BY FilesAreList, ListLength
    <2>2. q.row <= Len(Files) + 1 /\ q.row \in Nat
      BY <1>1 DEF SenderInv, RowInv, RequestRows
    <2> QED BY <2>1, <2>2
  <1>10. ASSUME NEW r \in Receivers \ early' PROVE ListInv(Files, db[Sender], request', r)
    <2>1. ListInv(Files, db[Sender], request, r)
      BY DEF SenderInv, HistoryGrows
    <2>2. Writes(q, r) => Whole(Files, db[Sender], r)
      BY <1>9, <2>1 DEF ListInv, RowsOf, Whole
    <2>3. RowsOf(Files, db[Sender], new, r)
      BY <1>3 DEF RowsOf, Writes
    <2>4. /\ \A j \in Dialog \ {k} : RowsOf(Files, db[Sender], request[j], r)
          /\ (\A j \in Dialog \ {k} : ~Writes(request[j], r)) => Whole(Files, db[Sender], r)
      BY <2>1, <2>2 DEF ListInv
    <2> QED BY <1>1, <1>2, <2>1, <2>3, <2>4, OneListStep
  <1> QED BY <1>6, <1>7, <1>8, <1>10 DEF SenderInv, HistoryGrows

LEMMA InsertSender ==
  ASSUME TypesInv, SenderInv, HistoryGrows, NEW k \in Dialog, InsertRow(k)
  PROVE  SenderInv'
  <1>1. \/ /\ request[k].pc = "insert" /\ request[k].row <= Len(Files) /\ rollback' = rollback /\ addition' = addition
           /\ Set(Sender, Insert(db[Sender], "transfer",
                                 Row(Group, request[k].passed[request[k].at], Files[request[k].row], "Outgoing")))
           /\ Ask(k, [row |-> request[k].row + 1])
        \/ /\ request[k].pc = "insert" /\ request[k].row > Len(Files) /\ Commit(Sender) /\ db' = db /\ addition' = addition
           /\ Ask(k, [pc |-> IF request[k].interrupted THEN "ended" ELSE "check", at |-> request[k].at + 1, row |-> 1])
    BY DEF InsertRow
  <1> QED BY <1>1, WriteSender, CommitSender

\* A dialog that asks devices of another one is where two requests meet.
LEMMA StartSender ==
  ASSUME TypesInv, SenderInv, HistoryGrows, Sender \notin overlap', NEW k \in Dialog, NEW devices \in Seq(Receivers),
         StartTask(k, devices)
  PROVE  SenderInv'
  <1> DEFINE q == request[k]
  <1>1. RequestsInv(request) /\ q \in RequestRows
    BY AskFields DEF TypesInv
  <1>2. /\ q.pc = "idle" /\ q.passed = <<>>
        /\ \/ Asks(k, RequestRow("next", devices, q.at, q.row, q.passed, q.failed, q.interrupted))
           \/ Asks(k, RequestRow("ended", q.todo, q.at, q.row, q.passed, q.failed, q.interrupted))
    BY <1>1, StartAsks
  <1>3. PICK new : /\ Asks(k, new) /\ new.row = q.row
                   /\ new.pc = "ended" \/ (new.pc = "next" /\ Devices(new) = ToSet(devices))
    <2>1. ToSet(<<>>) = {}
      BY DEF ToSet
    <2> QED BY <1>2, <2>1 DEF RequestRow, Devices
  <1>4. db' = db /\ rollback' = rollback /\ addition' = addition
    BY DEF StartTask, stored
  <1>5. request'[k] = new /\ \A j \in Dialog \ {k} : request'[j] = request[j]
    BY <1>1, <1>3, AskedRequest
  <1>6. \A j \in Dialog, r \in ToSet(devices) : ~(Active(request[j]) /\ r \in Devices(request[j]))
    <2>1. overlap' = IF \E j \in Dialog, r \in ToSet(devices) : Concerns(j, r) THEN overlap \cup {Sender} ELSE overlap
      BY DEF StartTask
    <2>2. \A j \in Dialog, r \in ToSet(devices) : ~Concerns(j, r)
      BY <2>1
    <2> QED BY <2>2 DEF Concerns, Running, Active, Devices
  <1>7. Apart(request')
    <2> SUFFICES ASSUME NEW i \in Dialog, NEW j \in Dialog, NEW r \in Receivers,
                        Active(request'[i]), Active(request'[j]), r \in Devices(request'[i]), r \in Devices(request'[j])
                 PROVE  i = j
      BY DEF Apart
    <2>1. CASE i # k /\ j # k
      BY <1>5, <2>1 DEF SenderInv, Apart
    <2>2. CASE i = k /\ j # k
      BY <1>3, <1>5, <1>6, <2>2 DEF Active
    <2>3. CASE j = k /\ i # k
      BY <1>3, <1>5, <1>6, <2>3 DEF Active
    <2> QED BY <2>1, <2>2, <2>3
  <1>8. \A j \in Dialog : RowInv(Files, request'[j])
    <2>1. RowInv(Files, new)
      BY <1>2, <1>3 DEF SenderInv, RowInv
    <2> QED BY <1>5, <2>1 DEF SenderInv
  <1>9. trouble' = 0 => TransactionInv'
    <2>1. \A j \in Dialog : request'[j].pc = "insert" <=> request[j].pc = "insert"
      BY <1>2, <1>3, <1>5
    <2> QED BY <1>4, <2>1, TransactionKept DEF SenderInv, HistoryGrows
  <1>10. ASSUME NEW r \in Receivers \ early' PROVE ListInv(Files, db[Sender], request', r)
    <2>1. ListInv(Files, db[Sender], request, r)
      BY DEF SenderInv, HistoryGrows
    <2>2. ~Writes(q, r) /\ RowsOf(Files, db[Sender], new, r)
      BY <1>2, <1>3 DEF RowsOf, Writes
    <2>4. /\ \A j \in Dialog \ {k} : RowsOf(Files, db[Sender], request[j], r)
          /\ (\A j \in Dialog \ {k} : ~Writes(request[j], r)) => Whole(Files, db[Sender], r)
      BY <2>1, <2>2 DEF ListInv
    <2> QED BY <1>1, <1>3, <2>1, <2>2, <2>4, OneListStep
  <1> QED BY <1>4, <1>7, <1>8, <1>9, <1>10 DEF SenderInv, HistoryGrows

\* Steps that move no request: the lists are kept, or nobody is at those that are taken.
LEMMA StillSender ==
  ASSUME TypesInv, SenderInv, HistoryGrows, request' = request,
         \A r \in Receivers \ early' :
           \/ ListKept(Files, db'[Sender], db[Sender], r)
           \/ /\ \A k \in Dialog : ~Concerns(k, r)
              /\ \A n : Outgoing(Files, db[Sender], r, n) => Outgoing(Files, db'[Sender], r, 0),
         trouble' = 0 => TransactionInv'
  PROVE  SenderInv'
  <1>1. RequestsInv(request) /\ \A k \in Dialog : RowInv(Files, request[k])
    BY DEF TypesInv, SenderInv
  <1>2. ASSUME NEW r \in Receivers \ early' PROVE ListInv(Files, db'[Sender], request, r)
    <2>1. ListInv(Files, db[Sender], request, r)
      BY DEF SenderInv, HistoryGrows
    <2>2. CASE ListKept(Files, db'[Sender], db[Sender], r)
      BY <2>1, <2>2, SameRequestsStep
    <2>3. CASE /\ \A k \in Dialog : ~Concerns(k, r)
               /\ \A n : Outgoing(Files, db[Sender], r, n) => Outgoing(Files, db'[Sender], r, 0)
      BY <1>1, <2>1, <2>3, TakenList
    <2> QED BY <2>2, <2>3
  <1> QED BY <1>1, <1>2 DEF SenderInv, HistoryGrows

LEMMA StillTransaction ==
  ASSUME SenderInv, HistoryGrows, request' = request, addition' = addition, rollback'[Sender] = rollback[Sender]
  PROVE  trouble' = 0 => TransactionInv'
  BY TransactionKept DEF SenderInv, HistoryGrows

\* A refusal takes a list while no request concerns the device, or the device is early.
LEMMA ResponseSender ==
  ASSUME TypesInv, SenderInv, HistoryGrows, NEW k \in Dialog, NEW x \in Receivers,
         ServeResponse(k, x) \/ TakeResponse(k, x)
  PROVE  SenderInv'
  <1>1. StoredInv(db, rollback) /\ Sender \in Device /\ IsDatabase(db[Sender]) /\ DOMAIN db = Device
    BY DeviceKinds DEF TypesInv, StoredInv
  <1>2. request' = request /\ addition' = addition /\ rollback' = rollback
    BY DEF ServeResponse, TakeResponse, sender
  <1>3. trouble' = 0 => TransactionInv'
    BY <1>2, StillTransaction
  <1> DEFINE linked == Record(Sender, x)
  <1>4. /\ linked["transfer"] = db[Sender]["transfer"] /\ Forget(Sender, x)["transfer"] = db[Sender]["transfer"]
        /\ IsDatabase(linked)
    BY <1>1, ConnectionStores, ConnectionsKeepList DEF SameList, ChangesOnly
  <1>5. \/ db'[Sender]["transfer"] = db[Sender]["transfer"]
        \/ db'[Sender] = RefusedBy(linked, x) /\ EarlyWithout({x})
    BY <1>1, <1>4 DEF ServeResponse, TakeResponse, Set
  <1> HIDE DEF linked
  <1>6. ASSUME NEW r \in Receivers \ early', ~ListKept(Files, db'[Sender], db[Sender], r)
        PROVE  /\ \A j \in Dialog : ~Concerns(j, r)
               /\ \A n : Outgoing(Files, db[Sender], r, n) => Outgoing(Files, db'[Sender], r, 0)
    <2>1. db'[Sender] = RefusedBy(linked, x) /\ EarlyWithout({x})
      BY <1>5, <1>6, SameTableKept
    <2>2. \A n : Outgoing(Files, db[Sender], r, n) <=> Outgoing(Files, linked, r, n)
      BY <1>4, SameRowsHold DEF Outgoing
    <2>3. \A n : Outgoing(Files, linked, r, n) => Outgoing(Files, db'[Sender], r, IF r = x THEN 0 ELSE n)
      BY <1>4, <2>1, RefusedHolds DEF Outgoing
    <2>4. r = x
      BY <1>6, <2>2, <2>3 DEF ListKept
    <2>5. \A j \in Dialog : ~Concerns(j, r)
      BY <2>1, <2>4 DEF EarlyWithout
    <2> QED BY <2>2, <2>3, <2>4, <2>5
  <1> QED BY <1>2, <1>3, <1>6, StillSender

LEMMA RemovalSender ==
  ASSUME TypesInv, SenderInv, HistoryGrows, RemoveTransfer(Sender)
  PROVE  SenderInv'
  <1>1. /\ db'[Sender] = RemoveGroup(db[Sender], Group) /\ IsDatabase(db[Sender]) /\ EarlyWithout(Receivers)
        /\ request' = request /\ addition' = addition /\ rollback' = rollback
    BY DeviceKinds DEF RemoveTransfer, Set, TypesInv, StoredInv, sender
  <1>2. trouble' = 0 => TransactionInv'
    BY <1>1, StillTransaction
  <1>3. ASSUME NEW r \in Receivers \ early'
        PROVE  /\ \A j \in Dialog : ~Concerns(j, r)
               /\ \A n : Outgoing(Files, db[Sender], r, n) => Outgoing(Files, db'[Sender], r, 0)
    BY <1>1, RemovedGroupHolds DEF EarlyWithout, Outgoing
  <1> QED BY <1>1, <1>2, <1>3, StillSender

\* The other group is added without trouble to the lists.
LEMMA AdditionSender ==
  ASSUME TypesInv, SenderInv, HistoryGrows, StartAddition \/ AddRow \/ CommitAddition
  PROVE  SenderInv'
  <1>1. request' = request
    BY DEF StartAddition, AddRow, CommitAddition
  <1>2. db'[Sender]["transfer"] = db[Sender]["transfer"]
    BY AdditionTables, RowTables DEF TypesInv, ChangesOnly
  <1>3. trouble' = 0 => TransactionInv'
    <2> SUFFICES ASSUME trouble' = 0 PROVE FALSE
      OBVIOUS
    <2>1. trouble = 0 /\ addition.pc = "idle"
      BY DEF SenderInv, HistoryGrows, TransactionInv
    <2>2. StartAddition
      BY <2>1 DEF AddRow, CommitAddition
    <2> QED BY <2>1, <2>2 DEF StartAddition, Trouble
  <1>4. \A r \in Receivers \ early' : ListKept(Files, db'[Sender], db[Sender], r)
    BY <1>2, SameTableKept
  <1> QED BY <1>1, <1>3, <1>4, StillSender

\* The first trouble may be a crash: it brings back lists that are whole, and the requests are over.
LEMMA CrashingSender ==
  ASSUME TypesInv, SenderInv, HistoryGrows, trouble' < 2, trouble \in Nat, CrashSender
  PROVE  SenderInv'
  <1>1. /\ Sender \in Device /\ DOMAIN db = Device
        /\ db'[Sender] = IF rollback[Sender] = NoTransaction THEN db[Sender] ELSE rollback[Sender][1]
    BY DeviceKinds DEF CrashSender, TypesInv, StoredInv
  <1>2. \A k \in Dialog : request'[k].pc = "ended"
    BY CrashEnds
  <1>3. trouble = 0 /\ trouble' = 1
    <2>1. trouble' = trouble + 1
      BY DEF CrashSender, Trouble
    <2> QED BY <2>1
  <1>4. TransactionInv
    BY <1>3 DEF SenderInv
  <1>5. ASSUME NEW r \in Receivers \ early' PROVE ListInv(Files, db'[Sender], request', r)
    <2>1. ListInv(Files, db[Sender], request, r)
      BY DEF SenderInv, HistoryGrows
    <2>2. Whole(Files, db'[Sender], r)
      <3>1. CASE rollback[Sender] = NoTransaction
        BY <1>1, <1>4, <2>1, <3>1 DEF TransactionInv, ListInv, Writes
      <3>2. CASE rollback[Sender] # NoTransaction
        BY <1>1, <1>4, <3>2 DEF TransactionInv, HistoryGrows
      <3> QED BY <3>1, <3>2
    <2>3. \A k \in Dialog : ~Writes(request'[k], r) /\ RowsOf(Files, db'[Sender], request'[k], r)
      BY <1>2 DEF Writes, RowsOf
    <2> QED BY <2>2, <2>3 DEF ListInv
  <1>6. Apart(request')
    BY <1>2 DEF Apart, Active
  <1>7. \A k \in Dialog : RowInv(Files, request'[k])
    BY <1>2 DEF RowInv
  <1> QED BY <1>3, <1>5, <1>6, <1>7 DEF SenderInv, HistoryGrows

\* What happens at a receiver leaves the lists of the sender alone.
LEMMA ReceiverStill ==
  ASSUME TypesInv, SenderInv, HistoryGrows, NEW x \in Receivers,
         \/ \E k \in Dialog :
              \/ OfferThread(k, x)
              \/ LookUpAnswered(k, x) \/ RemoveRefused(k, x) \/ FindConnection(k, x) \/ SendResponse(k, x)
              \/ \E accepted \in BOOLEAN : Answer(k, x, accepted)
         \/ RemoveTransfer(x) \/ CrashReceiver(x)
  PROVE  SenderInv'
  <1>1. request' = request /\ addition' = addition
    BY DEF OfferThread, ServeRequest, ReplyTrue, LookUpGroup, PublishGroup, PublishAssignee, BeginOffer, InsertOffer,
           LookUpAnswered, RemoveRefused, FindConnection, SendResponse, Answer, RemoveTransfer, CrashReceiver, sender
  <1>2. db'[Sender] = db[Sender] /\ rollback'[Sender] = rollback[Sender]
    <2>1. Sender \in Device /\ x \in Device /\ x # Sender /\ DOMAIN db = Device /\ DOMAIN rollback = Device
      BY DeviceKinds DEF TypesInv, StoredInv
    <2>2. CASE CrashReceiver(x)
      BY <2>1, <2>2 DEF CrashReceiver, Commit
    <2>3. CASE RemoveTransfer(x)
      BY <2>1, <2>3 DEF RemoveTransfer, GroupRemoved, Set
    <2>4. CASE ~CrashReceiver(x) /\ ~RemoveTransfer(x)
      BY <2>4, OfferStores, AnswerStores
    <2> QED BY <2>2, <2>3, <2>4
  <1>3. trouble' = 0 => TransactionInv'
    BY <1>1, <1>2, StillTransaction
  <1>4. \A r \in Receivers \ early' : ListKept(Files, db'[Sender], db[Sender], r)
    BY <1>2, SameTableKept
  <1> QED BY <1>1, <1>3, <1>4, StillSender

LEMMA SenderStep ==
  ASSUME TypesInv, SenderListsInv, [RequestsNext]_requestVars
  PROVE  SenderListsInv'
  <1>1. /\ overlap \subseteq overlap' /\ early \subseteq early' /\ plan' = plan
        /\ trouble \in Nat /\ trouble' \in {trouble, trouble + 1} /\ plan \in Plans
    BY HistoryStep DEF TypesInv, HistoryInv
  <1>2. HistoryGrows
    BY <1>1 DEF HistoryGrows, Files
  <1> SUFFICES ASSUME Sender \notin overlap', trouble' < 2 PROVE SenderInv'
    BY DEF SenderListsInv
  <1>3. SenderInv
    BY <1>1 DEF SenderListsInv
  <1>4. CASE UNCHANGED requestVars
    <2>1. request' = request /\ db' = db /\ rollback' = rollback /\ addition' = addition
      BY <1>4 DEF requestVars, stored, sender
    <2>2. trouble' = 0 => TransactionInv'
      BY <1>2, <1>3, <2>1, StillTransaction
    <2>3. \A r \in Receivers \ early' : ListKept(Files, db'[Sender], db[Sender], r)
      BY <2>1, SameTableKept
    <2> QED BY <1>2, <1>3, <2>1, <2>2, <2>3, StillSender
  <1>5. ASSUME NEW k \in Dialog, RequestThread(k) \/ Interrupt(k) PROVE SenderInv'
    BY <1>2, <1>3, <1>5, QuietSender, CheckSender, BeginSender, InsertSender DEF RequestThread
  <1>6. ASSUME NEW k \in Dialog, Retry(k) \/ StartRequest(k) PROVE SenderInv'
    <2>1. CASE StartRequest(k)
      <3>1. plan.devices \in Seq(Seq(Receivers)) /\ k \in DOMAIN plan.devices
        BY <1>1, <2>1, PlansAssumption DEF StartRequest
      <3>2. plan.devices[k] \in Seq(Receivers)
        BY <3>1, ElementOfSeq
      <3> QED BY <1>2, <1>3, <2>1, <3>2, StartSender DEF StartRequest
    <2>2. CASE Retry(k)
      <3>1. request[k].failed \in Seq(Receivers) /\ k + 1 \in Dialog
        BY <2>2, AskFields DEF Retry, RequestRows, TypesInv
      <3> QED BY <1>2, <1>3, <2>2, <3>1, StartSender DEF Retry
    <2> QED BY <1>6, <2>1, <2>2
  <1>7. ASSUME NEW k \in Dialog, NEW x \in Receivers,
               OfferThread(k, x) \/ AnswerThread(k, x) \/ \E accepted \in BOOLEAN : Answer(k, x, accepted)
        PROVE  SenderInv'
    BY <1>2, <1>3, <1>7, ReceiverStill, ResponseSender DEF AnswerThread
  <1>8. CASE StartAddition \/ AddRow \/ CommitAddition
    BY <1>2, <1>3, <1>8, AdditionSender
  <1>9. ASSUME NEW d \in Device, RemoveTransfer(d) PROVE SenderInv'
    BY <1>2, <1>3, <1>9, RemovalSender, ReceiverStill DEF Device
  <1>10. CASE CrashSender
    BY <1>1, <1>2, <1>3, <1>10, CrashingSender
  <1>11. ASSUME NEW x \in Receivers, CrashReceiver(x) PROVE SenderInv'
    BY <1>2, <1>3, <1>11, ReceiverStill
  <1> QED
    BY <1>4, <1>5, <1>6, <1>7, <1>8, <1>9, <1>10, <1>11 DEF RequestsNext

LEMMA SenderStart == RequestsInit => SenderListsInv
  <1> SUFFICES ASSUME RequestsInit PROVE SenderInv
    BY DEF SenderListsInv
  <1>1. db[Sender]["transfer"] = <<>>
    BY InitTypes
  <1>2. \A k \in Dialog : request[k].pc = "idle" /\ request[k].row = 1
    BY DEF RequestsInit
  <1>3. addition.pc = "idle" /\ rollback[Sender] = NoTransaction
    BY DeviceKinds DEF RequestsInit
  <1>4. ASSUME NEW r \in Receivers PROVE ListInv(Files, db[Sender], request, r)
    <2>1. Outgoing(Files, db[Sender], r, 0)
      BY <1>1 DEF Outgoing, HoldsFirst, ToSet
    <2> QED BY <1>2, <2>1 DEF ListInv, RowsOf, Writes, Whole
  <1> QED
    BY <1>2, <1>3, <1>4 DEF SenderInv, Apart, Active, RowInv, TransactionInv

-----------------------------------------------------------------------------
(* Lists are whole *)

\* A settled list is found whole, and the list that is complete is found.
LEMMA IncomingFound ==
  ASSUME NEW files, IsList(files), NEW data, IsDatabase(data), NEW n \in 0 .. Len(files), Incoming(files, data, n)
  PROVE  /\ Len(Rows(data, ShareOf(Group, Sender))) = n
         /\ {row.id : row \in ToSet(Rows(data, ShareOf(Group, Sender)))} = {files[i] : i \in 1 .. n}
         /\ Has(data, ShareOf(Group, Sender)) <=> n > 0
  <1> DEFINE S == ShareOf(Group, Sender)
  <1>1. S.table = "transfer" /\ \A row : Matches(row, S.where) <=> row.groupId = Group /\ row.deviceId = Sender
    BY DEF ShareOf, Matches
  <1>2. \A row \in ToSet(data["transfer"]) : row.deviceId = Sender => row.groupId = Group
    BY RowFields DEF Incoming, HoldsFirst
  <1> HIDE DEF S
  <1>3. \A row \in ToSet(data["transfer"]) : Matches(row, S.where) <=> row.deviceId = Sender
    BY <1>1, <1>2
  <1>4. /\ Len(Rows(data, S)) = n
        /\ {row.id : row \in ToSet(Rows(data, S))} = {files[i] : i \in 1 .. n}
        /\ Has(data, S) <=> n > 0
    BY <1>1, <1>3, LengthOfList DEF Incoming
  <1> QED BY <1>4 DEF S

LEMMA ListsFollow ==
  ASSUME TypesInv, ReceiversInv, SenderListsInv
  PROVE  ListsAreWhole
  <1>1. /\ IsList(Files) /\ Len(Files) \in Nat /\ Len(Files) > 0 /\ Sender \in Device
        /\ \A d \in Device : IsDatabase(db[d])
    BY FilesAreList, ListLength, DeviceKinds DEF TypesInv, StoredInv
  <1> SUFFICES ASSUME NEW r \in Receivers
               PROVE  /\ r \notin overlap /\ (\A k \in Dialog : ~Inserting(k, r)) =>
                           /\ \E n \in counts[r] : AreFirst(Rows(db[r], ShareOf(Group, Sender)), n)
                           /\ dialogs[r] # <<>> /\ Has(db[r], WhereGroup(Group)) =>
                                Has(db[r], ShareOf(Group, Sender)) \/ \E k \in Dialog : offer[k][r].pc = "dropped"
                      /\ r \notin early /\ Sender \notin overlap /\ trouble < 2
                           /\ (\A k \in Dialog : request[k].pc # "insert")
                           => \E n \in {0, Len(Files)} : AreFirst(Rows(db[Sender], OutgoingOf(Group, r)), n)
    BY DEF ListsAreWhole
  <1>2. ASSUME r \notin overlap, \A k \in Dialog : ~Inserting(k, r)
        PROVE  /\ \E n \in counts[r] : AreFirst(Rows(db[r], ShareOf(Group, Sender)), n)
               /\ dialogs[r] # <<>> /\ Has(db[r], WhereGroup(Group)) =>
                    Has(db[r], ShareOf(Group, Sender)) \/ \E k \in Dialog : offer[k][r].pc = "dropped"
    <2>1. ReceiverInv(r) /\ IsDatabase(db[r]) /\ counts[r] \subseteq 0 .. Len(Files)
      BY <1>1, <1>2, DeviceKinds DEF ReceiversInv, TypesInv, CountsInv
    <2>2. Settled(Files, counts[r], db[r])
      BY <1>2, <2>1 DEF ReceiverInv, Inserting
    <2>3. ASSUME NEW n \in counts[r], Incoming(Files, db[r], n)
          PROVE  AreFirst(Rows(db[r], ShareOf(Group, Sender)), n) /\ (Has(db[r], ShareOf(Group, Sender)) <=> n > 0)
      BY <1>1, <2>1, <2>3, IncomingFound DEF AreFirst
    <2>4. \E n \in counts[r] : AreFirst(Rows(db[r], ShareOf(Group, Sender)), n)
      BY <2>2, <2>3 DEF Settled
    <2>5. ASSUME dialogs[r] # <<>>, Has(db[r], WhereGroup(Group))
          PROVE  Has(db[r], ShareOf(Group, Sender)) \/ \E k \in Dialog : offer[k][r].pc = "dropped"
      <3>1. Filled(Files, counts[r], db[r]) \/ \E k \in Dialog : offer[k][r].pc = "dropped"
        BY <1>2, <2>1, <2>5 DEF ReceiverInv, GroupKnown
      <3>2. ASSUME Filled(Files, counts[r], db[r]) PROVE Has(db[r], ShareOf(Group, Sender))
        <4>1. PICK n \in counts[r] \ {0} : Incoming(Files, db[r], n)
          BY <3>2 DEF Filled
        <4>2. n > 0
          BY <1>1, <2>1
        <4> QED BY <2>3, <4>1, <4>2
      <3> QED BY <3>1, <3>2
    <2> QED BY <2>4, <2>5
  <1>3. ASSUME r \notin early, Sender \notin overlap, trouble < 2, \A k \in Dialog : request[k].pc # "insert"
        PROVE  \E n \in {0, Len(Files)} : AreFirst(Rows(db[Sender], OutgoingOf(Group, r)), n)
    <2>1. ListInv(Files, db[Sender], request, r)
      BY <1>3 DEF SenderListsInv, SenderInv
    <2>2. Whole(Files, db[Sender], r)
      BY <1>3, <2>1 DEF ListInv, Writes
    <2>3. PICK n \in {0, Len(Files)} : Outgoing(Files, db[Sender], r, n)
      BY <2>2 DEF Whole
    <2>4. n \in 0 .. Len(Files)
      BY <1>1, <2>3
    <2>5. OutgoingRows(Files, db[Sender], r, n)
      BY <1>1, <2>3, <2>4, OutgoingFound
    <2> QED BY <2>5 DEF OutgoingRows, AreFirst
  <1> QED BY <1>2, <1>3

\* At a receiver one thread is at the rows of the list, what it has found out of them remains true
\* until it inserts, and what a crash brings back is a list that has come; so at the sender, where
\* no device is asked by two requests, and the transaction of a request stays open until its rows
\* are there (CommunicationServer::connected, TransferRequestProgressDialog::task).
THEOREM ListsInvariant == RequestsSpec => [](TypesInv /\ ReceiversInv /\ SenderListsInv)
  <1>1. RequestsInit => TypesInv /\ ReceiversInv /\ SenderListsInv
    BY InitTypes, ReceiversStart, SenderStart
  <1>2. TypesInv /\ ReceiversInv /\ SenderListsInv /\ [RequestsNext]_requestVars
          => (TypesInv /\ ReceiversInv /\ SenderListsInv)'
    BY TypesStep, ReceiversStep, SenderStep
  <1> QED
    BY <1>1, <1>2, PTL DEF RequestsSpec

\* When no thread inserts, a receiver has each file once of those that one of the requests to it
\* lists, or none, and the sender has all of them for it, or none, whatever is cut short, asked again,
\* refused, removed or lost in a crash; and users are asked for lists that are there
\* (ListsAreWhole).
THEOREM ListsStayWhole == RequestsSpec => []ListsAreWhole
  <1>1. TypesInv /\ ReceiversInv /\ SenderListsInv => ListsAreWhole
    BY ListsFollow
  <1> QED
    BY <1>1, ListsInvariant, PTL
================================================================================
