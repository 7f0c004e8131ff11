--------------------------- MODULE TransferRequests ---------------------------
(***************************************************************************)
(* How files are offered: a device divides them into rows, asks other      *)
(* devices to take them, and is told what their users decide.              *)
(*                                                                         *)
(*   FileAdditionProgressDialog       another group is being added         *)
(*   TransferRequestProgressDialog    asks one device after another        *)
(*   CommunicationServer              takes the request in, a thread of    *)
(*                                    its own inserts the rows             *)
(*   MainWindow::showTransferRequest  asks the user and sends the answer   *)
(*                                                                         *)
(* Every call of the database is a step on the main thread of its device,  *)
(* and the steps of the threads interleave between any two calls; lookups  *)
(* that follow each other are one step when one removal deletes all they   *)
(* look for.  The receivers know the sender and do not restrict it.        *)
(***************************************************************************)
EXTENDS AccessDatabase, FiniteSets

CONSTANTS
  Sender, Receivers,
  Requests,       \* bound: number of request dialogs
  Plans           \* bound: the files, the form in which a request lists them, the devices the user
                  \* picks for each dialog, and how many failures, crashes, removals,
                  \* interruptions and other additions there may be

\* A device does not ask itself, and asks devices of the network.  A group has files, which are
\* numbered one after the other.  This program lists them as an array and reads them from a text:
\* where a list is a text, one of the two devices runs another program that is like it otherwise.
ASSUME PlansAssumption ==
  /\ IsFiniteSet(Receivers) /\ Sender \notin Receivers
  /\ Requests \in Nat
  /\ \A p \in Plans :
       /\ p.files \in Seq(Nat) \ {<<>>} /\ \A i, j \in DOMAIN p.files : p.files[i] = p.files[j] => i = j
       /\ p.form \in {"array", "text"} /\ p.devices \in Seq(Seq(Receivers)) /\ p.trouble \in Nat

Device == {Sender} \cup Receivers
Dialog == 1 .. Requests
Group  == "group"       \* the group that is offered
Other  == "other"       \* the group that is added meanwhile

VARIABLES
  db,                     \* of every device
  rollback,               \* what a crash brings back while a transaction is open
  request,                \* the dialogs of the sender
  addition,               \* the thread that adds the other group
  call,                   \* the connection of dialog k to receiver r
  listed,                 \* how many of the files, from the first, the request of k to r lists
  offer,                  \* the thread at r that takes in the request of dialog k, then the answer
  response,               \* the connection with the answer of r to dialog k
  dialogs,                \* at r: the dialogs on the screen, the one on top last
  plan,                   \* one of Plans
  trouble, early, overlap, counts \* history

stored      == <<db, rollback>>
sender      == <<request, addition>>
wires       == <<call, listed, response>>
receivers   == <<offer, dialogs>>
history     == <<plan, trouble, early, overlap, counts>>
requestVars == <<stored, sender, wires, receivers, history>>

NoTransaction == <<>>   \* otherwise the database at the beginning, as the only element

Row(g, d, id, type) == [groupId |-> g, id |-> id, deviceId |-> d, type |-> type, flag |-> "Pending"]
Files       == plan.files    \* the request ids of the files of the group
Division(g) == [i \in DOMAIN Files |-> Row(g, "null", Files[i], "Outgoing")]

\* Every device knows the other ones by their addresses, all in one subnet.
Known(others) ==
  LET list == SetToSeq(others)
  IN  [NewDatabase EXCEPT
         !["devices"] = [i \in DOMAIN list |-> [deviceId |-> list[i]]],
         !["deviceConnection"] = [i \in DOMAIN list |->
            [deviceId |-> list[i], adapterName |-> "lan", ipAddress |-> list[i]]]]

RequestsInit ==
  /\ plan \in Plans
  /\ db = [d \in Device |-> IF d \in Receivers THEN Known({Sender})
                            ELSE [Known(Receivers) EXCEPT !["transferGroup"] = <<[id |-> Group]>>,
                                                          !["divisTransfer"] = Division(Group)]]
  /\ rollback = [d \in Device |-> NoTransaction]
  /\ request = [k \in Dialog |-> [pc |-> "idle", todo |-> <<>>, at |-> 1, row |-> 1, passed |-> <<>>,
                                  failed |-> <<>>, interrupted |-> FALSE]]
  /\ addition = [pc |-> "idle", row |-> 1]
  /\ call = [k \in Dialog |-> [r \in Receivers |-> "none"]]
  /\ listed = [k \in Dialog |-> [r \in Receivers |-> 0]]
  /\ response = [k \in Dialog |-> [r \in Receivers |-> "none"]]
  /\ offer = [k \in Dialog |-> [r \in Receivers |->
                [pc |-> "none", publishing |-> FALSE, row |-> 1, count |-> 0, accepted |-> FALSE]]]
  /\ dialogs = [r \in Receivers |-> <<>>]
  /\ trouble = 0 /\ early = {} /\ overlap = {} /\ counts = [r \in Receivers |-> {0}]

RequestsTypeOK ==
  /\ DOMAIN db = Device
  /\ \A d \in Device : Len(rollback[d]) \in 0 .. 1
  /\ \A k \in Dialog : request[k].pc \in
       {"idle", "next", "link", "await", "publish", "check", "begin", "insert", "ended"}
  /\ addition.pc \in {"idle", "insert", "commit", "ended"}
  /\ call \in [Dialog -> [Receivers -> {"none", "asked", "serving", "true", "over"}]]
  /\ listed \in [Dialog -> [Receivers -> 0 .. Len(Files)]]
  /\ response \in [Dialog -> [Receivers -> {"none", "sent", "serving", "over", "lost"}]]
  /\ \A k \in Dialog, r \in Receivers : offer[k][r].pc \in
       {"none", "lookup", "group", "assignee", "begin", "insert", "commit", "dropped",
        "asking", "answered", "remove", "connection", "link", "done"}
  /\ \A r \in Receivers : ToSet(dialogs[r]) \subseteq Dialog
  /\ trouble \in 0 .. plan.trouble /\ early \subseteq Receivers /\ overlap \subseteq Device
  /\ counts \in [Receivers -> SUBSET (0 .. Len(Files))]

-----------------------------------------------------------------------------
(* What the threads share *)

Set(d, new) == db' = [db EXCEPT ![d] = new]
Trouble     == trouble < plan.trouble /\ trouble' = trouble + 1

\* Defect: a transaction may be opened inside another one.
BeginInside(d) == rollback' = [rollback EXCEPT ![d] = Append(@, db[d])]

\* Defect: the transaction stays open.
CommitForgotten(d) == UNCHANGED rollback

\* SQLite refuses a transaction inside another one, and a commit ends whichever is open.
Begin(d)  == rollback[d] = NoTransaction /\ rollback' = [rollback EXCEPT ![d] = <<db[d]>>]
Denied(d) == rollback[d] # NoTransaction /\ UNCHANGED rollback
Commit(d) == rollback' = [rollback EXCEPT ![d] = NoTransaction]

Forget(d, peer) == ForgetConnection(db[d], peer, "lan", peer)
Record(d, peer) == RecordConnection(db[d], peer, "lan", peer)
IsLinked(d, peer) == Has(db[d], ConnectionsOf(peer))

Running(k)      == request[k].pc \notin {"idle", "ended"}
HasAsked(k)     == request[k].pc \in {"check", "begin", "insert", "ended"}
Concerns(k, r)  == Running(k) /\ r \in ToSet(request[k].todo) \cup ToSet(request[k].passed)
Inserting(k, r) == offer[k][r].pc \in {"lookup", "group", "assignee", "begin", "insert", "commit"}

-----------------------------------------------------------------------------
(* TransferRequestProgressDialog::task *)

Ask(k, record) == request' = [request EXCEPT ![k] = Updated(@, record)]

\* The list is read when the thread starts; with no list nothing happens.  A bound: a dialog is
\* opened when those before it have asked all their devices.
StartTask(k, devices) ==
  /\ request[k].pc = "idle"
  /\ \A j \in 1 .. k - 1 : HasAsked(j)
  /\ Ask(k, IF Has(db[Sender], DivisionOf(Group)) THEN [pc |-> "next", todo |-> devices] ELSE [pc |-> "ended"])
  /\ overlap' = IF \E j \in Dialog, r \in ToSet(devices) : Concerns(j, r) THEN overlap \cup {Sender}
                ELSE overlap
  /\ UNCHANGED <<stored, addition, wires, receivers, plan, trouble, early, counts>>

StartRequest(k) == k \in DOMAIN plan.devices /\ StartTask(k, plan.devices[k])

\* The error dialog of a request offers to ask the failed devices again.
Retry(k) ==
  /\ k + 1 \in Dialog \ DOMAIN plan.devices
  /\ request[k].failed # <<>>
  /\ StartTask(k + 1, request[k].failed)

Interrupt(k) ==
  /\ Running(k) /\ ~request[k].interrupted
  /\ Trouble
  /\ Ask(k, [interrupted |-> TRUE])
  /\ UNCHANGED <<stored, addition, wires, receivers, plan, early, overlap, counts>>

NextFails(k, interrupted) ==
  LET r == Head(request[k].todo)
  IN  Ask(k, [pc |-> "next", todo |-> Tail(request[k].todo), failed |-> Append(request[k].failed, r),
              interrupted |-> interrupted])

\* An interruption while the list is put together leaves the files that are not in it yet out of
\* it, and the request is sent all the same.
PutTogether(k, r) ==
  \E n \in 0 .. Len(Files) :
    /\ listed' = [listed EXCEPT ![k][r] = n]
    /\ \/ n = Len(Files) /\ Ask(k, [pc |-> "link"]) /\ UNCHANGED trouble
       \/ n < Len(Files) /\ Ask(k, [pc |-> "link", interrupted |-> TRUE]) /\ Trouble

\* A device without a connection is neither asked nor reported; one whose turn is interrupted counts
\* as failed.
AskDevice(k) ==
  /\ request[k].pc = "next" /\ request[k].todo # <<>> /\ ~request[k].interrupted
  /\ LET r == Head(request[k].todo) IN
       \/ /\ ~IsLinked(Sender, r)
          /\ Ask(k, [todo |-> Tail(request[k].todo)])
          /\ UNCHANGED <<db, listed, trouble>>
       \/ /\ IsLinked(Sender, r) /\ Trouble
          /\ \E interrupted \in BOOLEAN : NextFails(k, interrupted)
          /\ UNCHANGED <<db, listed>>
       \/ /\ IsLinked(Sender, r)
          /\ Set(Sender, Forget(Sender, r)) /\ PutTogether(k, r)
  /\ UNCHANGED <<rollback, addition, call, response, receivers, plan, early, overlap, counts>>

SendRequest(k) ==
  /\ request[k].pc = "link"
  /\ LET r == Head(request[k].todo) IN
       /\ Set(Sender, Record(Sender, r))
       /\ call' = [call EXCEPT ![k][r] = "asked"]
  /\ Ask(k, [pc |-> "await"])
  /\ UNCHANGED <<rollback, addition, listed, response, receivers, history>>

GetResult(k) ==
  /\ request[k].pc = "await"
  /\ LET r == Head(request[k].todo) IN
       /\ call[k][r] = "true"
       /\ call' = [call EXCEPT ![k][r] = "over"]
       /\ Ask(k, [pc |-> "publish", passed |-> Append(request[k].passed, r)])
  /\ UNCHANGED <<stored, addition, listed, response, receivers, history>>

\* The connection breaks, or the answer is not there in time; the receiver may still go on.
NoResult(k) ==
  /\ request[k].pc = "await"
  /\ \/ call[k][Head(request[k].todo)] = "over" /\ UNCHANGED trouble
     \/ Trouble
  /\ NextFails(k, request[k].interrupted)
  /\ UNCHANGED <<stored, addition, wires, receivers, plan, early, overlap, counts>>

PublishShare(k) ==
  /\ request[k].pc = "publish"
  /\ LET r == Head(request[k].todo) IN
       Set(Sender, Publish(db[Sender], WhereAssignee(Group, r),
                           [groupId |-> Group, deviceId |-> r, connectionAdapter |-> "lan"]))
  /\ Ask(k, [pc |-> "next", todo |-> Tail(request[k].todo)])
  /\ UNCHANGED <<rollback, addition, wires, receivers, history>>

\* Whoever is interrupted goes on with the devices that have said yes, but inserts nothing.
NoMoreDevices(k) ==
  /\ request[k].pc = "next"
  /\ request[k].todo = <<>> \/ request[k].interrupted
  /\ Ask(k, [pc |-> IF request[k].passed = <<>> THEN "ended" ELSE "check", todo |-> <<>>])
  /\ UNCHANGED <<stored, addition, wires, receivers, history>>

\* An outgoing row of the device is there.
AlreadyThere(r) == Has(db[Sender], OutgoingOf(Group, r))

\* The loop appends to the list it walks through, and may read the second device from memory that
\* was freed: it gets the device, or it crashes.
CheckRows(k) ==
  /\ request[k].pc = "check"
  /\ LET q == request[k] IN
       Ask(k, IF q.at > Len(q.passed) \/ q.interrupted THEN [pc |-> "ended"]
              ELSE IF AlreadyThere(q.passed[q.at]) THEN [at |-> q.at + 1]
              ELSE [pc |-> "begin"])
  /\ UNCHANGED <<stored, addition, wires, receivers, history>>

BeginRows(k) ==
  /\ request[k].pc = "begin"
  /\ \/ Begin(Sender) /\ Ask(k, [pc |-> "insert"])
     \/ Denied(Sender) /\ Ask(k, [pc |-> "check", at |-> request[k].at + 1])
  /\ UNCHANGED <<db, addition, wires, receivers, history>>

InsertRow(k) ==
  /\ request[k].pc = "insert"
  /\ LET q == request[k] IN
       \/ /\ q.row <= Len(Files)
          /\ Set(Sender, Insert(db[Sender], "transfer", Row(Group, q.passed[q.at], Files[q.row], "Outgoing")))
          /\ Ask(k, [row |-> q.row + 1])
          /\ UNCHANGED rollback
       \/ /\ q.row > Len(Files)
          /\ Commit(Sender)
          /\ Ask(k, [pc |-> IF q.interrupted THEN "ended" ELSE "check", at |-> q.at + 1, row |-> 1])
          /\ UNCHANGED db
  /\ UNCHANGED <<addition, wires, receivers, history>>

-----------------------------------------------------------------------------
(* FileAdditionProgressDialog::task, for another group *)

Add(record) == addition' = Updated(addition, record)

StartAddition ==
  /\ addition.pc = "idle"
  /\ Trouble
  /\ \/ Begin(Sender) /\ Add([pc |-> "insert"])
     \/ Denied(Sender) /\ Add([pc |-> "commit"])
  /\ UNCHANGED <<db, request, wires, receivers, plan, early, overlap, counts>>

\* An interruption leaves the rows of a group that does not come.
AddRow ==
  /\ addition.pc = "insert"
  /\ \/ /\ addition.row <= Len(Files)
        /\ Set(Sender, Insert(db[Sender], "divisTransfer", Division(Other)[addition.row]))
        /\ Add([row |-> addition.row + 1])
        /\ UNCHANGED trouble
     \/ /\ addition.row <= Len(Files) /\ Trouble
        /\ Add([pc |-> "commit"])
        /\ UNCHANGED db
     \/ /\ addition.row > Len(Files)
        /\ Set(Sender, Insert(db[Sender], "transferGroup", [id |-> Other]))
        /\ Add([pc |-> "commit"])
        /\ UNCHANGED trouble
  /\ UNCHANGED <<rollback, request, wires, receivers, plan, early, overlap, counts>>

\* Whether the transaction is its own or not.
CommitAddition ==
  /\ addition.pc = "commit"
  /\ Commit(Sender)
  /\ Add([pc |-> "ended"])
  /\ UNCHANGED <<db, request, wires, receivers, history>>

-----------------------------------------------------------------------------
(* CommunicationServer::connected at a receiver, and the thread it starts *)

Go(k, r, record) == offer' = [offer EXCEPT ![k][r] = Updated(@, record)]

ServeRequest(k, r) ==
  /\ call[k][r] = "asked"
  /\ Set(r, Forget(r, Sender))
  /\ call' = [call EXCEPT ![k][r] = "serving"]
  /\ UNCHANGED <<rollback, sender, listed, response, receivers, history>>

\* A list that is no text is read as an empty one.
Parsed(n) == IF plan.form = "text" THEN n ELSE 0

\* The reply says true before anything has been inserted, and whatever has been read.
ReplyTrue(k, r) ==
  /\ call[k][r] = "serving"
  /\ Set(r, Record(r, Sender))
  /\ call' = [call EXCEPT ![k][r] = "true"]
  /\ Go(k, r, [pc |-> "lookup", row |-> 1, count |-> Parsed(listed[k][r])])
  /\ counts' = [counts EXCEPT ![r] = @ \cup {Parsed(listed[k][r])}]
  /\ overlap' = IF \E j \in Dialog : Inserting(j, r) THEN overlap \cup {r} ELSE overlap
  /\ UNCHANGED <<rollback, sender, listed, response, dialogs, plan, trouble, early>>

LookUpGroup(k, r) ==
  /\ offer[k][r].pc = "lookup"
  /\ Go(k, r, [pc |-> "group", publishing |-> Has(db[r], WhereGroup(Group))])
  /\ UNCHANGED <<stored, sender, wires, dialogs, history>>

PublishGroup(k, r) ==
  /\ offer[k][r].pc = "group"
  /\ Set(r, Publish(db[r], WhereGroup(Group), [id |-> Group]))
  /\ Go(k, r, [pc |-> "assignee"])
  /\ UNCHANGED <<rollback, sender, wires, dialogs, history>>

PublishAssignee(k, r) ==
  /\ offer[k][r].pc = "assignee"
  /\ Set(r, Publish(db[r], WhereAssignee(Group, Sender),
                    [groupId |-> Group, deviceId |-> Sender, connectionAdapter |-> "lan"]))
  /\ Go(k, r, [pc |-> "begin"])
  /\ UNCHANGED <<rollback, sender, wires, dialogs, history>>

\* Without a transaction nothing is inserted, and nobody is asked.
BeginOffer(k, r) ==
  /\ offer[k][r].pc = "begin"
  /\ \/ Begin(r) /\ Go(k, r, [pc |-> "insert"])
     \/ Denied(r) /\ Go(k, r, [pc |-> "dropped"])
  /\ UNCHANGED <<db, sender, wires, dialogs, history>>

\* Defect: what is there already is inserted again.
InsertAlways(publishing, old, object) == Insert(old, "transfer", object)

\* Rows of a group that was known before may be there already.
InsertOrPublish(publishing, old, object) ==
  IF publishing THEN Publish(old, WhereObject(object), object) ELSE Insert(old, "transfer", object)

\* Nobody is asked about an empty list.
InsertOffer(k, r) ==
  /\ offer[k][r].pc = "insert"
  /\ LET row == offer[k][r].row IN
       \/ /\ row <= offer[k][r].count
          /\ Set(r, InsertOrPublish(offer[k][r].publishing, db[r], Row(Group, Sender, Files[row], "Incoming")))
          /\ Go(k, r, [row |-> row + 1])
          /\ UNCHANGED <<rollback, dialogs>>
       \/ /\ row > offer[k][r].count
          /\ Commit(r)
          /\ \/ /\ offer[k][r].count > 0
                /\ dialogs' = [dialogs EXCEPT ![r] = Append(@, k)]
                /\ Go(k, r, [pc |-> "asking", row |-> 1, publishing |-> FALSE])
             \/ /\ offer[k][r].count = 0
                /\ Go(k, r, [pc |-> "dropped"])
                /\ UNCHANGED dialogs
          /\ UNCHANGED db
  /\ UNCHANGED <<sender, wires, history>>

-----------------------------------------------------------------------------
(* MainWindow::showTransferRequest *)

\* A group that is removed takes the rows away from under threads that still insert.
GroupRemoved(r) ==
  /\ Set(r, RemoveGroup(db[r], Group))
  /\ overlap' = IF \E j \in Dialog : Inserting(j, r) THEN overlap \cup {r} ELSE overlap

\* The dialogs are modal.  Yes and Close accept, No refuses.
Answer(k, r, accepted) ==
  /\ offer[k][r].pc = "asking"
  /\ dialogs[r] # <<>> /\ Last(dialogs[r]) = k
  /\ dialogs' = [dialogs EXCEPT ![r] = Front(@)]
  /\ Go(k, r, [pc |-> "answered", accepted |-> accepted])
  /\ UNCHANGED <<stored, sender, wires, history>>

LookUpAnswered(k, r) ==
  /\ offer[k][r].pc = "answered"
  /\ Go(k, r, [pc |-> IF ~(Has(db[r], WhereGroup(Group)) /\ Has(db[r], WhereAssignee(Group, Sender)))
                      THEN "done" ELSE IF offer[k][r].accepted THEN "connection" ELSE "remove"])
  /\ UNCHANGED <<stored, sender, wires, dialogs, history>>

RemoveRefused(k, r) ==
  /\ offer[k][r].pc = "remove"
  /\ GroupRemoved(r)
  /\ Go(k, r, [pc |-> "connection"])
  /\ UNCHANGED <<rollback, sender, wires, dialogs, plan, trouble, early, counts>>

\* Without a connection in the table, or when the sender cannot be reached, it is not told.
FindConnection(k, r) ==
  /\ offer[k][r].pc = "connection"
  /\ \/ /\ ~Has(db[r], WhereAdapter(Sender, "lan"))
        /\ Go(k, r, [pc |-> "done"])
        /\ UNCHANGED <<db, trouble>>
     \/ /\ Has(db[r], WhereAdapter(Sender, "lan")) /\ Trouble
        /\ Go(k, r, [pc |-> "done"])
        /\ UNCHANGED db
     \/ /\ Has(db[r], WhereAdapter(Sender, "lan"))
        /\ Set(r, Forget(r, Sender))
        /\ Go(k, r, [pc |-> "link"])
        /\ UNCHANGED trouble
  /\ UNCHANGED <<rollback, sender, wires, dialogs, plan, early, overlap, counts>>

SendResponse(k, r) ==
  /\ offer[k][r].pc = "link"
  /\ Set(r, Record(r, Sender))
  /\ response' = [response EXCEPT ![k][r] = "sent"]
  /\ Go(k, r, [pc |-> "done"])
  /\ UNCHANGED <<rollback, sender, call, listed, dialogs, history>>

-----------------------------------------------------------------------------
(* CommunicationServer::connected at the sender *)

\* Shares that disappear while a request still concerns them.
EarlyWithout(gone) ==
  early' = early \cup {r \in gone : \E k \in Dialog : Concerns(k, r)}

ServeResponse(k, r) ==
  /\ response[k][r] = "sent"
  /\ \/ /\ Set(Sender, Forget(Sender, r))
        /\ response' = [response EXCEPT ![k][r] = "serving"]
        /\ UNCHANGED trouble
     \/ /\ Trouble
        /\ response' = [response EXCEPT ![k][r] = "lost"]
        /\ UNCHANGED db
  /\ UNCHANGED <<rollback, sender, call, listed, receivers, plan, early, overlap, counts>>

\* Defect: a refusal takes the rows away and leaves the assignee.
RowsOnly(old, r) == RemoveObjects(old, ShareOf(Group, r))

\* Defect: a refusal takes the assignee away and leaves the rows.
AssigneeOnly(old, r) == Delete(old, WhereAssignee(Group, r))

\* gDbSignal->remove(transferAssignee)
RefusedBy(old, r) == RemoveAssignee(old, Group, r)

TakeResponse(k, r) ==
  /\ response[k][r] = "serving"
  /\ LET linked == Record(Sender, r)
         known  == Has(linked, WhereGroup(Group)) /\ Has(linked, WhereAssignee(Group, r))
     IN  IF known /\ ~offer[k][r].accepted THEN Set(Sender, RefusedBy(linked, r)) /\ EarlyWithout({r})
         ELSE Set(Sender, linked) /\ (IF offer[k][r].accepted THEN UNCHANGED early ELSE EarlyWithout({r}))
  /\ response' = [response EXCEPT ![k][r] = "over"]
  /\ UNCHANGED <<rollback, sender, call, listed, receivers, plan, trouble, overlap, counts>>

-----------------------------------------------------------------------------
(* Users and crashes *)

RemoveTransfer(d) ==
  /\ Has(db[d], WhereGroup(Group))
  /\ Trouble
  /\ IF d = Sender THEN Set(d, RemoveGroup(db[d], Group)) /\ EarlyWithout(Receivers) /\ UNCHANGED overlap
     ELSE GroupRemoved(d) /\ UNCHANGED early
  /\ UNCHANGED <<rollback, sender, wires, receivers, plan, counts>>

\* The threads are gone, and what the open transaction has changed.
CrashSender ==
  /\ \E k \in Dialog : Running(k)
  /\ Trouble
  /\ db' = [db EXCEPT ![Sender] = IF rollback[Sender] = NoTransaction THEN @ ELSE rollback[Sender][1]]
  /\ Commit(Sender)
  /\ request' = [k \in Dialog |-> [request[k] EXCEPT !.pc = "ended", !.failed = <<>>]]
  /\ Add([pc |-> "ended"])
  /\ response' = [k \in Dialog |-> [r \in Receivers |->
                    IF response[k][r] \in {"sent", "serving"} THEN "lost" ELSE response[k][r]]]
  /\ UNCHANGED <<call, listed, receivers, plan, early, overlap, counts>>

CrashReceiver(r) ==
  /\ \E k \in Dialog : Inserting(k, r) \/ offer[k][r].pc \in {"answered", "remove", "connection", "link"}
  /\ Trouble
  /\ db' = [db EXCEPT ![r] = IF rollback[r] = NoTransaction THEN @ ELSE rollback[r][1]]
  /\ Commit(r)
  /\ offer' = [k \in Dialog |-> [offer[k] EXCEPT ![r].pc = IF @ = "none" THEN "none" ELSE "done"]]
  /\ dialogs' = [dialogs EXCEPT ![r] = <<>>]
  /\ call' = [k \in Dialog |-> [call[k] EXCEPT ![r] = IF @ = "none" THEN "none" ELSE "over"]]
  /\ UNCHANGED <<sender, listed, response, plan, early, overlap, counts>>

-----------------------------------------------------------------------------
RequestThread(k) ==
  \/ AskDevice(k) \/ SendRequest(k) \/ GetResult(k) \/ NoResult(k) \/ PublishShare(k) \/ NoMoreDevices(k)
  \/ CheckRows(k) \/ BeginRows(k) \/ InsertRow(k)

OfferThread(k, r) ==
  \/ ServeRequest(k, r) \/ ReplyTrue(k, r)
  \/ LookUpGroup(k, r) \/ PublishGroup(k, r) \/ PublishAssignee(k, r) \/ BeginOffer(k, r) \/ InsertOffer(k, r)

AnswerThread(k, r) ==
  \/ LookUpAnswered(k, r) \/ RemoveRefused(k, r) \/ FindConnection(k, r) \/ SendResponse(k, r)
  \/ ServeResponse(k, r) \/ TakeResponse(k, r)

RequestsNext ==
  \/ \E k \in Dialog :
       \/ RequestThread(k) \/ Interrupt(k) \/ Retry(k)
       \/ StartRequest(k)
       \/ \E r \in Receivers : OfferThread(k, r) \/ AnswerThread(k, r)
                               \/ \E accepted \in BOOLEAN : Answer(k, r, accepted)
  \/ StartAddition \/ AddRow \/ CommitAddition
  \/ \E d \in Device : RemoveTransfer(d)
  \/ CrashSender \/ \E r \in Receivers : CrashReceiver(r)

Threads == \E k \in Dialog : RequestThread(k) \/ \E r \in Receivers : OfferThread(k, r) \/ AnswerThread(k, r)

\* While a thread can go on, some thread does; users need not do anything.
RequestsFairness == WF_requestVars(Threads)

RequestsSpec == RequestsInit /\ [][RequestsNext]_requestVars /\ RequestsFairness

-----------------------------------------------------------------------------
\* Rows that a device is to get belong to one of the assignees, unless its share was taken away
\* (by an answer, or by the user) while a request still concerned it
\* (TransferRequestProgressDialog::task, CommunicationServer::connected).
OutgoingHasAssignee ==
  \A r \in Receivers :
    Has(db[Sender], OutgoingOf(Group, r)) => Has(db[Sender], WhereAssignee(Group, r)) \/ r \in early

\* The rows of the first n files, each of them once.
AreFirst(rows, n) == Len(rows) = n /\ {row.id : row \in ToSet(rows)} = {Files[i] : i \in 1 .. n}

\* When no thread inserts, a list is whole, although each row is an insertion of its own, requests
\* are repeated or cut short, and threads end anywhere: the receiver has what one of the requests
\* it got lists, or nothing, unless two threads have met, or the group was removed under one; the
\* sender has all files or none for it, unless a second thread has met a first or has ended its
\* transaction before a crash.  What users are asked about is there, unless the group has been
\* removed and a request that lists nothing has brought it back
\* (CommunicationServer::connected, TransferRequestProgressDialog::task).
ListsAreWhole ==
  \A r \in Receivers :
    /\ r \notin overlap /\ (\A k \in Dialog : ~Inserting(k, r)) =>
         /\ \E n \in counts[r] : AreFirst(Rows(db[r], ShareOf(Group, Sender)), n)
         /\ dialogs[r] # <<>> /\ Has(db[r], WhereGroup(Group)) =>
              Has(db[r], ShareOf(Group, Sender)) \/ \E k \in Dialog : offer[k][r].pc = "dropped"
    /\ r \notin early /\ Sender \notin overlap /\ trouble < 2 /\ (\A k \in Dialog : request[k].pc # "insert") =>
         \E n \in {0, Len(Files)} : AreFirst(Rows(db[Sender], OutgoingOf(Group, r)), n)

\* A request that was answered with success is shown to the user when it lists a file, although the
\* reply comes before the insertion (CommunicationServer::connected), unless two threads have met.
SuccessIsShown ==
  \A k \in Dialog, r \in Receivers :
    r \in ToSet(request[k].passed) ~>
      \/ k \in ToSet(dialogs[r]) \/ offer[k][r].pc \in {"answered", "done"}
      \/ r \in overlap \/ offer[k][r].count = 0

\* Of a request that was answered with success the user is asked, unless two threads have met: the
\* desktop program sends files (README.md) and takes what it sends.
OffersArrive ==
  \A k \in Dialog, r \in Receivers : offer[k][r].pc = "dropped" => r \in overlap

\* A refusal takes the share away at the sender, unless it comes while the sender still asks, or
\* the sender asks once more, or it is lost on the way or never sent because the user, a crash or
\* the network was in between (MainWindow::showTransferRequest).
RefusalReachesSender ==
  \A k \in Dialog, r \in Receivers :
    offer[k][r].pc = "answered" /\ ~offer[k][r].accepted ~>
      \/ ~(Has(db[Sender], ShareOf(Group, r)) \/ Has(db[Sender], WhereAssignee(Group, r)))
      \/ r \in early \/ response[k][r] = "lost"
      \/ trouble > 0 /\ offer[k][r].pc = "done" /\ response[k][r] = "none"
      \/ \E j \in Dialog \ {k} : call[j][r] # "none"
===============================================================================
