------------------------------- MODULE Desktop -------------------------------
(***************************************************************************)
(* The application on one device: who is let in, what the user does        *)
(* meanwhile, and what is started because of it.                           *)
(*                                                                         *)
(*   CommunicationServer::connected  a thread per connection of a peer     *)
(*   NetworkDeviceLoader::load       a thread that asks a peer who it is   *)
(*   MainWindow, ManageDevicesDialog the devices, their menus and boxes    *)
(*   ShowTransferDialog              one transfer, shown in a dialog       *)
(*   TransferTaskManager             the clients that receive              *)
(*                                                                         *)
(* What the threads read of a device they write back later, and so do the  *)
(* menus and boxes that are open meanwhile: a box executes an event loop   *)
(* of its own, in which the calls of the threads go on.  Offers and their  *)
(* answers are the subject of TransferRequests; the two calls that record  *)
(* a connection are one step here.                                         *)
(***************************************************************************)
EXTENDS AccessDatabase, FiniteSets

CONSTANTS
  Peer,
  Situations      \* bound: what is known at first, the threads that are started, how often the user
                  \* clicks, and how often something fails

Group  == "group"
Nobody == ""

\* Known devices are stored under their identities, which are not empty, and what is shared is
\* shared with known devices at first.  A group that comes in has its sender for an assignee.
ASSUME SituationsAssumption ==
  /\ Nobody \notin Peer
  /\ \A s \in Situations :
       /\ \A k \in DOMAIN s.threads : s.threads[k].peer \in Peer
       /\ IsFiniteSet(DOMAIN s.known) /\ DOMAIN s.known \subseteq Peer
       /\ \A d \in DOMAIN s.known :
            s.known[d] \in [deviceId: {d}, isTrusted: BOOLEAN, isRestricted: BOOLEAN]
       /\ s.assignees \in Seq(DOMAIN s.known) /\ s.added \subseteq Peer
       /\ s.type = "Incoming" => Len(s.assignees) <= 1 /\ s.added = {}

VARIABLES
  db,
  blocked,        \* CommunicationServer::m_blockedAddresses; a peer has one address
  thread,         \* of plan.threads: where it is, and its copy of the device
  signalled,      \* the deviceBlocked signals that the main thread has not handled
  windows,        \* the menu or the boxes on the screen, the one on top last
  dialog,         \* the ShowTransferDialog: the device whose rows it shows, the entry of its combo box
  client,         \* of each peer: the clients that are starting, attached, and interrupted
  job,            \* the last request to start a transfer: whom it went to, what the dialog showed
  plan, clicks, trouble, choice, served, mixed, doubled, orphaned   \* bounds and history

devices   == <<blocked, signalled, windows>>
transfers == <<dialog, job>>
bounds    == <<plan, clicks, trouble>>
history   == <<choice, served, mixed, doubled, orphaned>>
desktopVars == <<db, thread, client, devices, transfers, bounds, history>>

Thread == DOMAIN plan.threads
Of(k)  == plan.threads[k].peer

DeviceRow(d, trusted, restricted) == [deviceId |-> d, isTrusted |-> trusted, isRestricted |-> restricted]
NewDevice(d)     == DeviceRow(d, FALSE, FALSE)
UnknownDevice    == NewDevice(Nobody)   \* stored with an identity that equals none
DevicesOf(old, d) == Rows(old, WhereDevice(d))
IsKnown(d)       == DevicesOf(db, d) # <<>>
Device(d)        == DevicesOf(db, d)[1]

Assignees(old) == Rows(old, AssigneesOf(Group))
AssigneeRow(d) == [groupId |-> Group, deviceId |-> d, connectionAdapter |-> UnknownInterface]
TransferRow(d) == [groupId |-> Group, id |-> 1, deviceId |-> d, type |-> plan.type, flag |-> plan.flag]
Connection(d)  == [deviceId |-> d, adapterName |-> "lan", ipAddress |-> d]

DesktopInit ==
  /\ plan \in Situations
  /\ LET known == SetToSeq(DOMAIN plan.known)
         InGroup(d) == d \in ToSet(plan.assignees)
     IN  db = [NewDatabase EXCEPT
                !["devices"] = [i \in DOMAIN known |-> plan.known[known[i]]],
                !["deviceConnection"] = [i \in DOMAIN known |-> Connection(known[i])],
                !["transferGroup"] = IF plan.assignees = <<>> THEN <<>> ELSE <<[id |-> Group]>>,
                !["transferAssignee"] = [i \in DOMAIN plan.assignees |-> AssigneeRow(plan.assignees[i])],
                !["transfer"] = [i \in DOMAIN plan.assignees |-> TransferRow(plan.assignees[i])]]
  /\ blocked = {} /\ signalled = <<>> /\ windows = <<>>
  /\ thread = [k \in Thread |-> [pc |-> "closed", copy |-> UnknownDevice, admitted |-> FALSE]]
  /\ dialog = <<>> /\ job = <<>>
  /\ client = [d \in Peer |-> [starting |-> 0, attached |-> 0, interrupted |-> 0]]
  /\ clicks = 0 /\ trouble = 0
  /\ choice = [d \in Peer |-> IF d \notin DOMAIN plan.known THEN "none"
                              ELSE IF plan.known[d].isRestricted THEN "restricted" ELSE "allowed"]
  /\ served = [d \in Peer |-> 0]
  /\ mixed = {} /\ doubled = {} /\ orphaned = {}

DesktopTypeOK ==
  /\ blocked \subseteq Peer /\ ToSet(signalled) \subseteq Peer
  /\ \A k \in Thread :
       /\ thread[k].pc \in {"closed", "lookup", "load", "publish", "restrict", "connect", "text", "find",
                            "adapter", "test", "start", "over"}
       /\ thread[k].copy.deviceId \in Peer \cup {Nobody}
  /\ \A i \in DOMAIN windows : /\ windows[i].kind \in {"menu", "blocked", "remove"}
                               /\ windows[i].copy.deviceId \in Peer \cup {Nobody}
  /\ dialog # <<>> => /\ dialog[1].deviceId \in Peer \cup {Nobody}
                      /\ dialog[1].index \in 0 .. Len(Assignees(db))
  /\ \A d \in Peer : client[d] \in [{"starting", "attached", "interrupted"} -> 0 .. plan.clicks + Len(plan.threads)]
  /\ choice \in [Peer -> {"none", "restricted", "allowed"}]
  /\ mixed \cup doubled \cup orphaned \subseteq Peer

-----------------------------------------------------------------------------
(* What everybody uses *)

Click   == clicks < plan.clicks /\ clicks' = clicks + 1 /\ UNCHANGED <<plan, trouble>>
Trouble == trouble < plan.trouble /\ trouble' = trouble + 1 /\ UNCHANGED <<plan, clicks>>

\* Defect: the combo box keeps its entry.
SameEntry(table) == dialog

\* updateAssignees: the combo box is filled anew, but the rows that are shown stay those of the device.
FirstEntry(table) ==
  IF dialog # <<>> /\ table = "transferAssignee" THEN <<[dialog[1] EXCEPT !.index = 0]>> ELSE dialog

\* ShowTransferDialog::checkGroupIntegrity hears of every change and closes when the group is gone.
Changed(new, table) ==
  /\ db' = new
  /\ dialog' = IF Has(new, WhereGroup(Group)) THEN FirstEntry(table) ELSE <<>>

\* The identity of a device that could not be asked equals no other, not even itself.
PublishDevice(copy) ==
  IF copy.deviceId = Nobody THEN Insert(db, "devices", copy)
  ELSE Publish(db, WhereDevice(copy.deviceId), copy)

\* NetworkDeviceLoader::processConnection
Connected(old, d, address) ==
  RecordConnection(IF d = Nobody THEN old ELSE ForgetConnection(old, d, "lan", address), d, "lan", address)

Step(k, record) == thread' = [thread EXCEPT ![k] = Updated(@, record)]

\* One of the other threads, or of the open windows, has read the device and may write it back.
HasCopy(k, d) == Of(k) = d /\ thread[k].pc \in {"load", "publish", "restrict"}
Mix(d, others, open) ==
  LET copied == (\E k \in others : HasCopy(k, d)) \/ (\E w \in ToSet(open) : w.kind # "remove" /\ w.copy.deviceId = d)
  IN  mixed' = IF copied THEN mixed \cup {d} ELSE mixed

-----------------------------------------------------------------------------
(* CommunicationServer::connected, for a request that is no offer and no answer *)

Connect(k) ==
  /\ thread[k].pc = "closed" /\ plan.threads[k].request # "load"
  /\ Step(k, [pc |-> IF Of(k) \in blocked THEN "over" ELSE "lookup"])
  /\ UNCHANGED <<db, client, devices, transfers, bounds, history>>

\* A device that nobody knows is recorded as restricted, but what it asks for is done.
LookUp(k) ==
  /\ thread[k].pc = "lookup"
  /\ LET d        == Of(k)
         admitted == IsKnown(d) => ~Device(d).isRestricted
     IN  /\ Step(k, IF IsKnown(d) THEN [pc |-> "connect", copy |-> Device(d), admitted |-> admitted]
                    ELSE [pc |-> "load", admitted |-> admitted])
         /\ served' = IF admitted THEN [served EXCEPT ![d] = @ + 1] ELSE served
         /\ Mix(d, Thread \ {k}, windows)
  /\ UNCHANGED <<db, client, devices, transfers, bounds, choice, doubled, orphaned>>

\* NetworkDeviceLoader::loadAsynchronously, for a service or an address
StartLoad(k) ==
  /\ thread[k].pc = "closed" /\ plan.threads[k].request = "load"
  /\ Step(k, [pc |-> "load"])
  /\ Mix(Of(k), Thread \ {k}, windows)
  /\ UNCHANGED <<db, client, devices, transfers, bounds, choice, served, doubled, orphaned>>

\* NetworkDeviceLoader::load: the device is asked, then looked up, written after its connection.
\* Who cannot be asked is stored without an identity.
LoadDevice(k) ==
  /\ thread[k].pc = "load"
  /\ \/ /\ LET known == IsKnown(Of(k))
               copy == IF known THEN Device(Of(k)) ELSE NewDevice(Of(k))
           IN  Step(k, [pc |-> "publish", copy |-> copy])
        /\ Mix(Of(k), Thread \ {k}, windows)
        /\ UNCHANGED bounds
     \/ /\ Trouble
        /\ Step(k, [pc |-> IF plan.threads[k].request = "load" THEN "over" ELSE "restrict", copy |-> UnknownDevice])
        /\ UNCHANGED mixed
  /\ UNCHANGED <<db, client, devices, transfers, choice, served, doubled, orphaned>>

PublishLoaded(k) ==
  /\ thread[k].pc = "publish"
  /\ Changed(Connected(PublishDevice(thread[k].copy), Of(k), Of(k)), "devices")
  /\ Step(k, [pc |-> IF plan.threads[k].request = "load" THEN "over" ELSE "restrict"])
  /\ UNCHANGED <<client, devices, job, bounds, history>>

\* Defect: the device is recorded as it was loaded.
AsLoaded(copy) == copy

Restricted(copy) == [copy EXCEPT !.isTrusted = FALSE, !.isRestricted = TRUE]

RestrictNew(k) ==
  /\ thread[k].pc = "restrict"
  /\ Changed(PublishDevice(Restricted(thread[k].copy)), "devices")
  /\ Step(k, [pc |-> "connect", copy |-> Restricted(thread[k].copy)])
  /\ UNCHANGED <<client, devices, job, bounds, history>>

\* Nothing is done for a restricted device, and the user is told.
RecordPeer(k) ==
  /\ thread[k].pc = "connect"
  /\ Changed(Connected(db, thread[k].copy.deviceId, Of(k)), "deviceConnection")
  /\ IF thread[k].admitted
     THEN /\ Step(k, [pc |-> CASE plan.threads[k].request = "text" -> "text"
                               [] plan.threads[k].request = "job"  -> IF thread[k].copy.isTrusted THEN "find" ELSE "over"
                               [] OTHER -> "over"])
          /\ UNCHANGED signalled
     ELSE /\ Step(k, [pc |-> "over"])
          /\ signalled' = Append(signalled, Of(k))
  /\ UNCHANGED <<client, blocked, windows, job, bounds, history>>

\* The number a text gets is that of another one if the generator of the thread starts alike.
PublishText(k) ==
  /\ thread[k].pc = "text"
  /\ \E id \in {1, 2} : Changed(Publish(db, WhereText(id), [id |-> id]), "clipboard")
  /\ Step(k, [pc |-> "over"])
  /\ UNCHANGED <<client, devices, job, bounds, history>>

FindShare(k) ==
  /\ thread[k].pc = "find"
  /\ Step(k, [pc |-> IF Has(db, WhereGroup(Group)) /\ Has(db, WhereAssignee(Group, Of(k)))
                     THEN "adapter" ELSE "over"])
  /\ UNCHANGED <<db, client, devices, transfers, bounds, history>>

UpdateAdapter(k) ==
  /\ thread[k].pc = "adapter"
  /\ Changed(Update(db, WhereAssignee(Group, Of(k)), [connectionAdapter |-> "lan"]), "transferAssignee")
  /\ Step(k, [pc |-> "test"])
  /\ UNCHANGED <<client, devices, job, bounds, history>>

-----------------------------------------------------------------------------
(* TransferTaskManager and TransferUtils::startTransfer: a client attaches itself when its thread *)
(* runs, so that between the test for an active one and that moment nobody knows of it.           *)

\* Defect: the test overlooks the clients.
NoneIsActive(ds) == FALSE

HasActive(ds) == \E d \in ds : client[d].attached + client[d].interrupted > 0

StartTransfer(d) == client' = [client EXCEPT ![d].starting = @ + 1]

\* Another start has been decided that the test does not see.
Decided(d) == client[d].starting > 0 \/ \E k \in Thread : Of(k) = d /\ thread[k].pc = "start"
Double(d)  == doubled' = IF Decided(d) THEN doubled \cup {d} ELSE doubled

PauseTasks(ds) ==
  client' = [d \in Peer |-> IF d \in ds THEN [client[d] EXCEPT !.attached = 0, !.interrupted = @ + client[d].attached]
                            ELSE client[d]]

TestActive(k) ==
  /\ thread[k].pc = "test"
  /\ IF HasActive({Of(k)}) THEN Step(k, [pc |-> "over"]) /\ UNCHANGED doubled
     ELSE Step(k, [pc |-> "start"]) /\ Double(Of(k))
  /\ UNCHANGED <<db, client, devices, transfers, bounds, choice, served, mixed, orphaned>>

StartJob(k) ==
  /\ thread[k].pc = "start"
  /\ StartTransfer(Of(k))
  /\ Step(k, [pc |-> "over"])
  /\ UNCHANGED <<db, devices, transfers, bounds, history>>

AttachTask(d) ==
  /\ client[d].starting > 0
  /\ client' = [client EXCEPT ![d].starting = @ - 1, ![d].attached = @ + 1]
  /\ UNCHANGED <<db, thread, devices, transfers, bounds, history>>

DetachTask(d) ==
  /\ \/ client[d].attached > 0 /\ client' = [client EXCEPT ![d].attached = @ - 1]
     \/ client[d].interrupted > 0 /\ client' = [client EXCEPT ![d].interrupted = @ - 1]
  /\ UNCHANGED <<db, thread, devices, transfers, bounds, history>>

-----------------------------------------------------------------------------
(* MainWindow and ManageDevicesDialog: devices *)

AtMainWindow == windows = <<>> /\ dialog = <<>>
OnTop(kind)  == windows # <<>> /\ Last(windows).kind = kind
Close        == windows' = Front(windows)

Choose(d, restricted) == choice' = [choice EXCEPT ![d] = IF restricted THEN "restricted" ELSE "allowed"]

\* deviceSelected, itemSelected: in the list, at once
ToggleRestricted(d) ==
  /\ AtMainWindow /\ IsKnown(d) /\ Click
  /\ LET restricted == ~Device(d).isRestricted IN
       /\ Changed(PublishDevice([Device(d) EXCEPT !.isRestricted = restricted]), "devices")
       /\ Choose(d, restricted)
  /\ Mix(d, Thread, windows)
  /\ UNCHANGED <<thread, client, devices, job, served, doubled, orphaned>>

\* deviceContextMenu, itemContextMenu: in a menu, which has its own copy
OpenMenu(d) ==
  /\ AtMainWindow /\ IsKnown(d) /\ Click
  /\ windows' = <<[kind |-> "menu", copy |-> Device(d)]>>
  /\ Mix(d, Thread, windows)
  /\ UNCHANGED <<db, thread, client, blocked, signalled, transfers, choice, served, doubled, orphaned>>

MenuRestrict ==
  /\ OnTop("menu")
  /\ LET copy == Last(windows).copy
         new  == [copy EXCEPT !.isRestricted = ~@]
     IN  /\ Changed(PublishDevice(new), "devices")
         /\ Choose(new.deviceId, new.isRestricted)
         /\ Mix(new.deviceId, Thread, Front(windows))
  /\ Close
  /\ UNCHANGED <<thread, client, blocked, signalled, job, bounds, served, doubled, orphaned>>

MenuTrust ==
  /\ OnTop("menu")
  /\ Changed(PublishDevice([Last(windows).copy EXCEPT !.isTrusted = ~@]), "devices")
  /\ Close
  /\ UNCHANGED <<thread, client, blocked, signalled, job, bounds, history>>

\* What the user knew of the device is forgotten.
MenuRemove ==
  /\ OnTop("menu")
  /\ LET d == Last(windows).copy.deviceId IN
       /\ Changed(RemoveDevice(db, d), "transferAssignee")
       /\ choice' = [choice EXCEPT ![d] = "none"]
       /\ served' = [served EXCEPT ![d] = 0]
       /\ Mix(d, Thread, Front(windows))
  /\ Close
  /\ UNCHANGED <<thread, client, blocked, signalled, job, bounds, doubled, orphaned>>

\* deviceBlocked: the box opens over whatever is on the screen.
ShowBlocked ==
  /\ signalled # <<>>
  /\ signalled' = Tail(signalled)
  /\ windows' = IF IsKnown(Head(signalled))
                THEN Append(windows, [kind |-> "blocked", copy |-> Device(Head(signalled))]) ELSE windows
  /\ Mix(Head(signalled), Thread, windows)
  /\ UNCHANGED <<db, thread, client, blocked, transfers, bounds, choice, served, doubled, orphaned>>

BlockedAllow ==
  /\ OnTop("blocked")
  /\ LET new == [Last(windows).copy EXCEPT !.isRestricted = FALSE] IN
       /\ Changed(PublishDevice(new), "devices")
       /\ Choose(new.deviceId, FALSE)
       /\ Mix(new.deviceId, Thread, Front(windows))
  /\ Close
  /\ UNCHANGED <<thread, client, blocked, signalled, job, bounds, served, doubled, orphaned>>

BlockedDeny ==
  /\ OnTop("blocked")
  /\ blocked' = blocked \cup {Last(windows).copy.deviceId}
  /\ Close
  /\ UNCHANGED <<db, thread, client, signalled, transfers, bounds, history>>

CloseBox ==
  /\ windows # <<>>
  /\ Close
  /\ UNCHANGED <<db, thread, client, blocked, signalled, transfers, bounds, history>>

-----------------------------------------------------------------------------
(* MainWindow: transfers *)

FirstAssignee == Assignees(db)[1].deviceId
CanReceive    == plan.type = "Incoming" /\ Assignees(db) # <<>>

\* taskToggle and taskPause
MainToggle ==
  /\ AtMainWindow /\ Has(db, WhereGroup(Group)) /\ Click
  /\ IF HasActive(Peer) THEN PauseTasks(Peer) /\ UNCHANGED doubled
     ELSE IF CanReceive THEN StartTransfer(FirstAssignee) /\ Double(FirstAssignee)
     ELSE UNCHANGED <<client, doubled>>
  /\ UNCHANGED <<db, thread, devices, transfers, choice, served, mixed, orphaned>>

\* taskStart, and the Yes of showTransferRequest, do not look for a client that is there.
MainStart ==
  /\ AtMainWindow /\ CanReceive /\ Click
  /\ StartTransfer(FirstAssignee)
  /\ doubled' = IF HasActive({FirstAssignee}) \/ Decided(FirstAssignee) THEN doubled \cup {FirstAssignee}
                ELSE doubled
  /\ UNCHANGED <<db, thread, devices, transfers, choice, served, mixed, orphaned>>

-----------------------------------------------------------------------------
(* ShowTransferDialog *)

ShowTransfer ==
  /\ AtMainWindow /\ Has(db, WhereGroup(Group)) /\ Click
  /\ dialog' = <<[deviceId |-> Nobody, index |-> 0]>>
  /\ UNCHANGED <<db, thread, client, devices, job, history>>

InDialog == windows = <<>> /\ dialog # <<>>

CloseDialog ==
  /\ InDialog
  /\ dialog' = <<>>
  /\ UNCHANGED <<db, thread, client, devices, job, bounds, history>>

\* updateAssignees: with several assignees the combo box begins with an entry for all of them.
ComboBox ==
  LET assigned == [i \in DOMAIN Assignees(db) |-> Assignees(db)[i].deviceId]
  IN  IF Len(assigned) > 1 THEN <<Nobody>> \o assigned ELSE assigned

AssigneeChanged(i) ==
  /\ InDialog /\ i \in DOMAIN ComboBox /\ Click
  /\ dialog' = <<[deviceId |-> ComboBox[i], index |-> i - 1]>>
  /\ UNCHANGED <<db, thread, client, devices, job, history>>

\* TransferObjectModel: what the dialog shows; with no rows yet, the files that were divided.
ShownRows == Rows(db, IF dialog[1].deviceId = Nobody THEN [table |-> "transfer", where |-> [groupId |-> Group]]
                      ELSE ShareOf(Group, dialog[1].deviceId))
ShownDevices == IF dialog[1].deviceId = Nobody THEN Peer ELSE {dialog[1].deviceId}

\* Defect: what is shown is taken for what there is.
HasAnyOutgoing == plan.type = "Outgoing"

HasOutgoing == \E row \in ToSet(ShownRows) : row.type = "Outgoing"
HasIncoming == \E row \in ToSet(ShownRows) : row.type = "Incoming"

\* taskToggle: the entry of the combo box is taken for an index into the assignees.
DialogToggle ==
  /\ InDialog /\ Click
  /\ LET shown    == dialog[1].deviceId
         assigned == Assignees(db)
         at       == dialog[1].index + 1
     IN  IF HasActive(ShownDevices) THEN PauseTasks(ShownDevices) /\ UNCHANGED <<job, doubled>>
         ELSE IF HasIncoming /\ assigned # <<>>
              THEN StartTransfer(FirstAssignee) /\ Double(FirstAssignee) /\ UNCHANGED job
         ELSE IF HasOutgoing /\ shown # Nobody
              THEN /\ job' = <<[to |-> IF at \in DOMAIN assigned THEN assigned[at].deviceId ELSE Nobody,
                                shown |-> shown, listed |-> Len(assigned)]>>
                   /\ UNCHANGED <<client, doubled>>
         ELSE UNCHANGED <<client, job, doubled>>
  /\ UNCHANGED <<db, thread, devices, dialog, choice, served, mixed, orphaned>>

\* removeTransfer: what will be removed, the device that is chosen or everything, is decided here.
DialogRemove ==
  /\ InDialog /\ Click
  /\ LET chosen == IF dialog[1].index > 0 /\ ~HasIncoming THEN ComboBox[dialog[1].index + 1] ELSE Nobody
     IN  windows' = <<[kind |-> "remove", copy |-> NewDevice(chosen)]>>
  /\ UNCHANGED <<db, thread, client, blocked, signalled, transfers, history>>

\* It is done when the user agrees; the assignees may be others by then.
ConfirmRemove ==
  /\ OnTop("remove")
  /\ LET chosen == Last(windows).copy.deviceId IN
       IF chosen # Nobody THEN Changed(RemoveAssignee(db, Group, chosen), "transferAssignee")
       ELSE Changed(RemoveGroup(db, Group), "transferGroup")
  /\ Close
  /\ UNCHANGED <<thread, client, blocked, signalled, job, bounds, history>>

\* retryReceiving
DialogRetry ==
  /\ InDialog /\ Click
  /\ Changed(Update(db, [table |-> "transfer", where |-> [groupId |-> Group, flag |-> "Interrupted"]],
                    [flag |-> "Pending"]), "transfer")
  /\ UNCHANGED <<thread, client, devices, job, history>>

\* addDevOrChangeConnection
MayReselect == ~HasOutgoing /\ Assignees(db) # <<>>

\* connectionChanged, for the connection the user picks of those the first assignee has
DialogReselect ==
  /\ InDialog /\ MayReselect /\ Click
  /\ \E c \in ToSet(Rows(db, ConnectionsOf(FirstAssignee))) :
       Changed(Update(db, WhereAssignee(Group, FirstAssignee), [connectionAdapter |-> c.adapterName]),
               "transferAssignee")
  /\ UNCHANGED <<thread, client, devices, job, history>>

-----------------------------------------------------------------------------
(* What TransferRequests does with the group meanwhile: a device that has accepted becomes an *)
(* assignee and later gets its rows, and a device that refuses is an assignee no more.        *)

AddAssignee(d) ==
  /\ d \in plan.added /\ ~Has(db, ShareOf(Group, d)) /\ ~Has(db, WhereAssignee(Group, d))
  /\ Trouble
  /\ Changed(Insert(db, "transferAssignee", AssigneeRow(d)), "transferAssignee")
  /\ orphaned' = IF IsKnown(d) THEN orphaned ELSE orphaned \cup {d}
  /\ UNCHANGED <<thread, client, devices, job, choice, served, mixed, doubled>>

AddRows(d) ==
  /\ d \in plan.added /\ ~Has(db, ShareOf(Group, d))
  /\ Trouble
  /\ Changed(Insert(db, "transfer", TransferRow(d)), "transfer")
  /\ orphaned' = IF Has(db, WhereAssignee(Group, d)) THEN orphaned ELSE orphaned \cup {d}
  /\ UNCHANGED <<thread, client, devices, job, choice, served, mixed, doubled>>

RefuseShare(d) ==
  /\ plan.type = "Outgoing" /\ Has(db, WhereGroup(Group)) /\ Has(db, WhereAssignee(Group, d))
  /\ Trouble
  /\ Changed(RemoveAssignee(db, Group, d), "transferAssignee")
  /\ UNCHANGED <<thread, client, devices, job, history>>

-----------------------------------------------------------------------------
Threads(k) ==
  \/ Connect(k) \/ LookUp(k) \/ StartLoad(k) \/ LoadDevice(k) \/ PublishLoaded(k) \/ RestrictNew(k)
  \/ RecordPeer(k) \/ PublishText(k) \/ FindShare(k) \/ UpdateAdapter(k) \/ TestActive(k) \/ StartJob(k)

DeviceWindows ==
  \/ \E d \in Peer : ToggleRestricted(d) \/ OpenMenu(d)
  \/ MenuRestrict \/ MenuTrust \/ MenuRemove \/ ShowBlocked \/ BlockedAllow \/ BlockedDeny \/ CloseBox

TransferWindows ==
  \/ MainToggle \/ MainStart \/ ShowTransfer \/ CloseDialog \/ \E i \in 1 .. Cardinality(Peer) + 1 : AssigneeChanged(i)
  \/ DialogToggle \/ DialogRemove \/ ConfirmRemove \/ DialogRetry \/ DialogReselect

DesktopNext ==
  \/ \E k \in Thread : Threads(k)
  \/ \E d \in Peer : AttachTask(d) \/ DetachTask(d) \/ AddAssignee(d) \/ AddRows(d) \/ RefuseShare(d)
  \/ DeviceWindows \/ TransferWindows

DesktopSpec == DesktopInit /\ [][DesktopNext]_desktopVars

-----------------------------------------------------------------------------
\* A device the user has restricted stays restricted, and one that nobody has allowed is served
\* once, although its copies are read and written by threads, menus and boxes; unless somebody
\* else held a copy of it when one of them was made, its identity came from a load of its own, or
\* it could not be asked (CommunicationServer::connected, NetworkDeviceLoader::load).
RestrictedAreRefused ==
  \A d \in Peer \ mixed :
    /\ choice[d] = "restricted" => IsKnown(d) /\ Device(d).isRestricted
    /\ choice[d] = "none" /\ trouble = 0 =>
         served[d] <= 1 \/ \E k \in Thread : Of(k) = d /\ plan.threads[k].request = "load" /\ thread[k].pc # "closed"

\* Requests of the peer, the main window and the dialog start one client at a time, unless two
\* starts were decided before the first client had attached, or by a button that does not test
\* (TransferTaskManager::hasActiveTasksFor and those who call it).
OneClientPerShare ==
  \A d \in Peer \ doubled : client[d].starting + client[d].attached + client[d].interrupted <= 1

\* While one device is listed, the request to start goes to the device whose rows are shown,
\* although assignees come and go while the dialog is open; rows that were inserted for a device
\* that was no assignee any more are the exception (ShowTransferDialog::taskToggle).
JobReachesShown ==
  job # <<>> /\ job[1].listed = 1 => job[1].to = job[1].shown \/ job[1].shown \in orphaned

\* Every assignee is a device of the table, every row belongs to an assignee, and a group that came
\* in has one, whatever is removed (NetworkDevice::onRemovingObject and the ones it calls), unless a
\* share was added for a device that had gone.
SharesHaveDevices ==
  /\ \A a \in ToSet(Assignees(db)) : IsKnown(a.deviceId) \/ a.deviceId \in orphaned
  /\ \A row \in ToSet(db["transfer"]) : Has(db, WhereAssignee(Group, row.deviceId)) \/ row.deviceId \in orphaned
  /\ plan.type = "Incoming" /\ Has(db, WhereGroup(Group)) => Assignees(db) # <<>>
===============================================================================
