--------------------------- MODULE SeamlessTransfer ---------------------------
(***************************************************************************)
(* A file transfer of TrebleShot (src/Qt_File_Transfer): the receiving     *)
(* thread and the sending sessions composed over a network that breaks,    *)
(* with users who pause and retry, files that change and devices that      *)
(* crash, for one transfer group and one pair of devices.                  *)
(***************************************************************************)
EXTENDS SeamlessClient, SeamlessServer

(* The rows are announced to the receiver before the sender has inserted    *)
(* its own: TransferRequestProgressDialog sends the request first.          *)

Init ==
  /\ rFlag = [o \in Objects |-> "pending"]
  /\ rSize = [o \in Objects |-> ToUInt(Announced[o])]
  /\ rFile = [o \in Objects |-> <<>>]
  /\ sGroup = "known"
  /\ sRow = [o \in Objects |-> FALSE]
  /\ sFlag = [o \in Objects |-> "pending"]
  /\ sSize = [o \in Objects |-> ToUInt(Announced[o])]
  /\ sDisk = [o \in Objects |-> [ver |-> 0, len |-> Announced[o], readable |-> TRUE]]
  /\ client = [pc |-> "off", run |-> 0, obj |-> NoObject, flag |-> "pending", size |-> 0,
               bit |-> FALSE, intr |-> FALSE, retry |-> FALSE, depth |-> 0]
  /\ serve = [k \in Runs |-> [pc |-> "none", intr |-> FALSE, obj |-> NoObject, flag |-> "pending",
                              size |-> 0, pos |-> 0, bit |-> FALSE]]
  /\ link = [k \in Runs |-> [st |-> "free", toServer |-> <<>>, toClient |-> <<>>]]
  /\ data = [k \in Runs |-> [st |-> "none", buf |-> <<>>]]
  /\ told = {}
  /\ spent = [faults |-> 0, edits |-> 0, clicks |-> 0, crashes |-> 0, deaths |-> 0]

-----------------------------------------------------------------------------
(* The network, the users, and the two devices *)

LinkBreaks(k) ==
  /\ link[k].st = "open"
  /\ Fault
  /\ link' = [link EXCEPT ![k] = [st |-> "closed", toServer |-> <<>>, toClient |-> <<>>]]
  /\ UNCHANGED <<receiverStore, senderStore, sDisk, client, serve, data, told>>

\* Bytes in flight are lost with the data connection.
DataBreaks(k) ==
  /\ data[k].st # "none"
  /\ Fault
  /\ data' = [data EXCEPT ![k] = [st |-> "eof", buf |-> <<>>]]
  /\ UNCHANGED <<receiverStore, senderStore, sDisk, client, serve, link, told>>

Click == /\ spent.clicks < MaxClicks /\ ~InTrouble
         /\ spent' = [spent EXCEPT !.clicks = @ + 1]

\* TransferTaskManager::pauseTasks interrupts the attached tasks of one device.
PauseReceiving ==
  /\ client.pc # "off"
  /\ Click
  /\ client' = [client EXCEPT !.intr = TRUE]
  /\ UNCHANGED <<receiverStore, senderStore, sDisk, serve, link, data, told>>

PauseSending ==
  /\ Click
  /\ serve' = [k \in Runs |-> IF serve[k].pc \in {"none", "gone"} THEN serve[k]
                              ELSE [serve[k] EXCEPT !.intr = TRUE]]
  /\ UNCHANGED <<receiverStore, senderStore, sDisk, client, link, data, told>>

\* The button "Retry receiving": every Interrupted row is Pending again.
RetryReceiving ==
  /\ Click
  /\ rFlag' = [o \in Objects |-> IF rFlag[o] = "interrupted" THEN "pending" ELSE rFlag[o]]
  /\ UNCHANGED <<rSize, rFile, senderStore, sDisk, client, serve, link, data, told>>

\* A double click on the status of an item: Pending, unless Done or Removed.
ItemActivated(o) ==
  /\ Click
  /\ rFlag[o] \notin {"done", "removed"}
  /\ rFlag' = [rFlag EXCEPT ![o] = "pending"]
  /\ UNCHANGED <<rSize, rFile, senderStore, sDisk, client, serve, link, data, told>>

\* TransferRequestProgressDialog inserts the outgoing rows in one transaction, after
\* the receiver has accepted the request.
InsertRows ==
  /\ sGroup = "known"
  /\ \A o \in Objects : ~sRow[o]
  /\ sRow' = [o \in Objects |-> TRUE]
  /\ sFlag' = [o \in Objects |-> "pending"]
  /\ sSize' = [o \in Objects |-> ToUInt(Announced[o])]
  /\ UNCHANGED <<receiverStore, sGroup, sDisk, client, serve, link, data, told, spent>>

Edit == /\ spent.edits < MaxEdits /\ ~InTrouble
        /\ spent' = [spent EXCEPT !.edits = @ + 1]

InUse(o) == \E k \in Runs : serve[k].pc \in {"connect", "send"} /\ serve[k].obj = o

\* A file is rewritten while no session has it open.
RewriteFile(o) ==
  /\ Edit
  /\ ~InUse(o)
  /\ \E n \in 0 .. MaxLen : sDisk' = [sDisk EXCEPT ![o].ver = @ + 1, ![o].len = n]
  /\ UNCHANGED <<receiverStore, senderStore, client, serve, link, data, told>>

\* A file is deleted or loses its permissions; an open handle keeps working.
HideFile(o) ==
  /\ Edit
  /\ sDisk[o].readable
  /\ sDisk' = [sDisk EXCEPT ![o].readable = FALSE]
  /\ UNCHANGED <<receiverStore, senderStore, client, serve, link, data, told>>

\* The sending user removes the device or the group, and the rows with it.
Forget ==
  /\ Edit
  /\ sGroup = "known"
  /\ sGroup' \in {"stranger", "removed"}
  /\ sRow' = [o \in Objects |-> FALSE]
  /\ UNCHANGED <<receiverStore, sFlag, sSize, sDisk, client, serve, link, data, told>>

Crash(died) == /\ spent.crashes < MaxCrashes /\ ~InTrouble
               /\ spent' = [spent EXCEPT !.crashes = @ + 1, !.deaths = @ + died]

\* The receiving application dies.  A file renamed but not yet recorded is no longer
\* the one its row points to.
ReceiverCrash ==
  /\ Crash(1)
  /\ client.pc # "off"
  /\ client' = [client EXCEPT !.pc = "off"]
  /\ rFile' = IF client.pc = "record" /\ client.flag = "done"
              THEN [rFile EXCEPT ![myObj] = <<>>] ELSE rFile
  /\ link' = IF client.pc = "start" THEN link
             ELSE [link EXCEPT ![myRun].st = "closed", ![myRun].toClient = <<>>]
  /\ DropData(myRun)
  /\ UNCHANGED <<rFlag, rSize, senderStore, sDisk, serve, told>>

\* The sending application dies: its sessions and their connections end, rows stay.
SenderCrash ==
  /\ Crash(0)
  /\ serve' = [k \in Runs |-> IF link[k].st = "free" THEN serve[k]
                              ELSE [serve[k] EXCEPT !.pc = "gone"]]
  /\ link' = [k \in Runs |-> IF link[k].st = "free" THEN link[k]
                             ELSE [link[k] EXCEPT !.st = "closed", !.toServer = <<>>]]
  /\ data' = [k \in Runs |-> IF data[k].st = "none" THEN data[k]
                             ELSE [data[k] EXCEPT !.st = "eof"]]
  /\ UNCHANGED <<receiverStore, senderStore, sDisk, client, told>>

-----------------------------------------------------------------------------
(* The specification *)

UserStep ==
  \/ StartTransfer \/ PauseReceiving \/ PauseSending \/ RetryReceiving
  \/ \E o \in Objects : ItemActivated(o)

DeviceStep ==
  \/ InsertRows \/ Forget \/ ReceiverCrash \/ SenderCrash
  \/ \E o \in Objects : RewriteFile(o) \/ HideFile(o)

NetworkStep == \E k \in Runs : LinkBreaks(k) \/ DataBreaks(k)

Next == ClientStep \/ (\E k \in Runs : SessionStep(k)) \/ UserStep \/ DeviceStep \/ NetworkStep

Spec == Init /\ [][Next]_vars

\* Every blocking call of the two threads ends, by an answer or by its timeout, and
\* the thread that inserts the sender's rows is not interrupted.
Fairness ==
  /\ WF_vars(ClientStep)
  /\ \A k \in Runs : WF_vars(SessionStep(k))
  /\ WF_vars(InsertRows)

FairSpec == Spec /\ Fairness

-----------------------------------------------------------------------------
(* Properties *)

\* A row is Done only when the file it points to has exactly the size of the row, through
\* reads that overshoot, crashes around the rename, and rows written back from copies.
DoneIsWhole == \A o \in Objects : rFlag[o] = "done" => Len(rFile[o]) = rSize[o]

\* Whatever the receiver has on disk was read by the sender at that very offset: resuming
\* never skips, repeats or mixes the data of two requests, also when an abandoned session
\* is still sending.
Aligned == \A o \in Objects : \A i \in DOMAIN rFile[o] : rFile[o][i].pos = i

\* A file the sender never changed arrives unchanged, whatever is interrupted, retried, broken
\* or restarted on the way: all of it when its size is a uint, and of a larger one as many bytes
\* as are left of the size.
UnchangedFileArrives ==
  \A o \in Objects : rFlag[o] = "done" /\ sDisk[o].ver = 0 =>
    rFile[o] = [i \in 1 .. ToUInt(Announced[o]) |-> [ver |-> 0, pos |-> i]]

\* "Share large files": a file the sender never changed is there with all its bytes once it is Done,
\* also one whose size is no uint.
LargeFileArrives ==
  \A o \in Objects : rFlag[o] = "done" /\ sDisk[o].ver = 0 => Len(rFile[o]) = Announced[o]

\* taskDone is emitted on either side only when every row of the receiver is Done.
JobDoneIsTrue == told # {} => \A o \in Objects : rFlag[o] = "done"

\* As long as the receiving application has not died, a row is Running only while the
\* client thread is receiving that object: no exit of the loop leaves one behind, and no
\* death of the sender does.
RunningHasReceiver ==
  \A o \in Objects : rFlag[o] = "running" /\ spent.deaths = 0 =>
    client.pc \in {"recv", "record"} /\ myObj = o

\* The recursion of run() is not bounded by m_attemptsLeft.  It is bounded because each
\* failure takes an object out of Pending, and only the user puts objects back.
RetriesAreBounded ==
  client.depth + Cardinality(Pending) <= Cardinality(Objects) * (1 + spent.clicks)

\* No step undoes a Done row, although rows are rewritten from copies read earlier.
DoneIsFinal == [][\A o \in Objects : rFlag[o] = "done" => rFlag'[o] = "done"]_vars

\* Every run of the client ends, by whatever way.
RunEnds == client.pc # "off" ~> client.pc = "off"

\* A session ends once its client is gone: none waits forever.
SessionEnds ==
  \A k \in Runs : (serve[k].pc \in {"serve", "connect", "send"} /\ link[k].st = "closed")
                    ~> serve[k].pc \in {"gone", "leaked"}

\* The size the sender announces with a changed file protects a resumed file: a Done file
\* is pieced together from two versions only if their sizes leave no trace of the change.
ResumeIsConsistent ==
  \A o \in Objects : rFlag[o] = "done" /\ (\E i, j \in DOMAIN rFile[o] : rFile[o][i].ver # rFile[o][j].ver)
    => rSize[o] = sDisk[o].len

\* While no transfer is active, every row is one that a transfer or "Retry receiving"
\* can take up again, or is finished.
RestIsResumable ==
  client.pc = "off" => \A o \in Objects : rFlag[o] # "running"

\* The promise: rows that are not Done or Removed are open, the object the client is
\* busy with is the current one, and either taskDone is the announcement.
Delivery == INSTANCE FileDelivery WITH
  Nothing   <- NoObject,
  status    <- [o \in Objects |-> CASE rFlag[o] = "done" -> "arrived"
                                    [] rFlag[o] = "removed" -> "dropped"
                                    [] OTHER -> "open"],
  current   <- IF client.pc \in {"await", "accept", "recv", "record"} THEN myObj ELSE NoObject,
  announced <- told # {}

\* The transfer implements that promise: every step is one of its steps or changes
\* nothing it speaks of.
DeliverySpec == Delivery!Spec

===============================================================================
