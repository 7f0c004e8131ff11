---------------------------- MODULE SeamlessClient ----------------------------
(***************************************************************************)
(* The receiving thread, src/broadcast/SeamlessClient.cpp.  One action per *)
(* stretch of run() between two points where it waits for somebody else.   *)
(***************************************************************************)
EXTENDS TransferState

\* TransferUtils::startTransfer, when no task of the group is active: a new thread.
StartTransfer ==
  /\ client.pc = "off"
  /\ client.run < MaxRuns
  /\ client' = [client EXCEPT !.pc = "start", !.run = @ + 1, !.obj = NoObject, !.intr = FALSE,
                              !.retry = FALSE, !.depth = 0]
  /\ UNCHANGED <<receiverStore, senderStore, sDisk, serve, link, data, told, spent>>

\* Nothing to reconstruct, handshake rejected, no connection: the run is over.
ConnectFails ==
  /\ client.pc = "start"
  /\ client' = [client EXCEPT !.pc = "off"]
  /\ UNCHANGED <<receiverStore, senderStore, sDisk, serve, link, data, told, spent>>

\* The handshake went well; the seamless connection opens with group and device.
OpenSeamless ==
  /\ client.pc = "start"
  /\ client' = [client EXCEPT !.pc = "hello"]
  /\ link' = [link EXCEPT ![myRun] = [st |-> "open", toServer |-> <<[kind |-> "hello"]>>,
                                   toClient |-> <<>>]]
  /\ UNCHANGED <<receiverStore, senderStore, sDisk, serve, data, told, spent>>

Welcomed ==
  /\ client.pc = "hello"
  /\ ClientReceives(myRun, [kind |-> "welcome"])
  /\ client' = [client EXCEPT !.pc = "loop"]
  /\ UNCHANGED <<receiverStore, senderStore, sDisk, serve, data, told, spent>>

\* Defect: the update lacks its condition on the flag.
RemoveEvery == [o \in Objects |-> "removed"]

RemoveUnfinished == [o \in Objects |-> IF rFlag[o] # "done" THEN "removed" ELSE rFlag[o]]

\* The sender does not know the group: nothing but Done rows can still be received.
Refused ==
  /\ client.pc = "hello"
  /\ link[myRun].toClient # <<>>
  /\ LET m == Head(link[myRun].toClient) IN
       /\ m.kind = "refused"
       /\ rFlag' = IF m.error = "notFound" THEN RemoveUnfinished ELSE rFlag
  /\ ClientCloses(myRun)
  /\ client' = [client EXCEPT !.pc = "off"]
  /\ UNCHANGED <<rSize, rFile, senderStore, sDisk, serve, data, told, spent>>

HelloFails ==
  /\ client.pc = "hello"
  /\ link[myRun].toClient = <<>>
  /\ FailsWhen(link[myRun].st = "closed")
  /\ ClientCloses(myRun)
  /\ client' = [client EXCEPT !.pc = "off"]
  /\ UNCHANGED <<receiverStore, senderStore, sDisk, serve, data, told>>

\* Defect: the catch leaves the row as it is.
CatchNothing ==
  /\ UNCHANGED <<rFlag, rSize>>
  /\ client' = [client EXCEPT !.pc = "finish", !.retry = TRUE]

\* The catch of the transfer loop, with an object in hand.
CatchObject ==
  /\ UpdateRow(myObj, "interrupted", client.size)
  /\ client' = [client EXCEPT !.pc = "finish", !.flag = "interrupted", !.retry = TRUE]

\* Defect: "skippedBytes" is left out of the request.
NothingSkipped(o) == 0

\* Defect: "skippedBytes" is the index of the last byte, not their number.
LastIndex(o) == Len(rFile[o]) - 1

\* The file is opened for appending; what it holds already need not be sent.
SkippedBytes(o) == Len(rFile[o])

\* An iteration begins: the first pending object is asked for, on a fresh port.
RequestNext ==
  /\ client.pc = "loop"
  /\ ~client.intr
  /\ link[myRun].st = "open"
  /\ \E o \in Objects :
       /\ FirstAvailable(o)
       /\ client' = [client EXCEPT !.pc = "await", !.obj = o, !.flag = "pending",
                                   !.size = rSize[o], !.bit = ~@]
       /\ ClientSends(myRun, [kind |-> "file", obj |-> o, skip |-> SkippedBytes(o), bit |-> ~client.bit])
  /\ UNCHANGED <<receiverStore, senderStore, sDisk, serve, data, told, spent>>

\* The request cannot be sent: the object is given up for this run.
RequestFails ==
  /\ client.pc = "loop"
  /\ ~client.intr
  /\ link[myRun].st = "closed"
  /\ \E o \in Objects :
       /\ FirstAvailable(o)
       /\ UpdateRow(o, "interrupted", rSize[o])
       /\ client' = [client EXCEPT !.pc = "finish", !.obj = o, !.flag = "interrupted",
                                   !.size = rSize[o], !.bit = ~@, !.retry = TRUE]
  /\ UNCHANGED <<rFile, senderStore, sDisk, serve, link, data, told, spent>>

\* The loop ends: socket closed, interrupted, or no pending object.
LeaveLoop ==
  /\ client.pc = "loop"
  /\ client.intr \/ link[myRun].st = "closed" \/ Pending = {}
  /\ client' = [client EXCEPT !.pc = "finish"]
  /\ UNCHANGED <<receiverStore, senderStore, sDisk, serve, link, data, told, spent>>

\* "jobDone": false in reply to a request: the sender paused, the client interrupts itself.
SenderPaused ==
  /\ client.pc = "await"
  /\ ClientReceives(myRun, [kind |-> "bye"])
  /\ client' = [client EXCEPT !.pc = "finish", !.intr = TRUE]
  /\ UNCHANGED <<receiverStore, senderStore, sDisk, serve, data, told, spent>>

\* An error with the key "flagGroupExists".  The client looks for the key "flag", so
\* neither branch is taken and the row is written back as it was read.
ErrorIgnored ==
  /\ client.pc = "await"
  /\ \E e \in {"notFound", "notAccessible"} : ClientReceives(myRun, [kind |-> "missing", error |-> e])
  /\ UpdateRow(myObj, client.flag, client.size)
  /\ client' = [client EXCEPT !.pc = "loop"]
  /\ UNCHANGED <<rFile, senderStore, sDisk, serve, data, told, spent>>

\* The sender accepts.  A new size is fatal for a file of which bytes are already on
\* disk, and ignored for one that has none.
Accepted ==
  /\ client.pc = "await"
  /\ link[myRun].toClient # <<>>
  /\ LET m == Head(link[myRun].toClient)
         currentSize == ToUInt(m.size)
     IN  /\ m.kind = "accept"
         /\ IF m.changed /\ currentSize # client.size /\ rFile[myObj] # <<>>
            THEN /\ UpdateRow(myObj, "removed", currentSize)
                 /\ client' = [client EXCEPT !.pc = "loop", !.flag = "removed", !.size = currentSize]
                 /\ DropData(myRun)
            ELSE /\ client' = [client EXCEPT !.pc = "accept"]
                 /\ UNCHANGED <<rFlag, rSize, data>>
         /\ ClientReceives(myRun, m)
  /\ UNCHANGED <<rFile, senderStore, sDisk, serve, told, spent>>

AwaitFails ==
  /\ client.pc = "await"
  /\ link[myRun].toClient = <<>>
  /\ FailsWhen(link[myRun].st = "closed")
  /\ CatchObject
  /\ DropData(myRun)
  /\ UNCHANGED <<rFile, senderStore, sDisk, serve, link, told>>

\* waitForNewConnection succeeds: the row becomes Running.
DataConnected ==
  /\ client.pc = "accept"
  /\ data[myRun].st # "none"
  /\ UpdateRow(myObj, "running", client.size)
  /\ client' = [client EXCEPT !.pc = "recv", !.flag = "running"]
  /\ UNCHANGED <<rFile, senderStore, sDisk, serve, link, data, told, spent>>

\* "The other device did not connect in time": the row goes back as it was read.
DataTimeout ==
  /\ client.pc = "accept"
  /\ FailsWhen(data[myRun].st = "none" /\ serve[myRun].pc # "connect")
  /\ UpdateRow(myObj, client.flag, client.size)
  /\ client' = [client EXCEPT !.pc = "loop"]
  /\ DropData(myRun)
  /\ UNCHANGED <<rFile, senderStore, sDisk, serve, link, told>>

AppendToFile(chunks) == rFile' = [rFile EXCEPT ![myObj] = @ \o chunks]

\* One read of the socket appends whatever it returns, even beyond the size.
ReadChunks ==
  /\ client.pc = "recv"
  /\ Len(rFile[myObj]) < client.size
  /\ \E n \in 1 .. Len(data[myRun].buf) :
       /\ AppendToFile(SubSeq(data[myRun].buf, 1, n))
       /\ data' = [data EXCEPT ![myRun].buf = SubSeq(@, n + 1, Len(@))]
  /\ UNCHANGED <<rFlag, rSize, senderStore, sDisk, client, serve, link, told, spent>>

\* Defect: a file that grew beyond its size counts as complete.
SizeReached == Len(rFile[myObj]) >= client.size

SizeMatches == Len(rFile[myObj]) = client.size

\* The receive loop ends.  A file of the right size is renamed (saveIncomingFile) and
\* Done, any other Interrupted; the row is still to be written.
ReceiveEnds ==
  /\ client.pc = "recv"
  /\ \/ Len(rFile[myObj]) >= client.size
     \/ client.intr
     \/ data[myRun].st = "eof" /\ data[myRun].buf = <<>>
  /\ client' = [client EXCEPT !.pc = "record",
                  !.flag = IF SizeMatches THEN "done" ELSE "interrupted"]
  /\ DropData(myRun)
  /\ UNCHANGED <<receiverStore, senderStore, sDisk, serve, link, told, spent>>

\* No data for longer than TIMEOUT_SOCKET_DEFAULT.
ReceiveStalls ==
  /\ client.pc = "recv"
  /\ Len(rFile[myObj]) < client.size
  /\ FailsWhen(data[myRun].st = "eof" /\ data[myRun].buf = <<>>)
  /\ CatchObject
  /\ DropData(myRun)
  /\ UNCHANGED <<rFile, senderStore, sDisk, serve, link, told>>

RecordFile ==
  /\ client.pc = "record"
  /\ UpdateRow(myObj, client.flag, client.size)
  /\ client' = [client EXCEPT !.pc = "loop"]
  /\ UNCHANGED <<rFile, senderStore, sDisk, serve, link, data, told, spent>>

\* m_attemptsLeft is tested before the recursive call and decremented after it, so
\* every level of the recursion sees its initial value.
AttemptsLeft == 2

\* The run is over: the sender is told whether the job is done, the task is detached,
\* and the thread recurses into run() or ends.
Finish ==
  /\ client.pc = "finish"
  /\ LET isJobDone == ~client.retry /\ ~HasLeftFiles
         again == client.retry /\ AttemptsLeft > 0 /\ ~client.intr /\ client.run < MaxRuns
     IN  /\ \/ told' = IF isJobDone THEN told \cup {0} ELSE told
            \/ link[myRun].st = "closed" /\ UNCHANGED told
         /\ link' = [link EXCEPT
              ![myRun] = [st |-> "closed", toClient |-> <<>>,
                       toServer |-> IF @.st = "open"
                                    THEN Append(@.toServer, [kind |-> "bye", done |-> isJobDone])
                                    ELSE @.toServer]]
         /\ client' = IF again
                      THEN [client EXCEPT !.pc = "start", !.run = @ + 1, !.obj = NoObject,
                                          !.retry = FALSE, !.depth = @ + 1]
                      ELSE [client EXCEPT !.pc = "off"]
  /\ UNCHANGED <<receiverStore, senderStore, sDisk, serve, data, spent>>

ClientStep ==
  \/ ConnectFails \/ OpenSeamless \/ Welcomed \/ Refused \/ HelloFails
  \/ RequestNext \/ RequestFails \/ LeaveLoop
  \/ SenderPaused \/ ErrorIgnored \/ Accepted \/ AwaitFails
  \/ DataConnected \/ DataTimeout \/ ReadChunks \/ ReceiveEnds \/ ReceiveStalls
  \/ RecordFile \/ Finish

=============================================================================
