---------------------------- MODULE SeamlessServer ----------------------------
(***************************************************************************)
(* The sending side, src/broadcast/SeamlessServer.cpp: connected() runs    *)
(* once per control connection, on a thread of its own; k is the session.  *)
(***************************************************************************)
EXTENDS TransferState

Becomes(k, pc) == serve' = [serve EXCEPT ![k].pc = pc]

\* The request handled when a message of the client is at the head of the queue.
Request(k) == Head(link[k].toServer)
HasRequest(k) == link[k].toServer # <<>>

\* The session attaches its task and answers the first message.  A refusal returns
\* from the function: the task stays attached, the connection is deleted.
Greet(k) ==
  /\ serve[k].pc = "none"
  /\ HasRequest(k)
  /\ IF sGroup = "known"
     THEN /\ ServerReplies(k, [kind |-> "welcome"])
          /\ Becomes(k, IF link[k].st = "open" THEN "serve" ELSE "gone")
     ELSE /\ link' = [link EXCEPT
               ![k] = [st |-> "closed", toServer |-> <<>>,
                       toClient |-> IF @.st = "open"
                                    THEN Append(@.toClient, [kind |-> "refused", error |->
                                           IF sGroup = "stranger" THEN "notAllowed" ELSE "notFound"])
                                    ELSE @.toClient]]
          /\ Becomes(k, IF link[k].st = "open" THEN "leaked" ELSE "gone")
  /\ UNCHANGED <<receiverStore, senderStore, sDisk, client, data, told, spent>>

\* "result": false from the client.  With jobDone the session ends, else it interrupts
\* its task and stays for the next message.
TakeBye(k) ==
  /\ serve[k].pc = "serve"
  /\ HasRequest(k) /\ Request(k).kind = "bye"
  /\ IF Request(k).done
     THEN /\ told' = told \cup {k}
          /\ Becomes(k, "gone")
          /\ ServerCloses(k)
     ELSE /\ serve' = [serve EXCEPT ![k].intr = TRUE]
          /\ link' = [link EXCEPT ![k].toServer = Tail(@)]
          /\ UNCHANGED told
  /\ UNCHANGED <<receiverStore, senderStore, sDisk, client, data, spent>>

\* A reply outside the inner try: when it cannot be sent the session ends.
ReplyOrEnd(k, m) ==
  IF link[k].st = "open"
  THEN ServerReplies(k, m) /\ UNCHANGED serve
  ELSE ServerCloses(k) /\ Becomes(k, "gone")

\* Defect: a paused session takes the request without a reply.
IgnoreInterrupted(k) ==
  /\ serve[k].pc = "serve" /\ serve[k].intr
  /\ HasRequest(k) /\ Request(k).kind = "file"
  /\ link' = [link EXCEPT ![k].toServer = Tail(@)]
  /\ UNCHANGED <<receiverStore, senderStore, sDisk, client, serve, data, told, spent>>

RefuseInterrupted(k) ==
  /\ serve[k].pc = "serve" /\ serve[k].intr
  /\ HasRequest(k) /\ Request(k).kind = "file"
  /\ ReplyOrEnd(k, [kind |-> "bye"])
  /\ UNCHANGED <<receiverStore, senderStore, sDisk, client, data, told, spent>>

RefuseMissingRow(k) ==
  /\ serve[k].pc = "serve" /\ ~serve[k].intr
  /\ HasRequest(k) /\ Request(k).kind = "file" /\ ~sRow[Request(k).obj]
  /\ ReplyOrEnd(k, [kind |-> "missing", error |-> "notFound"])
  /\ UNCHANGED <<receiverStore, senderStore, sDisk, client, data, told, spent>>

\* The file cannot be opened.  When the reply fails its catch still updates the row,
\* but the flag is set only after the reply.
RefuseUnreadable(k) ==
  /\ serve[k].pc = "serve" /\ ~serve[k].intr
  /\ HasRequest(k) /\ Request(k).kind = "file" /\ sRow[Request(k).obj]
  /\ ~sDisk[Request(k).obj].readable
  /\ ServerReplies(k, [kind |-> "missing", error |-> "notAccessible"])
  /\ sFlag' = IF link[k].st = "open"
              THEN [sFlag EXCEPT ![Request(k).obj] = "interrupted"] ELSE sFlag
  /\ UNCHANGED <<receiverStore, sGroup, sRow, sSize, sDisk, client, serve, data, told, spent>>

\* The file opens: the reply names its size if the row, whose size is a uint, has another
\* one.  When the reply fails the row is updated all the same, now with the new size.
AcceptFile(k) ==
  /\ serve[k].pc = "serve" /\ ~serve[k].intr
  /\ HasRequest(k) /\ Request(k).kind = "file" /\ sRow[Request(k).obj]
  /\ LET r == Request(k)
         len == sDisk[r.obj].len
     IN  /\ sDisk[r.obj].readable
         /\ ServerReplies(k, [kind |-> "accept", changed |-> sSize[r.obj] # len, size |-> len])
         /\ IF link[k].st = "open"
            THEN /\ serve' = [serve EXCEPT ![k].pc = "connect", ![k].obj = r.obj, ![k].size = len,
                                ![k].flag = sFlag[r.obj], ![k].pos = ToUInt(r.skip), ![k].bit = r.bit]
                 /\ UNCHANGED senderStore
            ELSE /\ sSize' = [sSize EXCEPT ![r.obj] = ToUInt(len)]
                 /\ UNCHANGED <<serve, sGroup, sRow, sFlag>>
  /\ UNCHANGED <<receiverStore, sDisk, client, data, told, spent>>

\* The port of the request is open as long as the client is busy with that request.
Listening(k) ==
  client.run = k /\ client.bit = serve[k].bit /\ client.pc \in {"await", "accept"}

\* The row becomes Running, then the data connection is made.
ConnectData(k) ==
  /\ serve[k].pc = "connect"
  /\ Listening(k)
  /\ data' = [data EXCEPT ![k] = [st |-> "open", buf |-> <<>>]]
  /\ serve' = [serve EXCEPT ![k].pc = "send", ![k].flag = "running"]
  /\ IF serve[k].flag # "running"
     THEN UpdateSenderRow(serve[k].obj, "running", serve[k].size)
     ELSE UNCHANGED <<sFlag, sSize>>
  /\ UNCHANGED <<receiverStore, sGroup, sRow, sDisk, client, link, told, spent>>

\* "Did not connect": the exception leaves the row Running.
ConnectDataFails(k) ==
  /\ serve[k].pc = "connect"
  /\ FailsWhen(~Listening(k))
  /\ serve' = [serve EXCEPT ![k].pc = "serve", ![k].flag = "running"]
  /\ UpdateSenderRow(serve[k].obj, "running", serve[k].size)
  /\ UNCHANGED <<receiverStore, sGroup, sRow, sDisk, client, link, data, told>>

AtEnd(k) == serve[k].pos >= sDisk[serve[k].obj].len

\* One chunk is read and written to the socket; a socket whose peer is gone swallows it.
SendChunk(k) ==
  /\ serve[k].pc = "send"
  /\ ~AtEnd(k)
  /\ data[k].st = "open" => Len(data[k].buf) < MaxInFlight
  /\ serve' = [serve EXCEPT ![k].pos = @ + 1]
  /\ data' = IF data[k].st = "open"
             THEN [data EXCEPT ![k].buf =
                     Append(@, [ver |-> sDisk[serve[k].obj].ver, pos |-> serve[k].pos + 1])]
             ELSE data
  /\ UNCHANGED <<receiverStore, senderStore, sDisk, client, link, told, spent>>

\* The row is written, the data socket closed, and the session waits for a request.
EndSending(k, flag) ==
  /\ UpdateSenderRow(serve[k].obj, flag, serve[k].size)
  /\ serve' = [serve EXCEPT ![k].pc = "serve", ![k].flag = flag]
  /\ data' = IF data[k].st = "open" THEN [data EXCEPT ![k].st = "eof"] ELSE data
  /\ UNCHANGED <<receiverStore, sGroup, sRow, sDisk, client, link, told>>

SendDone(k) ==
  /\ serve[k].pc = "send"
  /\ AtEnd(k)
  /\ EndSending(k, "done")
  /\ UNCHANGED spent

\* Interrupted, or the bytes are not written in time.
SendFails(k) ==
  /\ serve[k].pc = "send"
  /\ ~AtEnd(k)
  /\ FailsWhen(serve[k].intr \/ data[k].st # "open")
  /\ EndSending(k, "interrupted")

\* Defect: waiting for the first message is the only wait with an end.
WaitForever(k) ==
  /\ serve[k].pc = "none" /\ link[k].st = "closed" /\ ~HasRequest(k)
  /\ Becomes(k, "gone")
  /\ UNCHANGED <<receiverStore, senderStore, sDisk, client, link, data, told, spent>>

\* No further message.  An exception ends the session properly; a message without
\* content returns from the function and leaves the task attached.
ServerReceiveFails(k) ==
  /\ serve[k].pc \in {"none", "serve"}
  /\ link[k].st # "free"
  /\ ~HasRequest(k)
  /\ FailsWhen(link[k].st = "closed")
  /\ \/ Becomes(k, "gone")
     \/ serve[k].pc = "serve" /\ Becomes(k, "leaked")
  /\ ServerCloses(k)
  /\ UNCHANGED <<receiverStore, senderStore, sDisk, client, data, told>>

SessionStep(k) ==
  \/ Greet(k) \/ TakeBye(k) \/ RefuseInterrupted(k) \/ RefuseMissingRow(k)
  \/ RefuseUnreadable(k) \/ AcceptFile(k) \/ ConnectData(k) \/ ConnectDataFails(k)
  \/ SendChunk(k) \/ SendDone(k) \/ SendFails(k) \/ ServerReceiveFails(k)

=============================================================================
