-------------------------- MODULE SeamlessDataProofs --------------------------
(***************************************************************************)
(* Proofs about the data of SeamlessTransfer: the files are made of the    *)
(* chunks they should be made of, for any objects and any bounds.  The     *)
(* argument follows one request from the client to the session and back:   *)
(* the two take turns, so that a data connection belongs to the request    *)
(* the client is busy with, and what it carries begins where the file ends. *)
(***************************************************************************)
EXTENDS SeamlessTransferProofs, FiniteSetTheorems

-----------------------------------------------------------------------------
(* The inductive invariant *)

NoData(k) == data[k].st = "none" /\ data[k].buf = <<>>

\* Connections that the client has not opened yet, nor anybody else.
FreshConnections ==
  \A k \in Runs : k > client.run \/ (k = client.run /\ client.pc = "start") =>
    link[k].st = "free" /\ link[k].toServer = <<>> /\ serve[k].pc = "none" /\ NoData(k)

Quiet(k) == link[k].toServer = <<>> /\ link[k].toClient = <<>>

OneMessage(k) ==
  \/ Quiet(k)
  \/ Len(link[k].toServer) = 1 /\ link[k].toClient = <<>>
  \/ link[k].toServer = <<>> /\ Len(link[k].toClient) = 1

\* A session about to connect does so for the request of the client.
ConnectsForMe == serve[myRun].pc = "connect" /\ serve[myRun].bit = client.bit

\* Until the first request nobody connects.
Greeting ==
  client.pc = "hello" =>
    /\ OneMessage(myRun)
    /\ \A i \in DOMAIN link[myRun].toServer : link[myRun].toServer[i].kind = "hello"
    /\ serve[myRun].pc # "connect" /\ NoData(myRun)

TheRequest == [kind |-> "file", obj |-> myObj, skip |-> Len(rFile[myObj]), bit |-> client.bit]

\* The client waits for the answer to its request and for nothing else.  While the request has not
\* been read, a session about to connect does so for an earlier one; when it has been answered, for
\* this one; and not at all when the answer is no.
Awaiting ==
  client.pc = "await" =>
    /\ OneMessage(myRun)
    /\ \A i \in DOMAIN link[myRun].toServer : link[myRun].toServer[i] = TheRequest
    /\ link[myRun].toServer # <<>> => NoData(myRun) /\ ~ConnectsForMe
    /\ link[myRun].toClient # <<>> /\ serve[myRun].pc = "connect" => ConnectsForMe
    /\ link[myRun].toClient # <<>> /\ Head(link[myRun].toClient).kind # "accept" =>
         NoData(myRun) /\ serve[myRun].pc # "connect"

\* No message is under way; a session that still tries to connect does so for the last request.
Silent ==
  client.pc \in {"loop", "accept", "recv", "record"} =>
    Quiet(myRun) /\ (serve[myRun].pc = "connect" => ConnectsForMe)

\* A data connection exists only between an accepted request and the end of its receive loop.
NoStrayData == client.pc \in {"loop", "record"} => NoData(myRun)

\* The offset of a longer file begins again at 0 on its way.
Addressable == Len(rFile[myObj]) \in Uint

\* The stream continues the file: what is in the buffer, and what the session reads next.  For a
\* file that is not addressable it need not: nothing of it is read, no row being so large.
Continues ==
  /\ client.pc \in {"await", "accept"} /\ ConnectsForMe =>
       serve[myRun].obj = myObj /\ (Addressable => serve[myRun].pos = Len(rFile[myObj]))
  /\ client.pc \in {"await", "accept", "recv"} =>
       /\ \A i \in DOMAIN data[myRun].buf :
            Addressable => data[myRun].buf[i].pos = Len(rFile[myObj]) + i
       /\ data[myRun].st = "open" =>
            /\ serve[myRun].pc = "send" /\ serve[myRun].obj = myObj
            /\ Addressable => serve[myRun].pos = Len(rFile[myObj]) + Len(data[myRun].buf)

StreamInv ==
  FreshConnections /\ Greeting /\ Awaiting /\ Silent /\ NoStrayData /\ Continues /\ Aligned

Unchanged(o) == sDisk[o].ver = 0

\* Of a file that was never changed there is one version, of one size, everywhere.
OneVersion ==
  /\ \A o \in Objects : Unchanged(o) =>
       /\ sDisk[o].len = Announced[o] /\ rSize[o] = ToUInt(Announced[o])
       /\ \A i \in DOMAIN rFile[o] : rFile[o][i].ver = 0
  /\ client.pc \in {"await", "accept", "recv"} /\ Unchanged(myObj) =>
       \A i \in DOMAIN data[myRun].buf : data[myRun].buf[i].ver = 0
  /\ client.pc = "await" /\ Unchanged(myObj) /\ link[myRun].toClient # <<>> =>
       LET m == Head(link[myRun].toClient) IN m.kind = "accept" => m.size = Announced[myObj]

\* The objects that can still fail in this run of the client, the one it is receiving included.
Unsettled == Pending \cup (IF client.pc = "recv" THEN {myObj} ELSE {})

\* The retries of this run of the client: those behind it, the one decided on, and those to come.
Owed == client.depth + (IF client.retry THEN 1 ELSE 0) + Cardinality(Unsettled)

RetryInv ==
  /\ Owed <= Cardinality(Objects) * (1 + spent.clicks)
  /\ client.pc \in {"await", "accept"} => rFlag[myObj] = "pending"

-----------------------------------------------------------------------------
(* Queues of one message, and connections nobody uses *)

LEMMA ShortQueues ==
  ASSUME NEW T, NEW q \in Seq(T)
  PROVE  /\ q = <<>> <=> Len(q) = 0
         /\ Len(q) = 1 => /\ q # <<>> /\ Tail(q) = <<>> /\ DOMAIN q = {1} /\ Head(q) = q[1]
         /\ \A m \in T : LET a == Append(<<>>, m) IN
              /\ a # <<>> /\ Len(a) = 1 /\ Head(a) = m /\ DOMAIN a = {1} /\ a[1] = m
  <1>1. q = <<>> <=> Len(q) = 0
    BY EmptySeq, LenProperties
  <1>2. ASSUME Len(q) = 1
        PROVE  q # <<>> /\ Tail(q) = <<>> /\ DOMAIN q = {1} /\ Head(q) = q[1]
    <2>1. q # <<>> /\ DOMAIN q = {1} /\ Head(q) = q[1]
      <3>1. q # <<>> /\ DOMAIN q = 1 .. 1
        BY <1>1, <1>2, LenProperties
      <3> QED
        BY <3>1, HeadTailProperties
    <2>2. Tail(q) \in Seq(T) /\ Len(Tail(q)) = 0
      BY <1>2, <2>1, HeadTailProperties
    <2> QED
      BY <2>1, <2>2, EmptySeq, LenProperties
  <1>3. ASSUME NEW m \in T
        PROVE  LET a == Append(<<>>, m) IN
                 /\ a # <<>> /\ Len(a) = 1 /\ Head(a) = m /\ DOMAIN a = {1} /\ a[1] = m
    BY EmptySeq, AppendProperties
  <1> QED
    BY <1>1, <1>2, <1>3

\* What the types say of the connection the client is on.
LEMMA MyConnection ==
  ASSUME TypeInv, client.pc # "off"
  PROVE  /\ myRun \in Runs /\ myRun \in Nat
         /\ link[myRun] \in Link /\ serve[myRun] \in Session /\ data[myRun] \in Data
         /\ link[myRun].toServer \in Seq(ToServer) /\ link[myRun].toClient \in Seq(ToClient)
         /\ data[myRun].buf \in Seq(Chunk)
  BY BoundsAreNat, LinkParts DEF TypeInv, TypeOK, RunNumbered, myRun, Data

SameEnds(k) == link'[k] = link[k] /\ serve'[k] = serve[k] /\ data'[k] = data[k]

\* Whoever touches a connection touches one that is in use.
LEMMA FreshStays ==
  ASSUME TypeInv, FreshConnections,
         \/ client'.run = client.run /\ (client'.pc = "start" => client.pc = "start")
         \/ client'.run = client.run + 1,
         \A k \in Runs :
           \/ SameEnds(k)
           \/ k = client.run /\ client'.pc # "start"
           \/ k = client.run /\ client'.run = client.run + 1
           \/ k < client.run
  PROVE  FreshConnections'
  <1>1. client.run \in Nat
    BY BoundsAreNat DEF TypeInv, TypeOK, Client
  <1>2. \A k \in Runs : k \in Nat
    BY BoundsAreNat
  <1> SUFFICES ASSUME NEW k \in Runs, k > client'.run \/ (k = client'.run /\ client'.pc = "start")
               PROVE  /\ link'[k].st = "free" /\ link'[k].toServer = <<>> /\ serve'[k].pc = "none"
                      /\ data'[k].st = "none" /\ data'[k].buf = <<>>
    BY DEF FreshConnections, NoData
  <1>3. SameEnds(k) /\ (k > client.run \/ (k = client.run /\ client.pc = "start"))
    BY <1>1, <1>2
  <1> QED
    BY <1>3 DEF FreshConnections, NoData, SameEnds

-----------------------------------------------------------------------------
(* The steps of the client *)

\* Steps that leave the conversation, or have not begun it.
LEMMA LeavingKeepsStream ==
  ASSUME TypeInv, FreshConnections', client'.pc \in {"off", "start", "finish"},
         \A o \in Objects : rFile'[o] = rFile[o] \/ rFile'[o] = <<>>, Aligned
  PROVE  StreamInv'
  <1>1. Aligned'
    BY EmptySeq DEF Aligned
  <1> QED
    BY <1>1 DEF StreamInv, Greeting, Awaiting, Silent, NoStrayData, Continues

\* One read moves n chunks from the socket to the end of the file.
Moves(n) ==
  LET f == rFile[myObj]
      b == data[myRun].buf
  IN  /\ Len(rFile'[myObj]) = Len(f) + n /\ DOMAIN rFile'[myObj] = 1 .. Len(f) + n
      /\ \A i \in 1 .. Len(f) : rFile'[myObj][i] = f[i]
      /\ \A i \in 1 .. n : rFile'[myObj][Len(f) + i] = b[i]
      /\ Len(data'[myRun].buf) = Len(b) - n /\ DOMAIN data'[myRun].buf = 1 .. Len(b) - n
      /\ \A i \in 1 .. Len(b) - n : data'[myRun].buf[i] = b[n + i]

LEMMA ReadAppends ==
  ASSUME TypeInv, RowsInv, ReadChunks
  PROVE  /\ myObj \in Objects /\ rFile[myObj] \in Seq(Chunk) /\ rFile'[myObj] \in Seq(Chunk)
         /\ data[myRun].buf \in Seq(Chunk)
         /\ \A o \in Objects \ {myObj} : rFile'[o] = rFile[o]
         /\ \E n \in 1 .. Len(data[myRun].buf) : Moves(n)
  <1> DEFINE f == rFile[myObj]
             b == data[myRun].buf
  <1>1. /\ client.pc = "recv" /\ myObj \in Objects /\ myRun \in Runs
        /\ rFile \in [Objects -> Seq(Chunk)] /\ data \in [Runs -> Data]
        /\ f \in Seq(Chunk) /\ b \in Seq(Chunk)
    BY MyConnection DEF TypeInv, TypeOK, RowsInv, ReadChunks, HandIsOpen, Busy
  <1>2. PICK n \in 1 .. Len(b) :
          /\ rFile' = [rFile EXCEPT ![myObj] = @ \o SubSeq(b, 1, n)]
          /\ data' = [data EXCEPT ![myRun].buf = SubSeq(@, n + 1, Len(@))]
    BY DEF ReadChunks, AppendToFile
  <1>3. /\ rFile'[myObj] = f \o SubSeq(b, 1, n)
        /\ \A o \in Objects \ {myObj} : rFile'[o] = rFile[o]
        /\ data'[myRun].buf = SubSeq(b, n + 1, Len(b))
    BY <1>1, <1>2 DEF Data
  <1>4. Len(b) \in Nat /\ n \in Nat /\ Len(f) \in Nat /\ n <= Len(b)
    BY <1>1, <1>2, LenProperties
  <1>5. \A i \in 1 .. Len(b) : b[i] \in Chunk
    BY <1>1, ElementOfSeq
  <1>6. /\ SubSeq(b, 1, n) \in Seq(Chunk) /\ Len(SubSeq(b, 1, n)) = n
        /\ \A i \in 1 .. n : SubSeq(b, 1, n)[i] = b[i]
    <2>1. \A i \in 1 .. n : b[i] \in Chunk
      BY <1>4, <1>5
    <2> QED
      BY <1>2, <1>4, <2>1, SubSeqProperties
  <1>7. /\ SubSeq(b, n + 1, Len(b)) \in Seq(Chunk) /\ Len(SubSeq(b, n + 1, Len(b))) = Len(b) - n
        /\ \A i \in 1 .. Len(b) - n : SubSeq(b, n + 1, Len(b))[i] = b[n + i]
    <2>1. \A i \in n + 1 .. Len(b) : b[i] \in Chunk
      BY <1>4, <1>5
    <2>2. /\ SubSeq(b, n + 1, Len(b)) \in Seq(Chunk)
          /\ Len(SubSeq(b, n + 1, Len(b))) = IF n + 1 <= Len(b) THEN Len(b) - (n + 1) + 1 ELSE 0
          /\ \A i \in 1 .. Len(b) - (n + 1) + 1 : SubSeq(b, n + 1, Len(b))[i] = b[n + 1 + i - 1]
      <3>1. n + 1 \in Int /\ Len(b) \in Int
        BY <1>4
      <3> QED
        BY <2>1, <3>1, SubSeqProperties
    <2>3. \A x, y \in Nat : y <= x => /\ x - (y + 1) + 1 = x - y
                                     /\ (IF y + 1 <= x THEN x - y ELSE 0) = x - y
                                     /\ \A i \in 1 .. x - y : y + 1 + i - 1 = y + i
      OBVIOUS
    <2> QED
      BY <1>4, <2>2, <2>3
  <1>8. /\ Len(rFile'[myObj]) = Len(f) + n /\ rFile'[myObj] \in Seq(Chunk)
        /\ DOMAIN rFile'[myObj] = 1 .. Len(f) + n
        /\ \A i \in 1 .. Len(f) : rFile'[myObj][i] = f[i]
        /\ \A i \in 1 .. n : rFile'[myObj][Len(f) + i] = b[i]
    <2>1. /\ rFile'[myObj] \in Seq(Chunk) /\ Len(rFile'[myObj]) = Len(f) + n
          /\ \A i \in 1 .. Len(f) + n : rFile'[myObj][i] =
               IF i <= Len(f) THEN f[i] ELSE SubSeq(b, 1, n)[i - Len(f)]
      BY <1>1, <1>3, <1>6, ConcatProperties
    <2>2. DOMAIN rFile'[myObj] = 1 .. Len(f) + n
      BY <2>1, LenProperties
    <2>3. \A i \in 1 .. n : /\ Len(f) + i \in 1 .. Len(f) + n /\ ~(Len(f) + i <= Len(f))
                            /\ (Len(f) + i) - Len(f) = i
      BY <1>4
    <2>4. \A i \in 1 .. Len(f) : i \in 1 .. Len(f) + n /\ i <= Len(f)
      BY <1>4
    <2> QED
      BY <1>6, <2>1, <2>2, <2>3, <2>4
  <1>9. DOMAIN data'[myRun].buf = 1 .. Len(b) - n
    BY <1>3, <1>7, LenProperties
  <1>10. Moves(n)
    BY <1>3, <1>7, <1>8, <1>9 DEF Moves
  <1> QED
    BY <1>1, <1>2, <1>3, <1>8, <1>10

LEMMA ClientStepStream ==
  ASSUME TypeInv, RowsInv, StreamInv, ClientStep
  PROVE  StreamInv'
  <1> USE DEF StreamInv, Addressable, myObj, myRun, receiverStore, senderStore
  <1>0. TypeOK /\ client \in Client /\ client.run \in Nat /\ rFile \in [Objects -> Seq(Chunk)]
    BY BoundsAreNat DEF TypeInv, TypeOK, Client
  <1>k. client.pc # "off"
    BY DEF ClientStep, ConnectFails, OpenSeamless, Welcomed, Refused, HelloFails, RequestNext,
           RequestFails, LeaveLoop, SenderPaused, ErrorIgnored, Accepted, AwaitFails, DataConnected,
           DataTimeout, ReadChunks, ReceiveEnds, ReceiveStalls, RecordFile, Finish
  <1>m. /\ client.run \in Runs /\ link \in [Runs -> Link] /\ data \in [Runs -> Data]
        /\ link[client.run] \in Link /\ data[client.run] \in Data
        /\ link[client.run].toServer \in Seq(ToServer) /\ link[client.run].toClient \in Seq(ToClient)
        /\ data[client.run].buf \in Seq(Chunk)
    BY <1>0, <1>k, MyConnection DEF TypeOK
  <1>f. FreshConnections'
    <2>1. \/ client'.run = client.run /\ client'.pc # "start"
          \/ client'.run = client.run + 1
      <3>1. CASE Finish
        BY <1>0, <3>1 DEF Finish, Client
      <3>2. CASE ReadChunks
        BY <1>0, <3>2 DEF ReadChunks, Client
      <3>3. CASE ConnectFails \/ OpenSeamless \/ Welcomed \/ Refused \/ HelloFails \/ LeaveLoop
        BY <1>0, <3>3 DEF ConnectFails, OpenSeamless, Welcomed, Refused, HelloFails, LeaveLoop, Client
      <3>4. CASE RequestNext \/ RequestFails
        <4>1. CASE RequestNext
          <5>1. PICK o \in Objects : client' = [client EXCEPT !.pc = "await", !.obj = o,
                                       !.flag = "pending", !.size = rSize[o], !.bit = ~@]
            BY <4>1 DEF RequestNext
          <5> QED
            BY <1>0, <5>1 DEF Client
        <4>2. CASE RequestFails
          <5>1. PICK o \in Objects : client' = [client EXCEPT !.pc = "finish", !.obj = o,
                      !.flag = "interrupted", !.size = rSize[o], !.bit = ~@, !.retry = TRUE]
            BY <4>2 DEF RequestFails
          <5> QED
            BY <1>0, <5>1 DEF Client
        <4> QED
          BY <3>4, <4>1, <4>2
      <3>5. CASE \/ SenderPaused \/ ErrorIgnored \/ Accepted \/ AwaitFails \/ DataConnected
                 \/ DataTimeout \/ ReceiveEnds \/ ReceiveStalls \/ RecordFile
        BY <1>0, <3>5 DEF SenderPaused, ErrorIgnored, Accepted, AwaitFails, CatchObject,
             DataConnected, DataTimeout, ReceiveEnds, ReceiveStalls, RecordFile, Client
      <3> QED
        BY <3>1, <3>2, <3>3, <3>4, <3>5 DEF ClientStep
    <2>2. \A k \in Runs : k = client.run \/ SameEnds(k)
      BY <1>0, <1>m DEF SameEnds, ClientStep, ConnectFails, OpenSeamless, Welcomed, Refused, HelloFails, RequestNext,
           RequestFails, LeaveLoop, SenderPaused, ErrorIgnored, Accepted, AwaitFails,
           DataConnected, DataTimeout, ReadChunks, ReceiveEnds, ReceiveStalls, RecordFile, Finish,
           ClientReceives, ClientSends, ClientCloses, DropData
    <2> QED
      BY <2>1, <2>2, FreshStays
  <1>l. ASSUME \/ ConnectFails \/ Refused \/ HelloFails \/ RequestFails \/ LeaveLoop \/ SenderPaused
               \/ AwaitFails \/ ReceiveStalls \/ Finish
        PROVE  StreamInv'
    <2>1. client'.pc \in {"off", "start", "finish"} /\ rFile' = rFile
      BY <1>0, <1>l DEF ConnectFails, Refused, HelloFails, RequestFails, LeaveLoop, SenderPaused, AwaitFails,
           CatchObject, ReceiveStalls, Finish, Client
    <2> QED
      BY <1>f, <2>1, LeavingKeepsStream
  <1>1. CASE OpenSeamless
    <2>1. /\ client.pc = "start" /\ client'.pc = "hello" /\ client'.run = client.run
          /\ serve' = serve /\ data' = data /\ rFile' = rFile
          /\ link'[client.run].toServer = <<[kind |-> "hello"]>> /\ link'[client.run].toClient = <<>>
      BY <1>0, <1>1, <1>m DEF OpenSeamless, Client
    <2>2. serve[client.run].pc = "none" /\ NoData(client.run)
      BY <1>m, <2>1 DEF FreshConnections
    <2> QED
      BY <1>f, <2>1, <2>2 DEF Greeting, Awaiting, Silent, NoStrayData, Continues, Aligned, OneMessage, NoData
  <1>2. CASE Welcomed
    <2>1. /\ client.pc = "hello" /\ client'.pc = "loop" /\ client'.run = client.run
          /\ client'.bit = client.bit /\ serve' = serve /\ data' = data /\ rFile' = rFile
          /\ link[client.run].toClient # <<>>
          /\ link'[client.run].toServer = link[client.run].toServer
          /\ link'[client.run].toClient = Tail(link[client.run].toClient)
      BY <1>0, <1>2, <1>m DEF Welcomed, ClientReceives, Client, Link
    <2>2. link'[client.run].toServer = <<>> /\ link'[client.run].toClient = <<>>
      BY <1>m, <2>1, ShortQueues DEF Greeting, OneMessage, Quiet
    <2> QED
      BY <1>f, <2>1, <2>2 DEF Greeting, Awaiting, Silent, NoStrayData, Continues, Aligned, Quiet, NoData
  <1>3. CASE RequestNext
    <2>1. PICK o \in Objects :
            /\ client' = [client EXCEPT !.pc = "await", !.obj = o, !.flag = "pending",
                                        !.size = rSize[o], !.bit = ~@]
            /\ ClientSends(client.run, [kind |-> "file", obj |-> o, skip |-> Len(rFile[o]),
                                        bit |-> ~client.bit])
      BY <1>3 DEF RequestNext, SkippedBytes
    <2> DEFINE r == [kind |-> "file", obj |-> o, skip |-> Len(rFile[o]), bit |-> ~client.bit]
    <2>2. /\ client.pc = "loop" /\ client'.pc = "await" /\ client'.run = client.run
          /\ client'.bit = ~client.bit /\ client'.obj = o /\ client.bit \in BOOLEAN
          /\ serve' = serve /\ data' = data /\ rFile' = rFile
          /\ link'[client.run].toServer = Append(link[client.run].toServer, r)
          /\ link'[client.run].toClient = link[client.run].toClient
      BY <1>0, <1>3, <1>m, <2>1 DEF RequestNext, ClientSends, Client, Link
    <2>3. r \in ToServer
      BY <1>0, <2>2, LenProperties DEF ToServer
    <2>4. /\ Len(link'[client.run].toServer) = 1 /\ DOMAIN link'[client.run].toServer = {1}
          /\ link'[client.run].toServer[1] = r /\ link'[client.run].toClient = <<>>
      BY <1>m, <2>2, <2>3, ShortQueues DEF Silent, Quiet
    <2>5. r = TheRequest'
      BY <2>2 DEF TheRequest
    <2>6. NoData(client.run) /\ (serve[client.run].pc = "connect" => serve[client.run].bit # client'.bit)
      BY <2>2 DEF NoStrayData, Silent, ConnectsForMe
    <2> QED
      BY <1>f, <2>2, <2>4, <2>5, <2>6 DEF Greeting, Awaiting, Silent, NoStrayData, Continues, Aligned,
           OneMessage, NoData, ConnectsForMe
  <1>4. CASE ErrorIgnored
    <2>1. /\ client.pc = "await" /\ client'.pc = "loop" /\ client'.run = client.run
          /\ client'.bit = client.bit /\ serve' = serve /\ data' = data /\ rFile' = rFile
          /\ link[client.run].toClient # <<>> /\ Head(link[client.run].toClient).kind = "missing"
          /\ link'[client.run].toServer = link[client.run].toServer
          /\ link'[client.run].toClient = Tail(link[client.run].toClient)
      BY <1>0, <1>4, <1>m DEF ErrorIgnored, ClientReceives, Client, Link
    <2>2. link'[client.run].toServer = <<>> /\ link'[client.run].toClient = <<>>
      BY <1>m, <2>1, ShortQueues DEF Awaiting, OneMessage, Quiet
    <2>3. NoData(client.run) /\ serve[client.run].pc # "connect"
      BY <2>1 DEF Awaiting
    <2> QED
      BY <1>f, <2>1, <2>2, <2>3 DEF Greeting, Awaiting, Silent, NoStrayData, Continues, Aligned, Quiet,
           NoData
  <1>5. CASE Accepted
    <2>1. /\ client.pc = "await" /\ client'.run = client.run /\ client'.obj = client.obj
          /\ client'.bit = client.bit /\ serve' = serve /\ rFile' = rFile
          /\ link[client.run].toClient # <<>> /\ Head(link[client.run].toClient).kind = "accept"
          /\ link'[client.run].toServer = link[client.run].toServer
          /\ link'[client.run].toClient = Tail(link[client.run].toClient)
      BY <1>0, <1>5, <1>m DEF Accepted, ClientReceives, Client, Link
    <2>2. link'[client.run].toServer = <<>> /\ link'[client.run].toClient = <<>>
      BY <1>m, <2>1, ShortQueues DEF Awaiting, OneMessage, Quiet
    <2>3. serve[client.run].pc = "connect" => ConnectsForMe /\ ConnectsForMe'
      BY <2>1 DEF Awaiting, ConnectsForMe
    <2>4. CASE client'.pc = "loop" /\ DropData(client.run)
      <3>1. NoData(client.run)'
        BY <1>m, <2>1, <2>4 DEF DropData, NoData
      <3> QED
        BY <1>f, <2>1, <2>2, <2>3, <2>4, <3>1 DEF Greeting, Awaiting, Silent, NoStrayData, Continues,
             Aligned, Quiet
    <2>5. CASE client'.pc = "accept" /\ data' = data
      BY <1>f, <2>1, <2>2, <2>3, <2>5 DEF Greeting, Awaiting, Silent, NoStrayData, Continues,
           Aligned, Quiet, ConnectsForMe
    <2> QED
      BY <1>0, <1>5, <2>4, <2>5 DEF Accepted, Client
  <1>6. CASE DataConnected
    <2>1. /\ client.pc = "accept" /\ client'.pc = "recv" /\ client'.run = client.run
          /\ client'.obj = client.obj /\ client'.bit = client.bit /\ serve' = serve
          /\ data' = data /\ rFile' = rFile /\ link' = link
      BY <1>0, <1>6 DEF DataConnected, Client
    <2> QED
      BY <1>f, <2>1 DEF Greeting, Awaiting, Silent, NoStrayData, Continues, Aligned, Quiet, ConnectsForMe
  <1>7. CASE DataTimeout \/ ReceiveEnds
    <2>1. /\ client.pc \in {"accept", "recv"} /\ client'.pc \in {"loop", "record"}
          /\ client'.run = client.run /\ client'.bit = client.bit /\ serve' = serve
          /\ rFile' = rFile /\ link' = link /\ DropData(client.run)
      BY <1>0, <1>7 DEF DataTimeout, ReceiveEnds, Client
    <2>2. NoData(client.run)'
      BY <1>m, <2>1 DEF DropData, NoData
    <2> QED
      BY <1>f, <2>1, <2>2 DEF Greeting, Awaiting, Silent, NoStrayData, Continues, Aligned, Quiet,
           ConnectsForMe
  <1>8. CASE RecordFile
    <2>1. /\ client.pc = "record" /\ client'.pc = "loop"
          /\ client'.run = client.run /\ client'.bit = client.bit /\ serve' = serve
          /\ rFile' = rFile /\ link' = link /\ data' = data
      BY <1>0, <1>8 DEF RecordFile, Client
    <2> QED
      BY <1>f, <2>1 DEF Greeting, Awaiting, Silent, NoStrayData, Continues, Aligned, Quiet,
           ConnectsForMe, NoData
  <1>9. CASE ReadChunks
    <2> DEFINE f == rFile[client.obj]
               b == data[client.run].buf
    <2>1. PICK n \in 1 .. Len(b) : Moves(n)
      BY <1>9, ReadAppends
    <2>2. /\ client.pc = "recv" /\ client' = client /\ serve' = serve /\ link' = link
          /\ client.obj \in Objects /\ f \in Seq(Chunk)
      BY <1>0, <1>9 DEF ReadChunks, RowsInv, HandIsOpen, Busy
    <2>3. \A o \in Objects \ {client.obj} : rFile'[o] = rFile[o]
      BY <1>9, ReadAppends
    <2>4. /\ Len(b) \in Nat /\ n \in Nat /\ Len(f) \in Nat /\ DOMAIN b = 1 .. Len(b)
          /\ DOMAIN f = 1 .. Len(f)
      BY <1>m, <2>1, <2>2, LenProperties
    <2>5. data'[client.run].st = data[client.run].st
      BY <1>9, <1>m DEF ReadChunks, Data
    <2>6. Len(f) \in Uint
      <3>1. client.size \in Uint /\ Len(f) < client.size
        BY <1>0, <1>9 DEF ReadChunks, Client
      <3> QED
        BY <2>4, <3>1, UintAssumption DEF Uint
    <2>7. /\ Len(rFile'[client.obj]) = Len(f) + n
          /\ DOMAIN rFile'[client.obj] = 1 .. Len(f) + n
          /\ \A i \in 1 .. Len(f) : rFile'[client.obj][i] = f[i]
          /\ \A i \in 1 .. n : rFile'[client.obj][Len(f) + i] = b[i]
          /\ Len(data'[client.run].buf) = Len(b) - n
          /\ DOMAIN data'[client.run].buf = 1 .. Len(b) - n
          /\ \A i \in 1 .. Len(b) - n : data'[client.run].buf[i] = b[n + i]
      BY <2>1 DEF Moves
    <2>8. Aligned'
      <3>1. ASSUME NEW i \in 1 .. Len(f) + n
            PROVE  rFile'[client.obj][i].pos = i
        <4>1. CASE i \in 1 .. Len(f)
          BY <2>2, <2>4, <2>7, <4>1 DEF Aligned
        <4>2. CASE i \notin 1 .. Len(f)
          <5>1. PICK j \in 1 .. n : i = Len(f) + j
            <6>1. i - Len(f) \in 1 .. n /\ i = Len(f) + (i - Len(f))
              BY <2>4, <4>2
            <6> QED
              BY <6>1
          <5>2. j \in DOMAIN b
            BY <2>1, <2>4
          <5> QED
            BY <2>2, <2>6, <2>7, <5>1, <5>2 DEF Continues
        <4> QED
          BY <4>1, <4>2
      <3> QED
        BY <2>3, <2>7, <3>1 DEF Aligned
    <2>9. Continues'
      <3>1. DOMAIN data'[client.run].buf = 1 .. Len(b) - n /\ Len(data'[client.run].buf) = Len(b) - n
        BY <2>7
      <3>2. ASSUME NEW i \in 1 .. Len(b) - n
            PROVE  data'[client.run].buf[i].pos = Len(rFile'[client.obj]) + i
        <4>1. n + i \in DOMAIN b /\ Len(f) + (n + i) = (Len(f) + n) + i
          BY <2>1, <2>4
        <4> QED
          BY <2>2, <2>6, <2>7, <4>1 DEF Continues
      <3>3. Len(f) + Len(b) = (Len(f) + n) + (Len(b) - n)
        <4>1. \A x, y, z \in Nat : x + y = (x + z) + (y - z)
          OBVIOUS
        <4> QED
          BY <2>4, <4>1
      <3> QED
        BY <2>2, <2>5, <2>6, <2>7, <3>1, <3>2, <3>3 DEF Continues
    <2> QED
      BY <1>f, <2>2, <2>8, <2>9 DEF Greeting, Awaiting, Silent, NoStrayData, ConnectsForMe, Quiet
  <1> QED
    BY <1>l, <1>1, <1>2, <1>3, <1>4, <1>5, <1>6, <1>7, <1>8, <1>9 DEF ClientStep

-----------------------------------------------------------------------------
(* The steps of a session *)

\* A session takes the only message of the client's queue, and does not accept.
LEMMA TakingKeepsStream ==
  ASSUME TypeInv, StreamInv, FreshConnections', client' = client, rFile' = rFile, data' = data,
         client.pc # "off", link[myRun].toServer # <<>>, serve'[myRun].pc # "connect",
         link'[myRun].toServer = <<>>,
         \/ link'[myRun].toClient = link[myRun].toClient
         \/ \E m \in ToClient : m.kind # "accept" /\ link'[myRun].toClient = Append(link[myRun].toClient, m)
  PROVE  StreamInv'
  <1> USE DEF StreamInv, Addressable, myObj, myRun
  <1>1. CASE client.pc \in {"hello", "await"}
    <2>1. link[client.run].toClient = <<>> /\ NoData(client.run) /\ ~ConnectsForMe
      BY <1>1, MyConnection, ShortQueues DEF Greeting, Awaiting, OneMessage, Quiet, ConnectsForMe
    <2>2. \/ link'[client.run].toClient = <<>>
          \/ Len(link'[client.run].toClient) = 1 /\ Head(link'[client.run].toClient).kind # "accept"
      <3>1. \A m \in ToClient : LET a == Append(<<>>, m) IN Len(a) = 1 /\ Head(a) = m
        BY EmptySeq, ShortQueues
      <3> QED
        BY <2>1, <3>1
    <2>3. DOMAIN <<>> = {} /\ link'[client.run].toServer = <<>>
      OBVIOUS
    <2> QED
      BY <1>1, <2>1, <2>2, <2>3 DEF Greeting, Awaiting, Silent, NoStrayData, Continues, Aligned, OneMessage,
         Quiet, NoData, ConnectsForMe
  <1>2. CASE client.pc \notin {"hello", "await"}
    BY <1>2 DEF Greeting, Awaiting, Silent, NoStrayData, Continues, Aligned, Quiet
  <1> QED
    BY <1>1, <1>2

LEMMA SessionStepStream ==
  ASSUME TypeInv, RowsInv, StreamInv, NEW k \in Runs, SessionStep(k)
  PROVE  StreamInv'
  <1> USE DEF StreamInv, Addressable, myObj, myRun, receiverStore, senderStore
  <1>0. TypeOK /\ client \in Client /\ client.run \in Nat /\ rFile \in [Objects -> Seq(Chunk)]
        /\ k \in Nat
    <2>1. k \in Nat
      BY BoundsAreNat
    <2>2. TypeOK /\ client \in Client /\ rFile \in [Objects -> Seq(Chunk)]
      BY DEF TypeInv, TypeOK
    <2> QED
      BY <2>1, <2>2, BoundsAreNat DEF Client
  <1>m. /\ serve \in [Runs -> Session] /\ link \in [Runs -> Link] /\ data \in [Runs -> Data]
        /\ link[k] \in Link /\ data[k] \in Data /\ serve[k] \in Session
        /\ link[k].toServer \in Seq(ToServer) /\ link[k].toClient \in Seq(ToClient)
        /\ data[k].buf \in Seq(Chunk)
    BY <1>0, LinkParts DEF TypeOK, Data
  <1>c. UNCHANGED <<client, rFile>>
    BY DEF SessionStep, Greet, TakeBye, RefuseInterrupted, RefuseMissingRow, RefuseUnreadable, AcceptFile,
         ConnectData, ConnectDataFails, SendChunk, SendDone, SendFails, EndSending, ServerReceiveFails
  <1>o. \A j \in Runs : j = k \/ SameEnds(j)
    BY <1>m DEF SameEnds, SessionStep, Greet, TakeBye, RefuseInterrupted, RefuseMissingRow,
         RefuseUnreadable, AcceptFile, ConnectData, ConnectDataFails, SendChunk, SendDone, SendFails,
         EndSending, ServerReceiveFails, ReplyOrEnd, ServerReplies, ServerCloses, Becomes
  <1>u. k < client.run \/ (k = client.run /\ client.pc # "start")
    <2>1. serve[k].pc # "none" \/ link[k].toServer # <<>> \/ link[k].st # "free"
      BY DEF SessionStep, Greet, TakeBye, RefuseInterrupted, RefuseMissingRow, RefuseUnreadable,
           AcceptFile, ConnectData, ConnectDataFails, SendChunk, SendDone, SendFails, ServerReceiveFails,
           HasRequest
    <2> QED
      BY <1>0, <2>1 DEF FreshConnections
  <1>f. FreshConnections'
    <2>1. client'.run = client.run /\ client'.pc = client.pc
      BY <1>c
    <2> QED
      BY <1>o, <1>u, <2>1, FreshStays
  <1>1. CASE client.pc \in {"off", "start", "finish"}
    BY <1>1, <1>c, <1>f, LeavingKeepsStream
  <1>2. CASE client.pc \notin {"off", "start", "finish"} /\ k # client.run
    <2>1. SameEnds(client.run)
      BY <1>0, <1>2, <1>o, MyConnection
    <2> QED
      BY <1>2, <1>c, <1>f, <2>1 DEF Greeting, Awaiting, Silent, NoStrayData, Continues, Aligned, OneMessage,
         Quiet, NoData, ConnectsForMe, TheRequest, SameEnds
  <1>3. CASE client.pc \notin {"off", "start", "finish"} /\ k = client.run
    <2>a. HasRequest(k) => /\ Len(link[k].toServer) = 1 /\ Tail(link[k].toServer) = <<>>
                           /\ Request(k) = link[k].toServer[1] /\ DOMAIN link[k].toServer = {1}
      BY <1>0, <1>3, <1>m, ShortQueues DEF HasRequest, Request, Greeting, Awaiting, Silent, OneMessage, Quiet,
         Client, ClientPc
    <2>1. CASE Greet(k) \/ TakeBye(k) \/ RefuseInterrupted(k) \/ RefuseMissingRow(k) \/ RefuseUnreadable(k)
      <3>1. /\ link[k].toServer # <<>> /\ data' = data /\ serve'[k].pc # "connect"
            /\ link'[k].toServer = Tail(link[k].toServer) \/ link'[k].toServer = <<>>
        BY <1>m, <2>1 DEF Greet, TakeBye, RefuseInterrupted, RefuseMissingRow, RefuseUnreadable,
             ReplyOrEnd, ServerReplies, ServerCloses, Becomes, HasRequest, Session, Link
      <3>2. \/ link'[k].toClient = link[k].toClient
            \/ \E m \in ToClient : m.kind # "accept" /\ link'[k].toClient = Append(link[k].toClient, m)
        <4>1. CASE TakeBye(k)
          BY <1>m, <4>1 DEF TakeBye, ServerCloses, Link
        <4>2. CASE Greet(k)
          <5>1. CASE sGroup = "known"
            BY <1>m, <4>2, <5>1 DEF Greet, ServerReplies, Link, ToClient
          <5>2. CASE sGroup # "known"
            <6> DEFINE m == [kind |-> "refused",
                             error |-> IF sGroup = "stranger" THEN "notAllowed" ELSE "notFound"]
            <6>1. m \in ToClient /\ m.kind # "accept"
              BY DEF ToClient
            <6>2. link'[k].toClient \in {link[k].toClient, Append(link[k].toClient, m)}
              BY <1>m, <4>2, <5>2 DEF Greet, Link
            <6> QED
              BY <6>1, <6>2
          <5> QED
            BY <5>1, <5>2
        <4>3. CASE RefuseInterrupted(k) \/ RefuseMissingRow(k) \/ RefuseUnreadable(k)
          BY <1>m, <4>3 DEF RefuseInterrupted, RefuseMissingRow, RefuseUnreadable, ReplyOrEnd,
             ServerReplies, ServerCloses, Link, ToClient
        <4> QED
          BY <2>1, <4>1, <4>2, <4>3
      <3> QED
        BY <1>3, <1>c, <1>f, <2>a, <3>1, <3>2, TakingKeepsStream DEF HasRequest
    <2>2. CASE AcceptFile(k)
      <3>1. link[k].toServer # <<>> /\ data' = data /\ serve[k].pc = "serve"
            /\ Request(k).kind = "file" /\ link'[k].toServer = <<>>
        BY <1>m, <2>2, <2>a DEF AcceptFile, ServerReplies, HasRequest, Link
      <3>2. CASE link[k].st # "open"
        <4>1. serve'[k].pc # "connect" /\ link'[k].toClient = link[k].toClient
          BY <1>m, <2>2, <3>1, <3>2 DEF AcceptFile, ServerReplies, Link
        <4> QED
          BY <1>3, <1>c, <1>f, <3>1, <4>1, TakingKeepsStream
      <3>3. CASE link[k].st = "open"
        <4>1. /\ client.pc = "await" /\ Request(k) = TheRequest /\ NoData(k)
              /\ link[k].toClient = <<>>
          <5>1. client.pc \in {"hello", "await"}
            BY <1>0, <1>3, <3>1 DEF Silent, Quiet, Client, ClientPc
          <5>2. client.pc # "hello"
            BY <1>3, <2>a, <3>1 DEF HasRequest, Greeting
          <5> QED
            BY <1>3, <2>a, <3>1, <5>1, <5>2 DEF HasRequest, Awaiting, OneMessage, Quiet
        <4>2. /\ serve'[k].pc = "connect" /\ serve'[k].obj = client.obj
              /\ Addressable => serve'[k].pos = Len(rFile[client.obj])
              /\ serve'[k].bit = client.bit
          <5>1. /\ serve'[k].pc = "connect" /\ serve'[k].obj = client.obj
                /\ serve'[k].pos = ToUInt(Len(rFile[client.obj])) /\ serve'[k].bit = client.bit
            BY <1>m, <2>2, <3>3, <4>1 DEF AcceptFile, TheRequest, Session
          <5>2. Addressable => ToUInt(Len(rFile[client.obj])) = Len(rFile[client.obj])
            BY ToUIntIsUint, UintIsNat
          <5> QED
            BY <5>1, <5>2
        <4>3. PICK m : /\ m.kind = "accept" /\ link'[k].toClient = Append(<<>>, m)
                       /\ m \in ToClient
          <5>1. sDisk[Request(k).obj].len \in Nat
            <6>1. client.obj \in Objects
              BY <4>1 DEF RowsInv, HandIsOpen, Busy
            <6> QED
              BY <1>0, <4>1, <6>1 DEF TheRequest, TypeOK
          <5> DEFINE m == [kind |-> "accept", changed |-> sSize[Request(k).obj] # sDisk[Request(k).obj].len,
                           size |-> sDisk[Request(k).obj].len]
          <5>2. m \in ToClient /\ m.kind = "accept"
            BY <5>1 DEF ToClient
          <5>3. link'[k].toClient = Append(<<>>, m)
            BY <1>m, <2>2, <3>3, <4>1 DEF AcceptFile, ServerReplies, Link
          <5> QED
            BY <5>2, <5>3
        <4>4. Len(link'[k].toClient) = 1 /\ Head(link'[k].toClient).kind = "accept" /\ link'[k].toClient # <<>>
          BY <4>3, EmptySeq, ShortQueues
        <4> QED
          BY <1>3, <1>c, <1>f, <3>1, <4>1, <4>2, <4>4 DEF Greeting, Awaiting, Silent, NoStrayData,
             Continues, Aligned, OneMessage, Quiet, NoData, ConnectsForMe
      <3> QED
        BY <3>2, <3>3
    <2>3. CASE ConnectData(k)
      <3>1. /\ data'[k].st = "open" /\ data'[k].buf = <<>> /\ Len(data'[k].buf) = 0
            /\ serve'[k].pc = "send" /\ serve'[k].obj = serve[k].obj /\ serve'[k].pos = serve[k].pos
            /\ link' = link /\ ConnectsForMe /\ client.pc \in {"await", "accept"}
        BY <1>3, <1>m, <2>3 DEF ConnectData, Listening, ConnectsForMe, Session, Data
      <3>2. Len(rFile[client.obj]) \in Nat
        BY <1>0, <1>3, <3>1, LenProperties DEF RowsInv, HandIsOpen, Busy
      <3> QED
        BY <1>3, <1>c, <1>f, <3>1, <3>2 DEF Greeting, Awaiting, Silent, NoStrayData, Continues, Aligned,
           OneMessage, Quiet, ConnectsForMe, TheRequest
    <2>4. CASE ConnectDataFails(k)
      <3>1. /\ serve'[k].pc = "serve" /\ serve[k].pc = "connect" /\ link' = link /\ data' = data
        BY <1>m, <2>4 DEF ConnectDataFails, Session
      <3> QED
        BY <1>3, <1>c, <1>f, <3>1 DEF Greeting, Awaiting, Silent, NoStrayData, Continues, Aligned,
           OneMessage, Quiet, ConnectsForMe, TheRequest, NoData
    <2>5. CASE SendChunk(k)
      <3>1. /\ serve'[k].pc = "send" /\ serve[k].pc = "send" /\ link' = link
            /\ serve'[k].obj = serve[k].obj /\ serve'[k].pos = serve[k].pos + 1
            /\ data'[k].st = data[k].st
        BY <1>m, <2>5 DEF SendChunk, Session, Data
      <3>2. CASE data[k].st # "open"
        <4>1. data' = data
          BY <2>5, <3>2 DEF SendChunk
        <4> QED
          BY <1>3, <1>c, <1>f, <3>1, <3>2, <4>1 DEF Greeting, Awaiting, Silent, NoStrayData, Continues,
             Aligned, OneMessage, Quiet, ConnectsForMe, TheRequest, NoData
      <3>3. CASE data[k].st = "open"
        <4> DEFINE b == data[k].buf
        <4>1. PICK v \in Nat : data'[k].buf = Append(b, [ver |-> v, pos |-> serve[k].pos + 1])
          <5>1. sDisk[serve[k].obj].ver \in Nat
            BY <1>0, <2>5 DEF SendChunk, TypeInv, SessionHasObject, TypeOK
          <5> QED
            BY <1>m, <2>5, <3>3, <5>1 DEF SendChunk, Data
        <4>2. /\ DOMAIN data'[k].buf = 1 .. Len(b) + 1 /\ Len(data'[k].buf) = Len(b) + 1
              /\ \A i \in 1 .. Len(b) : data'[k].buf[i] = b[i]
              /\ data'[k].buf[Len(b) + 1].pos = serve[k].pos + 1
              /\ DOMAIN b = 1 .. Len(b) /\ Len(b) \in Nat
          <5>1. serve[k].pos + 1 \in Nat /\ [ver |-> v, pos |-> serve[k].pos + 1] \in Chunk
            BY <1>m DEF Session, Chunk
          <5> QED
            BY <1>m, <4>1, <5>1, AppendProperties, LenProperties
        <4>3. ~NoData(k) /\ ~NoData(k)'
          BY <3>1, <3>3 DEF NoData
        <4>4. ASSUME client.pc \in {"await", "accept", "recv"}
              PROVE  /\ serve'[k].obj = client.obj
                     /\ Addressable =>
                          /\ serve'[k].pos = Len(rFile[client.obj]) + Len(data'[k].buf)
                          /\ \A i \in DOMAIN data'[k].buf :
                               data'[k].buf[i].pos = Len(rFile[client.obj]) + i
          <5>1. Len(rFile[client.obj]) \in Nat
            BY <1>0, <4>4, LenProperties DEF RowsInv, HandIsOpen, Busy
          <5>2. /\ serve[k].obj = client.obj
                /\ Addressable => /\ serve[k].pos = Len(rFile[client.obj]) + Len(b)
                                  /\ \A i \in 1 .. Len(b) : b[i].pos = Len(rFile[client.obj]) + i
            BY <1>3, <3>3, <4>2, <4>4 DEF Continues
          <5>3. \A x, y \in Nat : x + y + 1 = x + (y + 1)
            OBVIOUS
          <5>4. \A i \in DOMAIN data'[k].buf : i \in 1 .. Len(b) \/ i = Len(b) + 1
            BY <4>2
          <5> QED
            BY <3>1, <4>2, <5>1, <5>2, <5>3, <5>4
        <4>5. Continues'
          BY <1>3, <1>c, <3>1, <4>4 DEF Continues, ConnectsForMe
        <4> QED
          BY <1>3, <1>c, <1>f, <3>1, <3>3, <4>3, <4>5 DEF Greeting, Awaiting, Silent, NoStrayData,
             Aligned, OneMessage, Quiet, ConnectsForMe, TheRequest
      <3> QED
        BY <3>2, <3>3
    <2>6. CASE SendDone(k) \/ SendFails(k)
      <3>1. /\ serve'[k].pc = "serve" /\ serve[k].pc = "send" /\ link' = link
            /\ data'[k].st # "open" /\ data'[k].buf = data[k].buf
            /\ data[k].st = "none" => data'[k].st = "none"
        BY <1>m, <2>6 DEF SendDone, SendFails, EndSending, Session, Data
      <3> QED
        BY <1>3, <1>c, <1>f, <3>1 DEF Greeting, Awaiting, Silent, NoStrayData, Continues, Aligned,
           OneMessage, Quiet, ConnectsForMe, TheRequest, NoData
    <2>7. CASE ServerReceiveFails(k)
      <3>1. /\ serve'[k].pc \notin {"connect", "send"} /\ serve[k].pc \notin {"connect", "send"}
            /\ link[k].toServer = <<>> /\ link'[k].toServer = <<>> /\ data' = data
            /\ link'[k].toClient = link[k].toClient
        BY <1>m, <2>7 DEF ServerReceiveFails, Becomes, ServerCloses, HasRequest, Session, Link
      <3> QED
        BY <1>3, <1>c, <1>f, <3>1 DEF Greeting, Awaiting, Silent, NoStrayData, Continues, Aligned,
           OneMessage, Quiet, ConnectsForMe, TheRequest, NoData
    <2> QED
      BY <2>1, <2>2, <2>3, <2>4, <2>5, <2>6, <2>7 DEF SessionStep
  <1> QED
    BY <1>1, <1>2, <1>3

-----------------------------------------------------------------------------
(* Users, devices and the network *)

\* What the connection of the client may lose without the client knowing.
LEMMA LosingKeepsStream ==
  ASSUME TypeInv, StreamInv, FreshConnections', client' = client, rFile' = rFile,
         serve'[myRun] = serve[myRun] \/ serve'[myRun].pc = "gone",
         link'[myRun].toServer \in {link[myRun].toServer, <<>>},
         link'[myRun].toClient \in {link[myRun].toClient, <<>>},
         data'[myRun].buf \in {data[myRun].buf, <<>>},
         data'[myRun].st = "none" <=> data[myRun].st = "none",
         data'[myRun].st = "open" => data'[myRun] = data[myRun] /\ serve'[myRun] = serve[myRun]
  PROVE  StreamInv'
  <1> USE DEF StreamInv, Addressable, myObj, myRun
  <1>1. CASE client.pc = "off"
    BY <1>1, LeavingKeepsStream
  <1>2. CASE client.pc # "off"
    <2>1. NoData(client.run) => NoData(client.run)'
      BY DEF NoData
    <2>2. serve'[client.run].pc = "connect" => serve'[client.run] = serve[client.run]
      OBVIOUS
    <2>3. ConnectsForMe' => ConnectsForMe
      BY <2>2 DEF ConnectsForMe
    <2>4. OneMessage(client.run) => OneMessage(client.run)'
      BY DEF OneMessage, Quiet
    <2>5. Quiet(client.run) => Quiet(client.run)'
      BY DEF Quiet
    <2>6. link'[client.run].toServer # <<>> => link'[client.run].toServer = link[client.run].toServer
      OBVIOUS
    <2>7. DOMAIN <<>> = {} /\ TheRequest' = TheRequest
      BY DEF TheRequest
    <2>8. Greeting' /\ Silent' /\ NoStrayData' /\ Aligned'
      BY <2>1, <2>2, <2>4, <2>5, <2>7 DEF Greeting, Silent, NoStrayData, Aligned, ConnectsForMe
    <2>9. Awaiting'
      BY <2>1, <2>2, <2>3, <2>4, <2>6, <2>7 DEF Awaiting, ConnectsForMe
    <2>10. Continues'
      BY <2>2, <2>3, <2>7 DEF Continues, ConnectsForMe
    <2> QED
      BY <2>8, <2>9, <2>10
  <1> QED
    BY <1>1, <1>2

LEMMA EnvironmentStream ==
  ASSUME TypeInv, StreamInv, EnvironmentStep \/ UNCHANGED vars
  PROVE  StreamInv'
  <1> USE DEF StreamInv, myObj, myRun, receiverStore, senderStore
  <1>0. TypeOK /\ client \in Client /\ client.run \in Nat /\ rFile \in [Objects -> Seq(Chunk)]
    <2>1. TypeOK /\ client \in Client /\ rFile \in [Objects -> Seq(Chunk)]
      BY DEF TypeInv, TypeOK
    <2> QED
      BY <2>1, BoundsAreNat DEF Client
  <1>m. /\ serve \in [Runs -> Session] /\ link \in [Runs -> Link] /\ data \in [Runs -> Data]
        /\ client.pc # "off" => client.run \in Runs
    BY <1>0 DEF TypeOK, TypeInv, RunNumbered
  <1>1. CASE StartTransfer
    <2>1. /\ client.pc = "off" /\ client'.pc = "start" /\ client'.run = client.run + 1
          /\ UNCHANGED <<serve, link, data, rFile>>
      BY <1>0, <1>1 DEF StartTransfer, Client
    <2>2. FreshConnections'
      BY <2>1, FreshStays DEF SameEnds
    <2> QED
      BY <2>1, <2>2, LeavingKeepsStream
  <1>2. CASE \/ PauseReceiving \/ PauseSending \/ RetryReceiving \/ InsertRows \/ Forget
             \/ \E o \in Objects : ItemActivated(o) \/ RewriteFile(o) \/ HideFile(o)
             \/ UNCHANGED vars
    <2>1. /\ client'.pc = client.pc /\ client'.run = client.run /\ client'.obj = client.obj
          /\ client'.bit = client.bit /\ rFile' = rFile /\ link' = link /\ data' = data
          /\ \A k \in Runs : /\ serve'[k].pc = serve[k].pc /\ serve'[k].obj = serve[k].obj
                             /\ serve'[k].pos = serve[k].pos /\ serve'[k].bit = serve[k].bit
      <3>1. CASE PauseReceiving
        BY <1>0, <3>1 DEF PauseReceiving, Client
      <3>2. CASE PauseSending
        BY <1>m, <3>2 DEF PauseSending, Session
      <3>3. CASE \/ RetryReceiving \/ InsertRows \/ Forget \/ UNCHANGED vars
                 \/ \E o \in Objects : ItemActivated(o) \/ RewriteFile(o) \/ HideFile(o)
        BY <3>3 DEF RetryReceiving, InsertRows, Forget, ItemActivated, RewriteFile, HideFile, vars
      <3> QED
        BY <1>2, <3>1, <3>2, <3>3
    <2>2. FreshConnections'
      BY <2>1 DEF FreshConnections, NoData
    <2>3. CASE client.pc = "off"
      BY <2>1, <2>2, <2>3, LeavingKeepsStream
    <2>4. CASE client.pc # "off"
      <3>1. Continues'
        BY <1>m, <2>1, <2>4 DEF Continues, ConnectsForMe, Addressable
      <3> QED
        BY <1>m, <2>1, <2>2, <2>4, <3>1 DEF Greeting, Awaiting, Silent, NoStrayData, Aligned,
           OneMessage, Quiet, NoData, ConnectsForMe, TheRequest
    <2> QED
      BY <2>3, <2>4
  <1>3. CASE ReceiverCrash
    <2>1. /\ client.pc # "off" /\ client'.pc = "off" /\ client'.run = client.run /\ serve' = serve
          /\ \A o \in Objects : rFile'[o] = rFile[o] \/ rFile'[o] = <<>>
      BY <1>0, <1>3 DEF ReceiverCrash, Client
    <2>2. \A k \in Runs : k = client.run \/ SameEnds(k)
      BY <1>m, <1>3, <2>1 DEF ReceiverCrash, DropData, SameEnds
    <2>3. FreshConnections'
      BY <2>1, <2>2, FreshStays
    <2> QED
      BY <2>1, <2>3, LeavingKeepsStream
  <1>4. CASE SenderCrash
    <2>1. /\ client' = client /\ rFile' = rFile
          /\ \A k \in Runs : /\ data'[k].buf = data[k].buf /\ data'[k].st # "open"
                             /\ data'[k].st = "none" <=> data[k].st = "none"
                             /\ serve'[k] = serve[k] \/ serve'[k].pc = "gone"
                             /\ link'[k].toServer \in {link[k].toServer, <<>>}
                             /\ link'[k].toClient = link[k].toClient
      <3>1. client' = client /\ rFile' = rFile
        BY <1>4 DEF SenderCrash
      <3>2. \A k \in Runs : /\ data'[k].buf = data[k].buf /\ data'[k].st # "open"
                            /\ data'[k].st = "none" <=> data[k].st = "none"
        BY <1>m, <1>4 DEF SenderCrash, Data
      <3>3. \A k \in Runs : serve'[k] = serve[k] \/ serve'[k].pc = "gone"
        BY <1>m, <1>4 DEF SenderCrash, Session
      <3>4. \A k \in Runs : /\ link'[k].toServer \in {link[k].toServer, <<>>}
                            /\ link'[k].toClient = link[k].toClient
        BY <1>m, <1>4 DEF SenderCrash, Link
      <3> QED
        BY <3>1, <3>2, <3>3, <3>4
    <2>2. FreshConnections'
      BY <1>m, <1>4 DEF SenderCrash, FreshConnections, NoData
    <2>3. CASE client.pc = "off"
      BY <2>1, <2>2, <2>3, LeavingKeepsStream
    <2>4. CASE client.pc # "off"
      BY <1>m, <2>1, <2>2, <2>4, LosingKeepsStream
    <2> QED
      BY <2>3, <2>4
  <1>5. ASSUME NEW k \in Runs, LinkBreaks(k) PROVE StreamInv'
    <2>1. /\ client' = client /\ rFile' = rFile /\ serve' = serve /\ data' = data /\ link[k].st = "open"
          /\ link'[k].toServer = <<>> /\ link'[k].toClient = <<>>
          /\ \A j \in Runs \ {k} : link'[j] = link[j]
      BY <1>m, <1>5 DEF LinkBreaks
    <2>2. FreshConnections'
      BY <2>1 DEF FreshConnections, NoData
    <2>3. CASE client.pc = "off"
      BY <2>1, <2>2, <2>3, LeavingKeepsStream
    <2>4. CASE client.pc # "off"
      BY <1>m, <2>1, <2>2, <2>4, LosingKeepsStream
    <2> QED
      BY <2>3, <2>4
  <1>6. ASSUME NEW k \in Runs, DataBreaks(k) PROVE StreamInv'
    <2>1. /\ client' = client /\ rFile' = rFile /\ serve' = serve /\ link' = link /\ data[k].st # "none"
          /\ data'[k].buf = <<>> /\ data'[k].st = "eof"
          /\ \A j \in Runs \ {k} : data'[j] = data[j]
      BY <1>m, <1>6 DEF DataBreaks
    <2>2. FreshConnections'
      BY <2>1 DEF FreshConnections, NoData
    <2>3. CASE client.pc = "off"
      BY <2>1, <2>2, <2>3, LeavingKeepsStream
    <2>4. CASE client.pc # "off"
      BY <1>m, <2>1, <2>2, <2>4, LosingKeepsStream
    <2> QED
      BY <2>3, <2>4
  <1> QED
    BY <1>1, <1>2, <1>3, <1>4, <1>5, <1>6 DEF EnvironmentStep

-----------------------------------------------------------------------------
(* Theorems about the stream *)

LEMMA InitStream == Init => StreamInv
  <1> SUFFICES ASSUME Init PROVE StreamInv
    OBVIOUS
  <1>1. client.pc = "off" /\ client.run = 0 /\ \A o \in Objects : rFile[o] = <<>>
    BY DEF Init
  <1>2. FreshConnections
    BY DEF Init, FreshConnections, NoData
  <1> QED
    BY <1>1, <1>2, EmptySeq DEF StreamInv, Greeting, Awaiting, Silent, NoStrayData, Continues, Aligned

LEMMA StepStream ==
  ASSUME IInv, StreamInv, [Next]_vars
  PROVE  StreamInv'
  <1>1. TypeInv /\ RowsInv
    BY DEF IInv, TypeInv, RowsInv
  <1>2. CASE ClientStep
    BY <1>1, <1>2, ClientStepStream
  <1>3. CASE \E k \in Runs : SessionStep(k)
    BY <1>1, <1>3, SessionStepStream
  <1>4. CASE EnvironmentStep \/ UNCHANGED vars
    BY <1>1, <1>4, EnvironmentStream
  <1> QED
    BY <1>2, <1>3, <1>4, NextSplit

\* The conversation keeps its turns: a data connection, and a session about to open one, belong to
\* the request the client is busy with, and what they carry continues the file.
THEOREM StreamInvariant == Spec => []StreamInv
  <1>1. IInv /\ StreamInv /\ [Next]_vars => StreamInv'
    BY StepStream
  <1> QED
    BY <1>1, InitStream, IInvInvariant, PTL DEF Spec

\* A chunk on the receiver's disk lies at the offset it was read from: resuming skips, repeats and
\* mixes nothing, whatever session is still sending, and although offsets are sent as uints.
THEOREM FilesAreAligned == Spec => []Aligned
  <1>1. StreamInv => Aligned
    BY DEF StreamInv
  <1> QED
    BY <1>1, StreamInvariant, PTL

-----------------------------------------------------------------------------
(* A file that never changed has one version *)

\* A row written back keeps its size, unless the sender announced another one.
LEMMA ClientStepVersion ==
  ASSUME IInv, StreamInv, OneVersion, ClientStep
  PROVE  OneVersion'
  <1> USE DEF myObj, myRun, receiverStore, senderStore
  <1>0. /\ TypeInv /\ RowsInv /\ TypeOK /\ client \in Client /\ rSize \in [Objects -> Uint]
        /\ client.size \in Uint
        /\ client.pc \in {"await", "accept", "recv", "record"} =>
             client.obj \in Objects /\ rSize[client.obj] = client.size
    BY DEF IInv, TypeInv, RowsInv, TypeOK, HandIsOpen, Busy, Client
  <1>k. client.pc # "off"
    BY DEF ClientStep, ConnectFails, OpenSeamless, Welcomed, Refused, HelloFails, RequestNext,
           RequestFails, LeaveLoop, SenderPaused, ErrorIgnored, Accepted, AwaitFails, DataConnected,
           DataTimeout, ReadChunks, ReceiveEnds, ReceiveStalls, RecordFile, Finish
  <1>m. /\ client.run \in Runs /\ link \in [Runs -> Link] /\ data \in [Runs -> Data]
        /\ link[client.run] \in Link
        /\ link[client.run].toServer \in Seq(ToServer) /\ link[client.run].toClient \in Seq(ToClient)
    BY <1>0, <1>k, MyConnection DEF TypeOK
  <1>s. sDisk' = sDisk
    BY DEF ClientStep, ConnectFails, OpenSeamless, Welcomed, Refused, HelloFails, RequestNext,
           RequestFails, LeaveLoop, SenderPaused, ErrorIgnored, Accepted, AwaitFails, DataConnected,
           DataTimeout, ReadChunks, ReceiveEnds, ReceiveStalls, RecordFile, Finish
  <1>1. CASE /\ client'.pc \notin {"await", "accept", "recv"} /\ rFile' = rFile
             /\ \A o \in Objects : rSize'[o] = rSize[o]
    BY <1>1, <1>s DEF OneVersion, Unchanged
  <1>2. CASE \/ ConnectFails \/ OpenSeamless \/ Welcomed \/ Refused \/ HelloFails \/ LeaveLoop
             \/ SenderPaused \/ Finish \/ ReceiveEnds
    <2>1. client'.pc \notin {"await", "accept", "recv"} /\ rFile' = rFile /\ rSize' = rSize
      <3>1. CASE Finish
        BY <1>0, <3>1 DEF Finish, Client
      <3>2. CASE \/ ConnectFails \/ OpenSeamless \/ Welcomed \/ Refused \/ HelloFails \/ LeaveLoop
                 \/ SenderPaused \/ ReceiveEnds
        BY <1>0, <3>2 DEF ConnectFails, OpenSeamless, Welcomed, Refused, HelloFails, LeaveLoop,
           SenderPaused, ReceiveEnds, Client
      <3> QED
        BY <1>2, <3>1, <3>2
    <2> QED
      BY <1>1, <2>1
  <1>3. CASE ErrorIgnored \/ AwaitFails \/ DataTimeout \/ ReceiveStalls \/ RecordFile
    <2>1. /\ client.pc \in {"await", "accept", "recv", "record"} /\ client'.pc \in {"loop", "finish"}
          /\ rFile' = rFile /\ \E f : UpdateRow(client.obj, f, client.size)
      BY <1>0, <1>3 DEF ErrorIgnored, AwaitFails, DataTimeout, ReceiveStalls, RecordFile, CatchObject, Client
    <2>2. \A o \in Objects : rSize'[o] = rSize[o]
      BY <1>0, <2>1, UpdateRowReads
    <2> QED
      BY <1>1, <2>1, <2>2
  <1>4. CASE RequestFails
    <2>1. PICK o \in Objects : /\ UpdateRow(o, "interrupted", rSize[o])
                              /\ client' = [client EXCEPT !.pc = "finish", !.obj = o,
                      !.flag = "interrupted", !.size = rSize[o], !.bit = ~@, !.retry = TRUE]
      BY <1>4 DEF RequestFails
    <2>2. client'.pc = "finish" /\ rFile' = rFile /\ \A p \in Objects : rSize'[p] = rSize[p]
      BY <1>0, <1>4, <2>1, UpdateRowReads DEF RequestFails, Client
    <2> QED
      BY <1>1, <2>2
  <1>5. CASE RequestNext
    <2>1. PICK o \in Objects : /\ client' = [client EXCEPT !.pc = "await", !.obj = o, !.flag = "pending",
                                        !.size = rSize[o], !.bit = ~@]
                              /\ ClientSends(client.run, [kind |-> "file", obj |-> o, skip |-> Len(rFile[o]),
                                        bit |-> ~client.bit])
      BY <1>5 DEF RequestNext, SkippedBytes
    <2>2. /\ client.pc = "loop" /\ client'.run = client.run /\ rFile' = rFile /\ rSize' = rSize
          /\ data' = data /\ link'[client.run].toClient = link[client.run].toClient
      BY <1>0, <1>5, <1>m, <2>1 DEF RequestNext, ClientSends, Client, Link
    <2>3. link[client.run].toClient = <<>> /\ data[client.run].buf = <<>> /\ DOMAIN <<>> = {}
      BY <2>2 DEF StreamInv, Silent, Quiet, NoStrayData, NoData
    <2> QED
      BY <1>s, <2>2, <2>3 DEF OneVersion, Unchanged
  <1>6. CASE Accepted
    <2>1. /\ client.pc = "await" /\ client'.run = client.run /\ client'.obj = client.obj
          /\ rFile' = rFile /\ client'.pc \in {"loop", "accept"}
          /\ client'.pc = "accept" => rSize' = rSize /\ data' = data
      BY <1>0, <1>6 DEF Accepted, Client
    <2>2. ASSUME NEW o \in Objects, Unchanged(o), rSize' # rSize PROVE rSize'[o] = ToUInt(Announced[o])
      <3> DEFINE m == Head(link[client.run].toClient)
      <3>1. /\ UpdateRow(client.obj, "removed", ToUInt(m.size)) /\ m.kind = "accept"
            /\ link[client.run].toClient # <<>>
        BY <1>6, <2>2 DEF Accepted
      <3>4. ToUInt(m.size) \in Uint
        <4>1. m \in ToClient
          BY <1>m, <3>1, HeadTailProperties
        <4> QED
          BY <3>1, <4>1, ToUIntIsUint DEF ToClient
      <3> HIDE DEF m
      <3>2. CASE o = client.obj
        BY <1>0, <2>1, <2>2, <3>1, <3>2, <3>4, UpdateRowReads DEF OneVersion, m
      <3>3. CASE o # client.obj
        BY <1>0, <2>1, <2>2, <3>1, <3>3, <3>4, UpdateRowReads DEF OneVersion, m
      <3> QED
        BY <3>2, <3>3
    <2> QED
      BY <1>s, <2>1, <2>2 DEF OneVersion, Unchanged
  <1>7. CASE DataConnected
    <2>1. /\ client.pc = "accept" /\ client'.pc = "recv" /\ client'.run = client.run
          /\ client'.obj = client.obj /\ rFile' = rFile /\ data' = data
          /\ UpdateRow(client.obj, "running", client.size)
      BY <1>0, <1>7 DEF DataConnected, Client
    <2>2. \A o \in Objects : rSize'[o] = rSize[o]
      BY <1>0, <2>1, UpdateRowReads
    <2> QED
      BY <1>s, <2>1, <2>2 DEF OneVersion, Unchanged
  <1>8. CASE ReadChunks
    <2>1. client' = client /\ client.pc = "recv" /\ rSize' = rSize
      BY <1>8 DEF ReadChunks
    <2>2. Unchanged(client.obj) => \A j \in DOMAIN data[client.run].buf : data[client.run].buf[j].ver = 0
      BY <2>1 DEF OneVersion
    <2>3. PICK n \in 1 .. Len(data[client.run].buf) : Moves(n)
      BY <1>0, <1>8, ReadAppends
    <2>4. Unchanged(client.obj) =>
            /\ \A i \in DOMAIN rFile'[client.obj] : rFile'[client.obj][i].ver = 0
            /\ \A i \in DOMAIN data'[client.run].buf : data'[client.run].buf[i].ver = 0
      <3> DEFINE f == rFile[client.obj]
                 b == data[client.run].buf
      <3>1. /\ client.obj \in Objects /\ DOMAIN f = 1 .. Len(f) /\ DOMAIN b = 1 .. Len(b)
            /\ Len(f) \in Nat /\ Len(b) \in Nat
        BY <1>0, <1>8, ReadAppends, LenProperties
      <3>2. \A i \in 1 .. Len(b) - n : n + i \in DOMAIN b
        BY <2>3, <3>1
      <3>3. \A i \in 1 .. n : i \in DOMAIN b
        BY <2>3, <3>1
      <3>4. \A i \in 1 .. Len(f) + n : i \in 1 .. Len(f) \/ \E j \in 1 .. n : i = Len(f) + j
        <4>1. \A i \in 1 .. Len(f) + n : i \notin 1 .. Len(f) => i - Len(f) \in 1 .. n /\ i = Len(f) + (i - Len(f))
          BY <2>3, <3>1
        <4> QED
          BY <4>1
      <3> QED
        <4>1. /\ DOMAIN rFile'[client.obj] = 1 .. Len(f) + n
              /\ \A i \in 1 .. Len(f) : rFile'[client.obj][i] = f[i]
              /\ \A i \in 1 .. n : rFile'[client.obj][Len(f) + i] = b[i]
              /\ DOMAIN data'[client.run].buf = 1 .. Len(b) - n
              /\ \A i \in 1 .. Len(b) - n : data'[client.run].buf[i] = b[n + i]
          BY <2>3 DEF Moves
        <4>2. Unchanged(client.obj) => \A i \in 1 .. Len(f) : f[i].ver = 0
          BY <3>1 DEF OneVersion
        <4>3. Unchanged(client.obj) => \A i \in DOMAIN b : b[i].ver = 0
          BY <2>2
        <4> HIDE DEF f, b
        <4>4. ASSUME Unchanged(client.obj), NEW i \in 1 .. Len(f) + n
              PROVE  rFile'[client.obj][i].ver = 0
          <5>1. CASE i \in 1 .. Len(f)
            BY <4>1, <4>2, <4>4, <5>1
          <5>2. CASE \E j \in 1 .. n : i = Len(f) + j
            <6>1. PICK j \in 1 .. n : i = Len(f) + j
              BY <5>2
            <6>2. rFile'[client.obj][i] = b[j] /\ j \in DOMAIN b
              BY <3>3, <4>1, <6>1
            <6> QED
              BY <4>3, <4>4, <6>2
          <5> QED
            BY <3>4, <5>1, <5>2
        <4>5. ASSUME Unchanged(client.obj), NEW i \in 1 .. Len(b) - n
              PROVE  data'[client.run].buf[i].ver = 0
          BY <3>2, <4>1, <4>3, <4>5
        <4> QED
          BY <4>1, <4>4, <4>5
    <2>5. \A o \in Objects \ {client.obj} : rFile'[o] = rFile[o]
      BY <1>0, <1>8, ReadAppends
    <2> QED
      BY <1>s, <2>1, <2>4, <2>5 DEF OneVersion, Unchanged
  <1> QED
    BY <1>2, <1>3, <1>4, <1>5, <1>6, <1>7, <1>8 DEF ClientStep

LEMMA OtherStepVersion ==
  ASSUME IInv, StreamInv, OneVersion, (\E k \in Runs : SessionStep(k)) \/ EnvironmentStep \/ UNCHANGED vars
  PROVE  OneVersion'
  <1> USE DEF myObj, myRun, receiverStore, senderStore
  <1>0. /\ TypeInv /\ RowsInv /\ TypeOK /\ client \in Client
        /\ link \in [Runs -> Link] /\ data \in [Runs -> Data] /\ serve \in [Runs -> Session]
        /\ client.pc # "off" => client.run \in Runs
        /\ client.pc \in {"await", "accept", "recv"} => client.obj \in Objects
    BY DEF IInv, TypeInv, RowsInv, TypeOK, RunNumbered, HandIsOpen, Busy
  <1>1. ASSUME NEW k \in Runs, SessionStep(k) PROVE OneVersion'
    <2>1. UNCHANGED <<client, rSize, rFile, sDisk>>
      BY <1>1 DEF SessionStep, Greet, TakeBye, RefuseInterrupted, RefuseMissingRow, RefuseUnreadable,
         AcceptFile, ConnectData, ConnectDataFails, SendChunk, SendDone, SendFails, EndSending,
         ServerReceiveFails
    <2>2. ASSUME client.pc \in {"await", "accept", "recv"}, Unchanged(client.obj),
                 NEW i \in DOMAIN data'[client.run].buf
          PROVE  data'[client.run].buf[i].ver = 0
      <3> DEFINE b == data[client.run].buf
      <3>0. client.run \in Runs /\ client.obj \in Objects /\ b \in Seq(Chunk)
            /\ \A j \in DOMAIN b : b[j].ver = 0
        BY <1>0, <2>2 DEF OneVersion, Data
      <3>1. CASE data'[client.run].buf \in {b, <<>>}
        BY <2>2, <3>0, <3>1
      <3>2. CASE SendChunk(k) /\ k = client.run /\ data[k].st = "open"
        <4>1. serve[k].obj = client.obj
          BY <2>2, <3>2 DEF StreamInv, Continues
        <4>2. data'[k].buf = Append(b, [ver |-> 0, pos |-> serve[k].pos + 1])
          BY <1>0, <2>2, <3>2, <4>1 DEF SendChunk, Data, Unchanged
        <4>3. [ver |-> 0, pos |-> serve[k].pos + 1] \in Chunk
          BY <1>0 DEF Session, Chunk
        <4> QED
          BY <2>2, <3>0, <3>2, <4>2, <4>3, AppendProperties, LenProperties
      <3>3. data'[client.run].buf \in {b, <<>>} \/ (SendChunk(k) /\ k = client.run /\ data[k].st = "open")
        <4>1. CASE SendChunk(k)
          BY <1>0, <3>0, <4>1 DEF SendChunk, Data
        <4>2. CASE ConnectData(k) \/ SendDone(k) \/ SendFails(k)
          <5>1. CASE ConnectData(k)
            BY <1>0, <3>0, <5>1 DEF ConnectData, Data
          <5>2. CASE SendDone(k) \/ SendFails(k)
            <6>1. data' = IF data[k].st = "open" THEN [data EXCEPT ![k].st = "eof"] ELSE data
              BY <5>2 DEF SendDone, SendFails, EndSending
            <6> QED
              BY <1>0, <3>0, <6>1 DEF Data
          <5> QED
            BY <4>2, <5>1, <5>2
        <4>3. CASE ~SendChunk(k) /\ ~ConnectData(k) /\ ~SendDone(k) /\ ~SendFails(k)
          BY <1>1, <4>3 DEF SessionStep, Greet, TakeBye, RefuseInterrupted, RefuseMissingRow,
             RefuseUnreadable, AcceptFile, ConnectDataFails, ServerReceiveFails
        <4> QED
          BY <4>1, <4>2, <4>3
      <3> QED
        BY <3>1, <3>2, <3>3
    <2>3. ASSUME client.pc = "await", Unchanged(client.obj), link'[client.run].toClient # <<>>,
                 Head(link'[client.run].toClient).kind = "accept"
          PROVE  Head(link'[client.run].toClient).size = Announced[client.obj]
      <3>0. /\ client.run \in Runs /\ client.obj \in Objects
            /\ link[client.run].toServer \in Seq(ToServer) /\ link[client.run].toClient \in Seq(ToClient)
        BY <1>0, <2>3, LinkParts
      <3>1. CASE link'[client.run].toClient = link[client.run].toClient
        BY <2>3, <3>1 DEF OneVersion
      <3>2. CASE link'[client.run].toClient # link[client.run].toClient
        <4>1. k = client.run /\ HasRequest(k)
          <5>1. ~(ConnectData(k) \/ ConnectDataFails(k) \/ SendChunk(k) \/ SendDone(k) \/ SendFails(k))
            BY <3>2 DEF ConnectData, ConnectDataFails, SendChunk, SendDone, SendFails, EndSending
          <5>2. ~ServerReceiveFails(k)
            <6>1. \A j \in Runs : link[j] \in [st: {"free", "open", "closed"}, toServer: Seq(ToServer),
                                               toClient: Seq(ToClient)]
              BY <1>0 DEF Link
            <6>2. ServerCloses(k) => link'[client.run].toClient = link[client.run].toClient
              BY <1>0, <3>0, <6>1 DEF ServerCloses
            <6> QED
              BY <3>2, <6>2 DEF ServerReceiveFails
          <5>3. HasRequest(k) /\ \A j \in Runs \ {k} : link'[j] = link[j]
            BY <1>0, <1>1, <5>1, <5>2 DEF SessionStep, Greet, TakeBye, RefuseInterrupted,
               RefuseMissingRow, RefuseUnreadable, AcceptFile, ReplyOrEnd, ServerReplies, ServerCloses
          <5> QED
            BY <3>0, <3>2, <5>3
        <4>2. link[k].toClient = <<>> /\ Request(k) = TheRequest
          BY <2>3, <3>0, <4>1, ShortQueues DEF StreamInv, Awaiting, OneMessage, Quiet, HasRequest, Request
        <4>3. CASE AcceptFile(k)
          <5> DEFINE m == [kind |-> "accept", changed |-> sSize[client.obj] # sDisk[client.obj].len,
                           size |-> sDisk[client.obj].len]
          <5>1. link'[k].toClient = Append(<<>>, m)
            BY <1>0, <3>2, <4>1, <4>2, <4>3 DEF AcceptFile, ServerReplies, TheRequest, Link
          <5>2. m \in ToClient
            BY <1>0, <3>0 DEF ToClient, TypeOK
          <5>3. Head(link'[k].toClient) = m
            BY <5>1, <5>2, EmptySeq, ShortQueues
          <5> QED
            BY <2>3, <3>0, <4>1, <5>3 DEF OneVersion, Unchanged
        <4>4. CASE ~AcceptFile(k)
          <5>1. \E m \in ToClient : m.kind # "accept" /\ link'[k].toClient = Append(<<>>, m)
            <6>1. CASE Greet(k)
              <7>1. CASE sGroup = "known"
                BY <1>0, <3>2, <4>1, <4>2, <6>1, <7>1 DEF Greet, ServerReplies, Link, ToClient
              <7>2. CASE sGroup # "known"
                <8> DEFINE m == [kind |-> "refused",
                                 error |-> IF sGroup = "stranger" THEN "notAllowed" ELSE "notFound"]
                <8>1. m \in ToClient /\ m.kind # "accept"
                  BY DEF ToClient
                <8>2. link'[k].toClient = Append(<<>>, m)
                  BY <1>0, <3>2, <4>1, <4>2, <6>1, <7>2 DEF Greet, Link
                <8> QED
                  BY <8>1, <8>2
              <7> QED
                BY <7>1, <7>2
            <6>2. CASE TakeBye(k) \/ ServerReceiveFails(k)
              BY <1>0, <3>2, <4>1, <6>2 DEF TakeBye, ServerReceiveFails, ServerCloses, Link
            <6>3. CASE RefuseInterrupted(k) \/ RefuseMissingRow(k) \/ RefuseUnreadable(k)
              <7>1. PICK m \in ToClient : m.kind # "accept" /\ (ServerReplies(k, m) \/ ServerCloses(k))
                BY <6>3 DEF RefuseInterrupted, RefuseMissingRow, RefuseUnreadable, ReplyOrEnd, ToClient
              <7>2. link'[k].toClient \in {link[k].toClient, Append(link[k].toClient, m)}
                BY <1>0, <7>1 DEF ServerReplies, ServerCloses, Link
              <7> QED
                BY <3>2, <4>1, <4>2, <7>1, <7>2
            <6>4. CASE ConnectData(k) \/ ConnectDataFails(k) \/ SendChunk(k) \/ SendDone(k) \/ SendFails(k)
              BY <3>2, <6>4 DEF ConnectData, ConnectDataFails, SendChunk, SendDone, SendFails, EndSending
            <6> QED
              BY <1>1, <4>4, <6>1, <6>2, <6>3, <6>4 DEF SessionStep
          <5> QED
            BY <2>3, <4>1, <5>1, EmptySeq, ShortQueues
        <4> QED
          BY <4>3, <4>4
      <3> QED
        BY <3>1, <3>2
    <2> QED
      BY <2>1, <2>2, <2>3 DEF OneVersion, Unchanged
  <1>2. CASE EnvironmentStep \/ UNCHANGED vars
    <2>1. \A o \in Objects : /\ sDisk'[o].ver = 0 => sDisk[o].ver = 0 /\ sDisk'[o].len = sDisk[o].len
                             /\ rSize'[o] = rSize[o] /\ rFile'[o] \in {rFile[o], <<>>}
      <3>1. CASE \E o \in Objects : RewriteFile(o)
        <4>1. PICK o \in Objects, n \in 0 .. MaxLen : sDisk' = [sDisk EXCEPT ![o].ver = @ + 1, ![o].len = n]
          BY <3>1 DEF RewriteFile
        <4>2. sDisk[o].ver \in Nat /\ sDisk[o].ver + 1 # 0
          BY <1>0 DEF TypeOK
        <4>3. sDisk'[o].ver # 0 /\ \A p \in Objects \ {o} : sDisk'[p] = sDisk[p]
          BY <1>0, <4>1, <4>2 DEF TypeOK
        <4> QED
          BY <3>1, <4>3 DEF RewriteFile
      <3>2. CASE \E o \in Objects : HideFile(o)
        BY <1>0, <3>2 DEF HideFile, TypeOK
      <3>3. CASE ReceiverCrash
        BY <1>0, <3>3 DEF ReceiverCrash, TypeOK
      <3>4. CASE \/ StartTransfer \/ PauseReceiving \/ PauseSending \/ RetryReceiving \/ InsertRows
                 \/ Forget \/ SenderCrash \/ (\E o \in Objects : ItemActivated(o)) \/ UNCHANGED vars
                 \/ \E k \in Runs : LinkBreaks(k) \/ DataBreaks(k)
        BY <3>4 DEF StartTransfer, PauseReceiving, PauseSending, RetryReceiving, InsertRows, Forget,
           SenderCrash, ItemActivated, LinkBreaks, DataBreaks, vars
      <3> QED
        BY <1>2, <3>1, <3>2, <3>3, <3>4 DEF EnvironmentStep
    <2>2. client'.pc \in {"await", "accept", "recv"} =>
            /\ client'.pc = client.pc /\ client'.run = client.run /\ client'.obj = client.obj
            /\ data'[client.run].buf \in {data[client.run].buf, <<>>}
            /\ link'[client.run].toClient \in {link[client.run].toClient, <<>>}
      <3>1. CASE StartTransfer \/ ReceiverCrash
        BY <1>0, <3>1 DEF StartTransfer, ReceiverCrash, Client
      <3>2. CASE PauseReceiving
        BY <1>0, <3>2 DEF PauseReceiving, Client
      <3>3. CASE \/ PauseSending \/ RetryReceiving \/ InsertRows \/ Forget \/ UNCHANGED vars
                 \/ \E o \in Objects : ItemActivated(o) \/ RewriteFile(o) \/ HideFile(o)
        BY <3>3 DEF PauseSending, RetryReceiving, InsertRows, Forget, ItemActivated, RewriteFile,
           HideFile, vars
      <3>4. CASE SenderCrash
        BY <1>0, <3>4 DEF SenderCrash, Data, Link
      <3>5. CASE \E k \in Runs : LinkBreaks(k) \/ DataBreaks(k)
        <4>1. PICK k \in Runs : LinkBreaks(k) \/ DataBreaks(k)
          BY <3>5
        <4>2. CASE LinkBreaks(k)
          BY <1>0, <4>2 DEF LinkBreaks, Link
        <4>3. CASE DataBreaks(k)
          BY <1>0, <4>3 DEF DataBreaks, Data
        <4> QED
          BY <4>1, <4>2, <4>3
      <3> QED
        BY <1>2, <3>1, <3>2, <3>3, <3>4, <3>5 DEF EnvironmentStep
    <2> QED
      BY <1>0, <2>1, <2>2 DEF OneVersion, Unchanged
  <1> QED
    BY <1>1, <1>2

\* As long as the sender's file is the one announced, its size and its version are the only ones on
\* the way and on the receiver's disk.
THEOREM OneVersionInvariant == Spec => []OneVersion
  <1>1. Init => OneVersion
    <2> SUFFICES ASSUME Init PROVE OneVersion
      OBVIOUS
    <2>1. client.pc = "off"
      BY DEF Init
    <2>2. \A o \in Objects : /\ sDisk[o].len = Announced[o] /\ rSize[o] = ToUInt(Announced[o])
                            /\ \A i \in DOMAIN rFile[o] : rFile[o][i].ver = 0
      BY EmptySeq DEF Init
    <2> QED
      BY <2>1, <2>2 DEF OneVersion
  <1>2. IInv /\ StreamInv /\ OneVersion /\ [Next]_vars => OneVersion'
    BY NextSplit, ClientStepVersion, OtherStepVersion
  <1> QED
    BY <1>1, <1>2, IInvInvariant, StreamInvariant, PTL DEF Spec

\* A Done file that the sender never changed is that file, chunk by chunk, whatever was interrupted,
\* retried, broken or restarted on the way: as many chunks of it as its size is as a uint.
THEOREM UnchangedFilesArrive == Spec => []UnchangedFileArrives
  <1>1. ASSUME IInv, StreamInv, OneVersion PROVE UnchangedFileArrives
    <2> SUFFICES ASSUME NEW o \in Objects, rFlag[o] = "done", sDisk[o].ver = 0
                 PROVE  rFile[o] = [i \in 1 .. ToUInt(Announced[o]) |-> [ver |-> 0, pos |-> i]]
      BY DEF UnchangedFileArrives
    <2>1. rFile[o] \in Seq(Chunk) /\ Len(rFile[o]) = ToUInt(Announced[o])
      BY <1>1 DEF IInv, TypeOK, DoneIsWhole, OneVersion, Unchanged
    <2>2. DOMAIN rFile[o] = 1 .. ToUInt(Announced[o]) /\ rFile[o] = [i \in 1 .. ToUInt(Announced[o]) |-> rFile[o][i]]
      BY <2>1, LenProperties
    <2>3. ASSUME NEW i \in 1 .. ToUInt(Announced[o]) PROVE rFile[o][i] = [ver |-> 0, pos |-> i]
      <3>1. rFile[o][i] \in Chunk
        BY <2>1, <2>2, ElementOfSeq
      <3>2. rFile[o][i].ver = 0 /\ rFile[o][i].pos = i
        BY <1>1, <2>2 DEF OneVersion, Unchanged, StreamInv, Aligned
      <3> QED
        BY <3>1, <3>2 DEF Chunk
    <2> QED
      BY <2>2, <2>3
  <1> QED
    BY <1>1, IInvInvariant, StreamInvariant, OneVersionInvariant, PTL

-----------------------------------------------------------------------------
(* The recursion of run() is bounded *)

LEMMA SmallerSet ==
  ASSUME NEW A, NEW B, IsFiniteSet(A), B \subseteq A
  PROVE  /\ Cardinality(A) \in Nat /\ Cardinality(B) \in Nat /\ Cardinality(B) <= Cardinality(A)
         /\ \A x \in A : x \notin B => Cardinality(B) + 1 <= Cardinality(A)
  <1>1. /\ IsFiniteSet(B) /\ Cardinality(A) \in Nat /\ Cardinality(B) \in Nat
        /\ Cardinality(B) <= Cardinality(A)
    BY FS_Subset, FS_CardinalityType
  <1>2. ASSUME NEW x \in A, x \notin B PROVE Cardinality(B) + 1 <= Cardinality(A)
    <2>1. IsFiniteSet(A \ {x}) /\ Cardinality(A \ {x}) = Cardinality(A) - 1
      BY FS_RemoveElement
    <2>2. B \subseteq A \ {x}
      BY <1>2
    <2>3. Cardinality(B) <= Cardinality(A \ {x})
      BY <2>1, <2>2, FS_Subset
    <2> QED
      BY <1>1, <2>1, <2>3
  <1> QED
    BY <1>1, <1>2

\* What UpdateRow does to the flags, whatever size it writes.
LEMMA UpdateRowFlags ==
  ASSUME TypeOK, NEW o \in Objects, NEW f, NEW s, UpdateRow(o, f, s)
  PROVE  rFlag'[o] = f /\ \A p \in Objects \ {o} : rFlag'[p] = rFlag[p]
  BY DEF UpdateRow, TypeOK

LEMMA OwedIsNat ==
  ASSUME IInv
  PROVE  /\ IsFiniteSet(Objects) /\ Cardinality(Objects) \in Nat
         /\ Unsettled \subseteq Objects /\ IsFiniteSet(Unsettled)
         /\ Cardinality(Unsettled) \in Nat /\ Cardinality(Unsettled) <= Cardinality(Objects)
         /\ client.depth \in Nat /\ client.retry \in BOOLEAN /\ spent.clicks \in Nat
         /\ Cardinality(Objects) * (1 + spent.clicks) \in Nat
  <1>1. client \in Client /\ spent \in [faults: Nat, edits: Nat, clicks: Nat, crashes: Nat, deaths: Nat]
    BY DEF IInv, TypeOK
  <1>2. client.depth \in Nat /\ client.retry \in BOOLEAN /\ spent.clicks \in Nat
    BY <1>1 DEF Client
  <1>3. IsFiniteSet(Objects) /\ Cardinality(Objects) \in Nat
    BY ObjectsAssumption, FS_CardinalityType
  <1>4. Unsettled \subseteq Objects
    BY DEF IInv, HandIsOpen, Busy, Unsettled, Pending
  <1> QED
    BY <1>2, <1>3, <1>4, SmallerSet, FS_Subset

\* A step that costs a retry takes an object out of the unsettled ones.
LEMMA OwedStays ==
  ASSUME IInv, IInv', RetryInv, spent'.clicks = spent.clicks,
         Unsettled' \subseteq Unsettled,
         \/ client'.depth <= client.depth /\ (client'.retry => client.retry)
         \/ client'.depth = client.depth + 1 /\ client.retry /\ ~client'.retry
         \/ client'.depth = client.depth /\ Unsettled' # Unsettled
  PROVE  Owed' <= Cardinality(Objects) * (1 + spent'.clicks)
  <1> DEFINE a == Cardinality(Unsettled)
             b == Cardinality(Unsettled')
             c == Cardinality(Objects) * (1 + spent.clicks)
             n(r) == IF r THEN 1 ELSE 0
  <1>1. a \in Nat /\ b \in Nat /\ c \in Nat /\ client.depth \in Nat /\ client'.depth \in Nat
        /\ client.retry \in BOOLEAN /\ client'.retry \in BOOLEAN
    <2>1. a \in Nat /\ c \in Nat /\ client.depth \in Nat /\ client.retry \in BOOLEAN
      BY OwedIsNat
    <2>2. b \in Nat
      BY OwedIsNat, SmallerSet
    <2>3. client' \in Client
      BY DEF IInv, TypeOK
    <2> QED
      BY <2>1, <2>2, <2>3 DEF Client
  <1>2. b <= a /\ (Unsettled' # Unsettled => b + 1 <= a)
    BY OwedIsNat, SmallerSet
  <1>3. client.depth + n(client.retry) + a <= c
    BY DEF RetryInv, Owed
  <1>4. client'.depth + n(client'.retry) + b <= c
    <2> HIDE DEF a, b, c
    <2> QED
      BY <1>1, <1>2, <1>3
  <1> QED
    BY <1>4 DEF Owed

\* A user who puts objects back adds at most all of them.
LEMMA OwedClicked ==
  ASSUME IInv, IInv', RetryInv, spent'.clicks = spent.clicks + 1,
         client'.depth = client.depth, client'.retry = client.retry
  PROVE  Owed' <= Cardinality(Objects) * (1 + spent'.clicks)
  <1> DEFINE a == Cardinality(Unsettled)
             b == Cardinality(Unsettled')
             m == Cardinality(Objects)
             r == IF client.retry THEN 1 ELSE 0
  <1>1. a \in Nat /\ b \in Nat /\ m \in Nat /\ client.depth \in Nat /\ r \in Nat
        /\ spent.clicks \in Nat /\ b <= m
    <2>1. Unsettled' \subseteq Objects
      BY DEF IInv, HandIsOpen, Busy, Unsettled, Pending
    <2>2. b \in Nat /\ b <= m
      BY <2>1, OwedIsNat, SmallerSet
    <2> QED
      BY <2>2, OwedIsNat
  <1>3. client.depth + r + a <= m * (1 + spent.clicks)
    BY DEF RetryInv, Owed
  <1>4. m * (1 + (spent.clicks + 1)) = m * (1 + spent.clicks) + m
    <2>1. \A x, y \in Nat : x * (1 + (y + 1)) = x * (1 + y) + x
      OBVIOUS
    <2> QED
      BY <1>1, <2>1
  <1>5. client.depth + r + b <= m * (1 + spent.clicks) + m
    <2> HIDE DEF a, b, m, r
    <2>1. m * (1 + spent.clicks) \in Nat
      BY <1>1
    <2> QED
      BY <1>1, <1>3, <2>1
  <1> QED
    BY <1>4, <1>5 DEF Owed

LEMMA ClientStepRetry ==
  ASSUME IInv, IInv', RetryInv, ClientStep
  PROVE  RetryInv'
  <1> USE DEF myObj, myRun, receiverStore, senderStore
  <1>0. /\ TypeOK /\ client \in Client /\ rFlag \in [Objects -> Flag]
        /\ client.pc \in {"await", "accept", "recv", "record"} => client.obj \in Objects
        /\ client.pc \in {"await", "accept"} => client.flag = "pending" /\ rFlag[client.obj] = "pending"
        /\ client.pc = "record" => client.flag # "pending"
    BY DEF IInv, TypeOK, HandIsOpen, HandFlag, Busy, RetryInv
  <1>c. spent'.clicks = spent.clicks
    <2>1. \A cause : FailsWhen(cause) => spent'.clicks = spent.clicks
      BY <1>0 DEF FailsWhen, Fault, TypeOK
    <2> QED
      BY <2>1 DEF ClientStep, ConnectFails, OpenSeamless, Welcomed, Refused, HelloFails, RequestNext,
           RequestFails, LeaveLoop, SenderPaused, ErrorIgnored, Accepted, AwaitFails, DataConnected,
           DataTimeout, ReadChunks, ReceiveEnds, ReceiveStalls, RecordFile, Finish
  <1>1. CASE \/ ConnectFails \/ OpenSeamless \/ Welcomed \/ LeaveLoop \/ SenderPaused \/ HelloFails
             \/ ReceiveEnds
    <2>1. /\ client'.pc \notin {"await", "accept", "recv"} /\ rFlag' = rFlag
          /\ client'.depth = client.depth /\ client'.retry = client.retry
      BY <1>0, <1>1 DEF ConnectFails, OpenSeamless, Welcomed, LeaveLoop, SenderPaused, HelloFails,
         ReceiveEnds, Client
    <2>2. Unsettled' \subseteq Unsettled
      BY <2>1 DEF Unsettled, Pending
    <2> QED
      BY <1>0, <1>c, <2>1, <2>2, OwedStays DEF RetryInv, Client
  <1>2. CASE Finish
    <2>1. /\ client'.pc \notin {"await", "accept", "recv"} /\ rFlag' = rFlag
          /\ \/ client'.depth = client.depth /\ client'.retry = client.retry
             \/ client'.depth = client.depth + 1 /\ client.retry /\ ~client'.retry
      BY <1>0, <1>2 DEF Finish, Client
    <2>2. Unsettled' \subseteq Unsettled
      BY <2>1 DEF Unsettled, Pending
    <2> QED
      BY <1>0, <1>c, <2>1, <2>2, OwedStays DEF RetryInv, Client
  <1>3. CASE Refused
    <2>1. /\ client'.pc = "off" /\ client.pc = "hello"
          /\ client'.depth = client.depth /\ client'.retry = client.retry
          /\ \A o \in Objects : rFlag'[o] \in {rFlag[o], "removed"}
      BY <1>0, <1>3 DEF Refused, RemoveUnfinished, Client
    <2>2. Unsettled' \subseteq Unsettled
      BY <2>1 DEF Unsettled, Pending
    <2> QED
      BY <1>0, <1>c, <2>1, <2>2, OwedStays DEF RetryInv, Client
  <1>4. CASE RequestNext
    <2>1. PICK o \in Objects : /\ client' = [client EXCEPT !.pc = "await", !.obj = o, !.flag = "pending",
                                        !.size = rSize[o], !.bit = ~@]
                              /\ FirstAvailable(o)
      BY <1>4 DEF RequestNext
    <2>2. /\ client'.pc = "await" /\ client.pc = "loop" /\ client'.obj = o /\ rFlag' = rFlag
          /\ client'.depth = client.depth /\ client'.retry = client.retry /\ rFlag[o] = "pending"
      BY <1>0, <1>4, <2>1 DEF RequestNext, FirstAvailable, Pending, Client
    <2>3. Unsettled' \subseteq Unsettled
      BY <2>2 DEF Unsettled, Pending
    <2> QED
      BY <1>0, <1>c, <2>2, <2>3, OwedStays DEF RetryInv, Client
  <1>5. CASE RequestFails
    <2>1. PICK o \in Objects : /\ UpdateRow(o, "interrupted", rSize[o]) /\ FirstAvailable(o)
                              /\ client' = [client EXCEPT !.pc = "finish", !.obj = o,
                      !.flag = "interrupted", !.size = rSize[o], !.bit = ~@, !.retry = TRUE]
      BY <1>5 DEF RequestFails
    <2>2. /\ client'.pc = "finish" /\ client.pc = "loop" /\ client'.depth = client.depth
          /\ o \in Unsettled
      BY <1>0, <1>5, <2>1 DEF RequestFails, FirstAvailable, Unsettled, Client
    <2>3. Unsettled' \subseteq Unsettled /\ o \notin Unsettled'
      BY <1>0, <2>1, <2>2, UpdateRowFlags DEF Unsettled, Pending
    <2> QED
      BY <1>0, <1>c, <2>2, <2>3, OwedStays DEF RetryInv, Client
  <1>6. CASE AwaitFails \/ ReceiveStalls
    <2>1. /\ UpdateRow(client.obj, "interrupted", client.size) /\ client'.pc = "finish"
          /\ client.pc \in {"await", "recv"} /\ client'.depth = client.depth
      BY <1>0, <1>6 DEF AwaitFails, ReceiveStalls, CatchObject, Client
    <2>2. client.obj \in Unsettled
      BY <1>0, <2>1 DEF Unsettled, Pending
    <2>3. Unsettled' \subseteq Unsettled /\ client.obj \notin Unsettled'
      BY <1>0, <2>1, UpdateRowFlags DEF Unsettled, Pending
    <2> QED
      BY <1>0, <1>c, <2>1, <2>2, <2>3, OwedStays DEF RetryInv, Client
  <1>7. CASE ErrorIgnored \/ DataTimeout \/ RecordFile
    <2>1. /\ UpdateRow(client.obj, client.flag, client.size) /\ client'.pc = "loop"
          /\ client.pc \in {"await", "accept", "record"}
          /\ client'.depth = client.depth /\ client'.retry = client.retry
      BY <1>0, <1>7 DEF ErrorIgnored, DataTimeout, RecordFile, Client
    <2>2. Unsettled' \subseteq Unsettled
      BY <1>0, <2>1, UpdateRowFlags DEF Unsettled, Pending
    <2> QED
      BY <1>0, <1>c, <2>1, <2>2, OwedStays DEF RetryInv, Client
  <1>8. CASE Accepted
    <2>1. /\ client'.pc \in {"loop", "accept"} /\ client.pc = "await" /\ client'.obj = client.obj
          /\ client'.depth = client.depth /\ client'.retry = client.retry
          /\ \/ client'.pc = "loop" /\ \E n : UpdateRow(client.obj, "removed", n)
             \/ rFlag' = rFlag
      BY <1>0, <1>8 DEF Accepted, Client
    <2>2. Unsettled' \subseteq Unsettled
      BY <1>0, <2>1, UpdateRowFlags DEF Unsettled, Pending
    <2> QED
      BY <1>0, <1>c, <2>1, <2>2, OwedStays DEF RetryInv, Client
  <1>9. CASE DataConnected
    <2>1. /\ UpdateRow(client.obj, "running", client.size) /\ client'.pc = "recv"
          /\ client.pc = "accept" /\ client'.obj = client.obj
          /\ client'.depth = client.depth /\ client'.retry = client.retry
      BY <1>0, <1>9 DEF DataConnected, Client
    <2>2. Unsettled' \subseteq Unsettled
      BY <1>0, <2>1, UpdateRowFlags DEF Unsettled, Pending
    <2> QED
      BY <1>0, <1>c, <2>1, <2>2, OwedStays DEF RetryInv, Client
  <1>10. CASE ReadChunks
    <2>1. client' = client /\ rFlag' = rFlag
      BY <1>10 DEF ReadChunks
    <2>2. Unsettled' \subseteq Unsettled
      BY <2>1 DEF Unsettled, Pending
    <2> QED
      BY <1>0, <1>c, <2>1, <2>2, OwedStays DEF RetryInv, Client
  <1> QED
    BY <1>1, <1>2, <1>3, <1>4, <1>5, <1>6, <1>7, <1>8, <1>9, <1>10 DEF ClientStep

LEMMA OtherStepRetry ==
  ASSUME IInv, IInv', RetryInv, (\E k \in Runs : SessionStep(k)) \/ EnvironmentStep \/ UNCHANGED vars
  PROVE  RetryInv'
  <1> USE DEF myObj, myRun, receiverStore, senderStore
  <1>0. /\ TypeOK /\ client \in Client /\ rFlag \in [Objects -> Flag] /\ client.depth \in Nat
        /\ spent \in [faults: Nat, edits: Nat, clicks: Nat, crashes: Nat, deaths: Nat]
        /\ client.pc \in {"await", "accept", "recv"} => client.obj \in Objects
        /\ client.pc \in {"await", "accept"} => rFlag[client.obj] = "pending"
    BY DEF IInv, TypeOK, HandIsOpen, Busy, RetryInv, Client
  <1>a. /\ Fault \/ Edit \/ Crash(0) \/ Crash(1) => spent'.clicks = spent.clicks
        /\ Click => spent'.clicks = spent.clicks + 1
        /\ \A cause : FailsWhen(cause) => spent'.clicks = spent.clicks
    BY <1>0 DEF Fault, Edit, Crash, Click, FailsWhen
  <1>1. CASE client' = client /\ rFlag' = rFlag /\ spent'.clicks = spent.clicks
    <2>1. Unsettled' \subseteq Unsettled
      BY <1>1 DEF Unsettled, Pending
    <2> QED
      BY <1>0, <1>1, <2>1, OwedStays DEF RetryInv
  <1>2. ASSUME NEW k \in Runs, SessionStep(k)
        PROVE  client' = client /\ rFlag' = rFlag /\ spent'.clicks = spent.clicks
    BY <1>2, <1>a DEF SessionStep, Greet, TakeBye, RefuseInterrupted, RefuseMissingRow, RefuseUnreadable,
       AcceptFile, ConnectData, ConnectDataFails, SendChunk, SendDone, SendFails, EndSending,
       ServerReceiveFails
  <1>3. CASE StartTransfer \/ ReceiverCrash
    <2>1. /\ client'.pc \in {"start", "off"} /\ client'.depth <= client.depth /\ rFlag' = rFlag
          /\ client'.retry => client.retry
          /\ spent'.clicks = spent.clicks
      <3>1. CASE StartTransfer
        BY <1>0, <3>1 DEF StartTransfer, Client
      <3>2. CASE ReceiverCrash
        BY <1>0, <1>a, <3>2 DEF ReceiverCrash, Client
      <3> QED
        BY <1>3, <3>1, <3>2
    <2>2. Unsettled' \subseteq Unsettled
      BY <2>1 DEF Unsettled, Pending
    <2> QED
      BY <1>0, <2>1, <2>2, OwedStays DEF RetryInv
  <1>4. CASE \/ InsertRows \/ Forget \/ SenderCrash \/ UNCHANGED vars
             \/ (\E o \in Objects : RewriteFile(o) \/ HideFile(o))
             \/ \E k \in Runs : LinkBreaks(k) \/ DataBreaks(k)
    BY <1>1, <1>4, <1>a DEF InsertRows, Forget, SenderCrash, RewriteFile, HideFile, LinkBreaks, DataBreaks, vars
  <1>5. CASE PauseReceiving \/ PauseSending \/ RetryReceiving \/ \E o \in Objects : ItemActivated(o)
    <2>1. /\ client'.pc = client.pc /\ client'.obj = client.obj
          /\ client'.depth = client.depth /\ client'.retry = client.retry
          /\ spent'.clicks = spent.clicks + 1
          /\ \A o \in Objects : rFlag'[o] \in {rFlag[o], "pending"}
      <3>1. CASE PauseReceiving \/ PauseSending
        BY <1>0, <1>a, <3>1 DEF PauseReceiving, PauseSending, Client
      <3>2. CASE RetryReceiving \/ \E o \in Objects : ItemActivated(o)
        BY <1>0, <1>a, <3>2 DEF RetryReceiving, ItemActivated
      <3> QED
        BY <1>5, <3>1, <3>2
    <2> QED
      BY <1>0, <2>1, OwedClicked DEF RetryInv
  <1> QED
    BY <1>1, <1>2, <1>3, <1>4, <1>5 DEF EnvironmentStep

\* What the client still owes in retries never exceeds the objects, once for the start and once for
\* every action of the user.
THEOREM RetryInvariant == Spec => []RetryInv
  <1>1. ASSUME Init PROVE RetryInv
    <2>1. client.depth = 0 /\ client.retry = FALSE /\ client.pc = "off" /\ spent.clicks = 0
      BY <1>1 DEF Init
    <2>2. Cardinality(Unsettled) \in Nat /\ Cardinality(Objects) \in Nat
          /\ Cardinality(Unsettled) <= Cardinality(Objects)
      BY <1>1, InitIInv, OwedIsNat
    <2>3. \A m, n \in Nat : m <= n => 0 + 0 + m <= n * (1 + 0)
      OBVIOUS
    <2> QED
      BY <2>1, <2>2, <2>3 DEF RetryInv, Owed
  <1>2. IInv /\ IInv' /\ RetryInv /\ [Next]_vars => RetryInv'
    BY NextSplit, ClientStepRetry, OtherStepRetry
  <1> QED
    BY <1>1, <1>2, IInvInvariant, PTL DEF Spec

\* The recursion of run() does not count m_attemptsLeft down, and is bounded all the same.
THEOREM RetriesBounded == Spec => []RetriesAreBounded
  <1>1. ASSUME IInv, RetryInv PROVE RetriesAreBounded
    <2>1. Pending \subseteq Unsettled
      BY DEF Unsettled
    <2>2. Cardinality(Pending) \in Nat /\ Cardinality(Pending) <= Cardinality(Unsettled)
      BY <1>1, <2>1, OwedIsNat, SmallerSet
    <2> QED
      BY <1>1, <2>2, OwedIsNat DEF RetryInv, Owed, RetriesAreBounded
  <1> QED
    BY <1>1, IInvInvariant, RetryInvariant, PTL
=============================================================================
