------------------------ MODULE SeamlessTransferProofs ------------------------
(***************************************************************************)
(* Proofs about SeamlessTransfer, for any set of objects and any bounds.   *)
(***************************************************************************)
EXTENDS SeamlessTransfer, SequenceTheorems, TLAPS

-----------------------------------------------------------------------------
(* The inductive invariant *)

\* The client thread runs on a connection of its own.
RunNumbered == client.pc # "off" => client.run \in Runs

Busy == client.pc \in {"await", "accept", "recv", "record"}

\* An object in hand is still to be received, and the copy has the row's size.
HandIsOpen ==
  Busy => /\ myObj \in Objects
          /\ rFlag[myObj] \in {"pending", "running"}
          /\ rSize[myObj] = client.size

\* What the copy's flag says at each point of the loop.
HandFlag ==
  /\ client.pc \in {"await", "accept"} => client.flag = "pending"
  /\ client.pc = "recv" => client.flag = "running"
  /\ client.pc = "record" =>
       \/ client.flag = "interrupted"
       \/ client.flag = "done" /\ Len(rFile[myObj]) = client.size

SessionHasObject ==
  \A k \in Runs : serve[k].pc \in {"connect", "send"} => serve[k].obj \in Objects

AllDone == \A o \in Objects : rFlag[o] = "done"

\* A farewell on its way to the sender is true until it is read.
ByeIsTrue ==
  \A k \in Runs : \A i \in DOMAIN link[k].toServer :
    LET m == link[k].toServer[i] IN m.kind = "bye" /\ m.done => AllDone

IInv ==
  /\ TypeOK /\ RunNumbered /\ SessionHasObject
  /\ HandIsOpen /\ HandFlag
  /\ DoneIsWhole /\ ByeIsTrue /\ JobDoneIsTrue /\ RunningHasReceiver

-----------------------------------------------------------------------------
(* Type correctness, operator by operator *)

LEMMA BoundsAreNat == MaxRuns \in Nat /\ MaxInFlight \in Nat /\ Runs \subseteq Nat \ {0}
  BY BoundsAssumption DEF Runs

LEMMA FailsWhenType ==
  ASSUME NEW cause \in BOOLEAN, TypeOK, FailsWhen(cause)
  PROVE  spent' \in [faults: Nat, edits: Nat, clicks: Nat, crashes: Nat, deaths: Nat]
  <1>1. spent' = spent \/ spent' = [spent EXCEPT !.faults = @ + 1]
    BY Zenon DEF FailsWhen, Fault
  <1>2. spent \in [faults: Nat, edits: Nat, clicks: Nat, crashes: Nat, deaths: Nat]
    BY DEF TypeOK
  <1>3. [spent EXCEPT !.faults = @ + 1] \in [faults: Nat, edits: Nat, clicks: Nat, crashes: Nat, deaths: Nat]
    BY <1>2
  <1> QED
    BY <1>1, <1>2, <1>3

\* A converted number is a uint, and a uint is converted to itself.
LEMMA ToUIntIsUint ==
  \A n \in Nat : ToUInt(n) \in Uint /\ (n \in Uint => ToUInt(n) = n)
  <1>1. \A n, u \in Nat : u > 0 => n % u \in 0 .. u - 1 /\ (n < u => n % u = n)
    BY Z3
  <1> QED
    BY <1>1, UintAssumption DEF ToUInt, Uint

LEMMA UintIsNat == Uint \subseteq Nat /\ 0 \in Uint
  BY UintAssumption DEF Uint

LEMMA UpdateRowType ==
  ASSUME TypeOK, NEW o, NEW f \in Flag, NEW s \in Nat, UpdateRow(o, f, s)
  PROVE  rFlag' \in [Objects -> Flag] /\ rSize' \in [Objects -> Uint]
  BY ToUIntIsUint DEF TypeOK, UpdateRow

LEMMA UpdateSenderRowType ==
  ASSUME TypeOK, NEW o, NEW f \in Flag, NEW s \in Nat, UpdateSenderRow(o, f, s)
  PROVE  sFlag' \in [Objects -> Flag] /\ sSize' \in [Objects -> Uint]
  BY ToUIntIsUint DEF TypeOK, UpdateSenderRow

LEMMA DropDataType ==
  ASSUME TypeOK, NEW k, DropData(k)
  PROVE  data' \in [Runs -> Data]
  <1>1. [st |-> "none", buf |-> <<>>] \in Data
    BY EmptySeq DEF Data
  <1> QED
    BY <1>1 DEF TypeOK, DropData

\* A link whose queues are rewritten is a link.
LEMMA LinkParts ==
  ASSUME NEW l \in Link
  PROVE  /\ l.st \in {"free", "open", "closed"}
         /\ l.toServer \in Seq(ToServer)
         /\ l.toClient \in Seq(ToClient)
         /\ \A st \in {"free", "open", "closed"}, q \in Seq(ToServer), r \in Seq(ToClient) :
              [l EXCEPT !.st = st, !.toServer = q, !.toClient = r] \in Link
  BY DEF Link

LEMMA ClientReceivesType ==
  ASSUME TypeOK, NEW k \in Runs, NEW m, ClientReceives(k, m)
  PROVE  link' \in [Runs -> Link] /\ m \in ToClient
  <1>1. link[k] \in Link /\ link[k].toClient \in Seq(ToClient)
    BY LinkParts DEF TypeOK
  <1>2. Head(link[k].toClient) \in ToClient /\ Tail(link[k].toClient) \in Seq(ToClient)
    BY <1>1, HeadTailProperties DEF ClientReceives
  <1>3. [link[k] EXCEPT !.toClient = Tail(link[k].toClient)] \in Link
    BY <1>1, <1>2 DEF Link
  <1> QED
    BY <1>2, <1>3 DEF ClientReceives, TypeOK

LEMMA ClientSendsType ==
  ASSUME TypeOK, NEW k \in Runs, NEW m \in ToServer, ClientSends(k, m)
  PROVE  link' \in [Runs -> Link]
  <1>1. link[k] \in Link /\ link[k].toServer \in Seq(ToServer)
    BY LinkParts DEF TypeOK
  <1>2. Append(link[k].toServer, m) \in Seq(ToServer)
    BY <1>1, AppendProperties
  <1>3. [link[k] EXCEPT !.toServer = Append(link[k].toServer, m)] \in Link
    BY <1>1, <1>2 DEF Link
  <1> QED
    BY <1>3 DEF ClientSends, TypeOK

LEMMA ClosesType ==
  ASSUME TypeOK, NEW k \in Runs, ClientCloses(k) \/ ServerCloses(k)
  PROVE  link' \in [Runs -> Link]
  <1>1. link[k] \in Link /\ <<>> \in Seq(ToClient) /\ <<>> \in Seq(ToServer)
    BY EmptySeq DEF TypeOK
  <1>2. /\ [link[k] EXCEPT !.st = "closed", !.toClient = <<>>] \in Link
        /\ [link[k] EXCEPT !.st = "closed", !.toServer = <<>>] \in Link
    BY <1>1 DEF Link
  <1> QED
    BY <1>2 DEF ClientCloses, ServerCloses, TypeOK

LEMMA ServerRepliesType ==
  ASSUME TypeOK, NEW k \in Runs, NEW m \in ToClient, ServerReplies(k, m),
         link[k].toServer # <<>>
  PROVE  link' \in [Runs -> Link]
  <1>1. link[k] \in Link /\ link[k].toServer \in Seq(ToServer) /\ link[k].toClient \in Seq(ToClient)
    BY LinkParts DEF TypeOK
  <1>2. Tail(link[k].toServer) \in Seq(ToServer)
    BY <1>1, HeadTailProperties
  <1> DEFINE q == IF link[k].st = "open" THEN Append(link[k].toClient, m) ELSE link[k].toClient
  <1>3. q \in Seq(ToClient)
    BY <1>1, AppendProperties
  <1>4. [link[k] EXCEPT !.toServer = Tail(link[k].toServer), !.toClient = q] \in Link
    BY <1>1, <1>2, <1>3 DEF Link
  <1> QED
    BY <1>4 DEF ServerReplies, TypeOK

-----------------------------------------------------------------------------
(* Type correctness, action by action *)

TypeInv == TypeOK /\ RunNumbered /\ SessionHasObject

LEMMA InitType == Init => TypeInv
  <1> SUFFICES ASSUME Init PROVE TypeInv
    OBVIOUS
  <1>1. /\ Announced \in [Objects -> Nat]
        /\ [o \in Objects |-> ToUInt(Announced[o])] \in [Objects -> Uint]
    BY AnnouncedAssumption, BoundsAssumption, ToUIntIsUint
  <1>2. client \in Client
    BY BoundsAreNat, UintIsNat DEF Init, Client, ClientPc, Flag
  <1>3. serve \in [Runs -> Session]
    BY DEF Init, Session, ServePc, Flag
  <1>4. link \in [Runs -> Link] /\ data \in [Runs -> Data] /\ rFile \in [Objects -> Seq(Chunk)]
    BY EmptySeq DEF Init, Link, Data
  <1> QED
    BY <1>1, <1>2, <1>3, <1>4 DEF Init, TypeInv, TypeOK, RunNumbered, SessionHasObject, Flag

LEMMA ClientStepType ==
  ASSUME TypeInv, StartTransfer \/ ClientStep
  PROVE  TypeInv'
  <1> USE DEF TypeInv, receiverStore, senderStore
  <1>0. client \in Client /\ client.size \in Nat /\ TypeOK
    BY UintIsNat DEF TypeOK, Client
  <1>a. ASSUME client.pc # "off"
        PROVE  /\ client.run \in Runs
               /\ link[client.run] \in Link
               /\ link[client.run].toClient \in Seq(ToClient)
               /\ link[client.run].toServer \in Seq(ToServer)
               /\ data[client.run] \in Data
    BY <1>a, LinkParts DEF TypeOK, RunNumbered
  <1>b. \A st \in {"none", "open", "eof"}, q \in Seq(Chunk) : [st |-> st, buf |-> q] \in Data
    BY DEF Data
  <1>1. CASE StartTransfer
    <2>1. client.run + 1 \in Runs /\ client.run + 1 \in 0 .. MaxRuns
      BY <1>0, <1>1, BoundsAreNat DEF StartTransfer, Client, Runs
    <2>2. client' \in Client /\ client'.run \in Runs
      BY <1>0, <1>1, <2>1 DEF StartTransfer, Client, ClientPc
    <2> QED
      BY <1>1, <2>2 DEF StartTransfer, TypeOK, RunNumbered, SessionHasObject
  <1>2. CASE ConnectFails
    <2>1. client' \in Client /\ client'.pc = "off"
      BY <1>0, <1>2 DEF ConnectFails, Client, ClientPc
    <2> QED
      BY <1>2, <2>1 DEF ConnectFails, TypeOK, RunNumbered, SessionHasObject
  <1>3. CASE OpenSeamless
    <2>1. client' \in Client /\ client'.run = client.run
      BY <1>0, <1>3 DEF OpenSeamless, Client, ClientPc
    <2>2. [st |-> "open", toServer |-> <<[kind |-> "hello"]>>, toClient |-> <<>>] \in Link
      BY EmptySeq DEF Link, ToServer
    <2> QED
      BY <1>3, <2>1, <2>2 DEF OpenSeamless, TypeOK, RunNumbered, SessionHasObject
  <1>4. CASE Welcomed
    <2>1. client' \in Client /\ client'.run = client.run
      BY <1>0, <1>4 DEF Welcomed, Client, ClientPc
    <2>2. link' \in [Runs -> Link]
      BY <1>0, <1>4, <1>a, ClientReceivesType DEF Welcomed, myRun
    <2> QED
      BY <1>4, <2>1, <2>2 DEF Welcomed, TypeOK, RunNumbered, SessionHasObject
  <1>5. CASE Refused
    <2>1. client' \in Client /\ client'.pc = "off"
      BY <1>0, <1>5 DEF Refused, Client, ClientPc
    <2>2. link' \in [Runs -> Link]
      BY <1>0, <1>5, <1>a, ClosesType DEF Refused, myRun
    <2>3. rFlag' \in [Objects -> Flag]
      BY <1>0, <1>5 DEF Refused, RemoveUnfinished, TypeOK, Flag
    <2> QED
      BY <1>5, <2>1, <2>2, <2>3 DEF Refused, TypeOK, RunNumbered, SessionHasObject
  <1>6. CASE HelloFails
    <2>1. client' \in Client /\ client'.pc = "off"
      BY <1>0, <1>6 DEF HelloFails, Client, ClientPc
    <2>2. link' \in [Runs -> Link]
      BY <1>0, <1>6, <1>a, ClosesType DEF HelloFails, myRun
    <2>3. spent' \in [faults: Nat, edits: Nat, clicks: Nat, crashes: Nat, deaths: Nat]
      BY <1>0, <1>6, FailsWhenType DEF HelloFails
    <2> QED
      BY <1>6, <2>1, <2>2, <2>3 DEF HelloFails, TypeOK, RunNumbered, SessionHasObject
  <1>7. CASE RequestNext
    <2>1. PICK o \in Objects :
            /\ client' = [client EXCEPT !.pc = "await", !.obj = o, !.flag = "pending",
                                        !.size = rSize[o], !.bit = ~@]
            /\ ClientSends(myRun, [kind |-> "file", obj |-> o, skip |-> SkippedBytes(o),
                                   bit |-> ~client.bit])
      BY <1>7 DEF RequestNext
    <2>2. client' \in Client /\ client'.run = client.run
      BY <1>0, <2>1 DEF Client, ClientPc, Flag, TypeOK
    <2>3. [kind |-> "file", obj |-> o, skip |-> SkippedBytes(o), bit |-> ~client.bit] \in ToServer
      <3>1. Len(rFile[o]) \in Nat
        BY <1>0, LenProperties DEF TypeOK
      <3> QED
        BY <1>0, <3>1 DEF ToServer, SkippedBytes, Client
    <2>4. link' \in [Runs -> Link]
      BY <1>0, <1>7, <1>a, <2>1, <2>3, ClientSendsType DEF RequestNext, myRun
    <2> QED
      BY <1>7, <2>2, <2>4 DEF RequestNext, TypeOK, RunNumbered, SessionHasObject
  <1>8. CASE RequestFails
    <2>1. PICK o \in Objects :
            /\ UpdateRow(o, "interrupted", rSize[o])
            /\ client' = [client EXCEPT !.pc = "finish", !.obj = o, !.flag = "interrupted",
                                        !.size = rSize[o], !.bit = ~@, !.retry = TRUE]
      BY <1>8 DEF RequestFails
    <2>2. client' \in Client /\ client'.run = client.run
      BY <1>0, <2>1 DEF Client, ClientPc, Flag, TypeOK
    <2>3. rFlag' \in [Objects -> Flag] /\ rSize' \in [Objects -> Uint]
      BY <1>0, <2>1, UpdateRowType, UintIsNat DEF TypeOK, Flag
    <2> QED
      BY <1>8, <2>2, <2>3 DEF RequestFails, TypeOK, RunNumbered, SessionHasObject
  <1>9. CASE LeaveLoop
    <2>1. client' \in Client /\ client'.run = client.run
      BY <1>0, <1>9 DEF LeaveLoop, Client, ClientPc
    <2> QED
      BY <1>9, <2>1 DEF LeaveLoop, TypeOK, RunNumbered, SessionHasObject
  <1>10. CASE SenderPaused
    <2>1. client' \in Client /\ client'.run = client.run
      BY <1>0, <1>10 DEF SenderPaused, Client, ClientPc
    <2>2. link' \in [Runs -> Link]
      BY <1>0, <1>10, <1>a, ClientReceivesType DEF SenderPaused, myRun
    <2> QED
      BY <1>10, <2>1, <2>2 DEF SenderPaused, TypeOK, RunNumbered, SessionHasObject
  <1>11. CASE ErrorIgnored
    <2>1. client' \in Client /\ client'.run = client.run
      BY <1>0, <1>11 DEF ErrorIgnored, Client, ClientPc
    <2>2. link' \in [Runs -> Link]
      BY <1>0, <1>11, <1>a, ClientReceivesType DEF ErrorIgnored, myRun
    <2>3. rFlag' \in [Objects -> Flag] /\ rSize' \in [Objects -> Uint]
      BY <1>0, <1>11, UpdateRowType DEF ErrorIgnored, Client
    <2> QED
      BY <1>11, <2>1, <2>2, <2>3 DEF ErrorIgnored, TypeOK, RunNumbered, SessionHasObject
  <1>12. CASE Accepted
    <2> DEFINE m == Head(link[myRun].toClient)
    <2>1. link' \in [Runs -> Link] /\ m \in ToClient /\ m.kind = "accept"
      BY <1>0, <1>12, <1>a, ClientReceivesType DEF Accepted, myRun
    <2>2. ToUInt(m.size) \in Uint /\ ToUInt(m.size) \in Nat
      <3>1. m.size \in Nat
        BY <2>1 DEF ToClient
      <3> QED
        BY <3>1, ToUIntIsUint, UintIsNat
    <2>3. CASE /\ UpdateRow(myObj, "removed", ToUInt(m.size))
               /\ client' = [client EXCEPT !.pc = "loop", !.flag = "removed",
                                           !.size = ToUInt(m.size)]
               /\ DropData(myRun)
      <3>1. client' \in Client /\ client'.run = client.run
        BY <1>0, <2>2, <2>3 DEF Client, ClientPc, Flag
      <3>2. rFlag' \in [Objects -> Flag] /\ rSize' \in [Objects -> Uint]
        BY <1>0, <2>2, <2>3, UpdateRowType DEF Flag
      <3>3. data' \in [Runs -> Data]
        BY <1>0, <2>3, DropDataType
      <3> QED
        BY <1>12, <2>1, <3>1, <3>2, <3>3 DEF Accepted, TypeOK, RunNumbered, SessionHasObject
    <2>4. CASE /\ client' = [client EXCEPT !.pc = "accept"]
               /\ UNCHANGED <<rFlag, rSize, data>>
      <3>1. client' \in Client /\ client'.run = client.run
        BY <1>0, <2>4 DEF Client, ClientPc
      <3> QED
        BY <1>12, <2>1, <2>4, <3>1 DEF Accepted, TypeOK, RunNumbered, SessionHasObject
    <2> QED
      BY <1>12, <2>3, <2>4 DEF Accepted
  <1>13. CASE AwaitFails
    <2>1. /\ client' \in Client /\ client'.run = client.run
          /\ rFlag' \in [Objects -> Flag] /\ rSize' \in [Objects -> Uint]
      BY <1>0, <1>13, UpdateRowType DEF AwaitFails, CatchObject, Client, ClientPc, Flag
    <2>2. data' \in [Runs -> Data]
      BY <1>0, <1>13, DropDataType DEF AwaitFails
    <2>3. spent' \in [faults: Nat, edits: Nat, clicks: Nat, crashes: Nat, deaths: Nat]
      BY <1>0, <1>13, FailsWhenType DEF AwaitFails
    <2> QED
      BY <1>13, <2>1, <2>2, <2>3 DEF AwaitFails, TypeOK, RunNumbered, SessionHasObject
  <1>14. CASE DataConnected
    <2>1. /\ client' \in Client /\ client'.run = client.run
          /\ rFlag' \in [Objects -> Flag] /\ rSize' \in [Objects -> Uint]
      BY <1>0, <1>14, UpdateRowType DEF DataConnected, Client, ClientPc, Flag
    <2> QED
      BY <1>14, <2>1 DEF DataConnected, TypeOK, RunNumbered, SessionHasObject
  <1>15. CASE DataTimeout
    <2>1. /\ client' \in Client /\ client'.run = client.run
          /\ rFlag' \in [Objects -> Flag] /\ rSize' \in [Objects -> Uint]
      BY <1>0, <1>15, UpdateRowType DEF DataTimeout, Client, ClientPc, Flag
    <2>2. data' \in [Runs -> Data]
      BY <1>0, <1>15, DropDataType DEF DataTimeout
    <2>3. spent' \in [faults: Nat, edits: Nat, clicks: Nat, crashes: Nat, deaths: Nat]
      BY <1>0, <1>15, FailsWhenType DEF DataTimeout
    <2> QED
      BY <1>15, <2>1, <2>2, <2>3 DEF DataTimeout, TypeOK, RunNumbered, SessionHasObject
  <1>16. CASE ReadChunks
    <2> DEFINE buf == data[client.run].buf
    <2>1. client.run \in Runs /\ buf \in Seq(Chunk) /\ data[client.run] \in Data
      BY <1>16, <1>a DEF ReadChunks, Data
    <2>2. PICK n \in 1 .. Len(buf) :
            /\ AppendToFile(SubSeq(buf, 1, n))
            /\ data' = [data EXCEPT ![client.run].buf = SubSeq(buf, n + 1, Len(buf))]
      BY <1>16 DEF ReadChunks, myRun
    <2>3. SubSeq(buf, 1, n) \in Seq(Chunk) /\ SubSeq(buf, n + 1, Len(buf)) \in Seq(Chunk)
      BY <2>1, LenProperties, ElementOfSeq, SubSeqProperties
    <2>4. data' \in [Runs -> Data]
      <3>1. [data[client.run] EXCEPT !.buf = SubSeq(buf, n + 1, Len(buf))] \in Data
        BY <2>1, <2>3 DEF Data
      <3> QED
        BY <1>0, <2>2, <3>1 DEF TypeOK
    <2>5. rFile' \in [Objects -> Seq(Chunk)]
      <3>1. \A o \in Objects : rFile[o] \o SubSeq(buf, 1, n) \in Seq(Chunk)
        BY <1>0, <2>3, ConcatProperties DEF TypeOK
      <3> QED
        BY <1>0, <2>2, <3>1 DEF AppendToFile, TypeOK
    <2> QED
      BY <1>16, <2>4, <2>5 DEF ReadChunks, TypeOK, RunNumbered, SessionHasObject
  <1>17. CASE ReceiveEnds
    <2>1. client' \in Client /\ client'.run = client.run
      BY <1>0, <1>17 DEF ReceiveEnds, Client, ClientPc, Flag
    <2>2. data' \in [Runs -> Data]
      BY <1>0, <1>17, DropDataType DEF ReceiveEnds
    <2> QED
      BY <1>17, <2>1, <2>2 DEF ReceiveEnds, TypeOK, RunNumbered, SessionHasObject
  <1>18. CASE ReceiveStalls
    <2>1. /\ client' \in Client /\ client'.run = client.run
          /\ rFlag' \in [Objects -> Flag] /\ rSize' \in [Objects -> Uint]
      BY <1>0, <1>18, UpdateRowType DEF ReceiveStalls, CatchObject, Client, ClientPc, Flag
    <2>2. data' \in [Runs -> Data]
      BY <1>0, <1>18, DropDataType DEF ReceiveStalls
    <2>3. spent' \in [faults: Nat, edits: Nat, clicks: Nat, crashes: Nat, deaths: Nat]
      BY <1>0, <1>18, FailsWhenType DEF ReceiveStalls
    <2> QED
      BY <1>18, <2>1, <2>2, <2>3 DEF ReceiveStalls, TypeOK, RunNumbered, SessionHasObject
  <1>19. CASE RecordFile
    <2>1. /\ client' \in Client /\ client'.run = client.run
          /\ rFlag' \in [Objects -> Flag] /\ rSize' \in [Objects -> Uint]
      BY <1>0, <1>19, UpdateRowType DEF RecordFile, Client, ClientPc
    <2> QED
      BY <1>19, <2>1 DEF RecordFile, TypeOK, RunNumbered, SessionHasObject
  <1>20. CASE Finish
    <2> DEFINE isJobDone == ~client.retry /\ ~HasLeftFiles
               again == client.retry /\ AttemptsLeft > 0 /\ ~client.intr /\ client.run < MaxRuns
               queue == IF link[client.run].st = "open"
                        THEN Append(link[client.run].toServer, [kind |-> "bye", done |-> isJobDone])
                        ELSE link[client.run].toServer
    <2>1. client.run \in Runs
      BY <1>20, <1>a DEF Finish
    <2>2. client' \in Client /\ (client'.pc # "off" => client'.run \in Runs)
      <3>1. client' = IF again
                      THEN [client EXCEPT !.pc = "start", !.run = @ + 1, !.obj = NoObject,
                                          !.retry = FALSE, !.depth = @ + 1]
                      ELSE [client EXCEPT !.pc = "off"]
        BY <1>20 DEF Finish
      <3>2. CASE again
        <4>1. client.run + 1 \in Runs /\ client.run + 1 \in 0 .. MaxRuns
          BY <1>0, <3>2, BoundsAreNat DEF Client, Runs
        <4>2. client' = [client EXCEPT !.pc = "start", !.run = @ + 1, !.obj = NoObject,
                                      !.retry = FALSE, !.depth = @ + 1]
          BY <3>1, <3>2, Zenon
        <4> QED
          <5>1. client.depth + 1 \in Nat /\ NoObject \in Objects \cup {NoObject}
            BY <1>0 DEF Client
          <5>2. client' \in Client
            BY <1>0, <4>1, <4>2, <5>1 DEF Client, ClientPc
          <5>3. client'.run = client.run + 1
            BY <1>0, <4>2 DEF Client
          <5> QED
            BY <4>1, <5>2, <5>3
      <3>3. CASE ~again
        BY <1>0, <3>1, <3>3 DEF Client, ClientPc
      <3> QED
        BY <3>2, <3>3
    <2>3. link' \in [Runs -> Link]
      <3>1. [kind |-> "bye", done |-> isJobDone] \in ToServer
        BY DEF ToServer
      <3>2. queue \in Seq(ToServer)
        BY <1>20, <1>a, <3>1, AppendProperties DEF Finish
      <3>3. [st |-> "closed", toClient |-> <<>>, toServer |-> queue] \in Link
        BY <3>2, EmptySeq DEF Link
      <3>4. link' = [link EXCEPT ![client.run] =
                      [st |-> "closed", toClient |-> <<>>, toServer |-> queue]]
        BY <1>20 DEF Finish, myRun
      <3> QED
        BY <1>0, <3>3, <3>4 DEF TypeOK
    <2>4. told' \subseteq 0 .. MaxRuns
      BY <1>0, <1>20, BoundsAreNat DEF Finish, TypeOK
    <2> QED
      BY <1>20, <2>2, <2>3, <2>4 DEF Finish, TypeOK, RunNumbered, SessionHasObject
  <1> QED
    BY <1>1, <1>2, <1>3, <1>4, <1>5, <1>6, <1>7, <1>8, <1>9, <1>10, <1>11, <1>12, <1>13, <1>14,
       <1>15, <1>16, <1>17, <1>18, <1>19, <1>20 DEF ClientStep

LEMMA SessionStepType ==
  ASSUME TypeInv, NEW k \in Runs, SessionStep(k)
  PROVE  TypeInv'
  <1> USE DEF TypeInv, receiverStore, senderStore
  <1>0. /\ TypeOK /\ serve[k] \in Session /\ link[k] \in Link /\ data[k] \in Data
        /\ link[k].toServer \in Seq(ToServer) /\ link[k].toClient \in Seq(ToClient)
        /\ serve \in [Runs -> Session] /\ link \in [Runs -> Link] /\ data \in [Runs -> Data]
        /\ serve[k].size \in Nat
    BY LinkParts DEF TypeOK, Session
  <1>a. \A pc \in ServePc \ {"connect", "send"} :
          Becomes(k, pc) => serve' \in [Runs -> Session] /\ SessionHasObject'
    <2> SUFFICES ASSUME NEW pc \in ServePc \ {"connect", "send"}, Becomes(k, pc)
                 PROVE  serve' \in [Runs -> Session] /\ SessionHasObject'
      OBVIOUS
    <2>1. [serve[k] EXCEPT !.pc = pc] \in Session /\ [serve[k] EXCEPT !.pc = pc].pc = pc
      BY <1>0 DEF Session
    <2> QED
      BY <1>0, <2>1 DEF Becomes, SessionHasObject
  <1>b. HasRequest(k) => Request(k) \in ToServer
    BY <1>0, HeadTailProperties DEF HasRequest, Request
  <1>c. /\ \A e \in {"notFound", "notAccessible"} : [kind |-> "missing", error |-> e] \in ToClient
        /\ \A e \in {"notFound", "notAllowed"} : [kind |-> "refused", error |-> e] \in ToClient
        /\ [kind |-> "welcome"] \in ToClient /\ [kind |-> "bye"] \in ToClient
    BY DEF ToClient
  <1>d. \A m \in ToClient : HasRequest(k) /\ ReplyOrEnd(k, m) =>
          link' \in [Runs -> Link] /\ serve' \in [Runs -> Session] /\ SessionHasObject'
    <2> SUFFICES ASSUME NEW m \in ToClient, HasRequest(k), ReplyOrEnd(k, m)
                 PROVE  link' \in [Runs -> Link] /\ serve' \in [Runs -> Session]
                          /\ SessionHasObject'
      OBVIOUS
    <2>1. CASE ServerReplies(k, m) /\ UNCHANGED serve
      BY <1>0, <2>1, ServerRepliesType DEF HasRequest, SessionHasObject
    <2>2. CASE ServerCloses(k) /\ Becomes(k, "gone")
      BY <1>0, <1>a, <2>2, ClosesType DEF ServePc
    <2> QED
      BY <2>1, <2>2 DEF ReplyOrEnd
  <1>1. CASE Greet(k)
    <2>1. serve' \in [Runs -> Session] /\ SessionHasObject'
      BY <1>1, <1>a DEF Greet, ServePc
    <2>2. link' \in [Runs -> Link]
      <3>1. CASE sGroup = "known"
        BY <1>0, <1>1, <1>c, <3>1, ServerRepliesType DEF Greet, HasRequest
      <3>2. CASE sGroup # "known"
        <4> DEFINE e == IF sGroup = "stranger" THEN "notAllowed" ELSE "notFound"
                   q == IF link[k].st = "open"
                        THEN Append(link[k].toClient, [kind |-> "refused", error |-> e])
                        ELSE link[k].toClient
        <4>1. [kind |-> "refused", error |-> e] \in ToClient
          BY <1>c
        <4>2. q \in Seq(ToClient)
          BY <1>0, <4>1, AppendProperties
        <4>3. [st |-> "closed", toServer |-> <<>>, toClient |-> q] \in Link
          BY <4>2, EmptySeq DEF Link
        <4>4. link' = [link EXCEPT ![k] = [st |-> "closed", toServer |-> <<>>, toClient |-> q]]
          BY <1>1, <3>2 DEF Greet
        <4> QED
          BY <1>0, <4>3, <4>4
      <3> QED
        BY <3>1, <3>2
    <2> QED
      BY <1>1, <2>1, <2>2 DEF Greet, TypeOK, RunNumbered
  <1>2. CASE TakeBye(k)
    <2>1. CASE Request(k).done
      <3>1. serve' \in [Runs -> Session] /\ SessionHasObject' /\ link' \in [Runs -> Link]
        BY <1>0, <1>2, <1>a, <2>1, ClosesType DEF TakeBye, ServePc
      <3>2. told' \subseteq 0 .. MaxRuns
        BY <1>2, <2>1, BoundsAreNat DEF TakeBye, TypeOK, Runs
      <3> QED
        BY <1>2, <3>1, <3>2 DEF TakeBye, TypeOK, RunNumbered
    <2>2. CASE ~Request(k).done
      <3>1. [link[k] EXCEPT !.toServer = Tail(link[k].toServer)] \in Link
        BY <1>0, <1>2, HeadTailProperties DEF TakeBye, HasRequest, Link
      <3>2. link' \in [Runs -> Link]
        BY <1>0, <1>2, <2>2, <3>1 DEF TakeBye
      <3>3. serve' \in [Runs -> Session] /\ SessionHasObject'
        <4>1. /\ [serve[k] EXCEPT !.intr = TRUE] \in Session
              /\ [serve[k] EXCEPT !.intr = TRUE].pc = "serve"
          BY <1>0, <1>2 DEF Session, TakeBye
        <4> QED
          BY <1>0, <1>2, <2>2, <4>1 DEF TakeBye, SessionHasObject
      <3> QED
        BY <1>2, <2>2, <3>2, <3>3 DEF TakeBye, TypeOK, RunNumbered
    <2> QED
      BY <2>1, <2>2
  <1>3. CASE RefuseInterrupted(k)
    <2>1. link' \in [Runs -> Link] /\ serve' \in [Runs -> Session] /\ SessionHasObject'
      BY <1>3, <1>c, <1>d DEF RefuseInterrupted
    <2> QED
      BY <1>3, <2>1 DEF RefuseInterrupted, TypeOK, RunNumbered
  <1>4. CASE RefuseMissingRow(k)
    <2>1. link' \in [Runs -> Link] /\ serve' \in [Runs -> Session] /\ SessionHasObject'
      BY <1>4, <1>c, <1>d DEF RefuseMissingRow
    <2> QED
      BY <1>4, <2>1 DEF RefuseMissingRow, TypeOK, RunNumbered
  <1>5. CASE RefuseUnreadable(k)
    <2>1. link' \in [Runs -> Link]
      BY <1>0, <1>5, <1>c, ServerRepliesType DEF RefuseUnreadable, HasRequest
    <2>2. sFlag' \in [Objects -> Flag]
      BY <1>5 DEF RefuseUnreadable, TypeOK, Flag
    <2> QED
      BY <1>5, <2>1, <2>2 DEF RefuseUnreadable, TypeOK, RunNumbered, SessionHasObject
  <1>6. CASE AcceptFile(k)
    <2> DEFINE r == Request(k)
               len == sDisk[r.obj].len
    <2>1. r.obj \in Objects /\ r.skip \in Nat /\ r.bit \in BOOLEAN
      BY <1>6, <1>b DEF AcceptFile, ToServer
    <2>2. /\ len \in Nat /\ sFlag[r.obj] \in Flag
          /\ ToUInt(r.skip) \in Nat /\ ToUInt(len) \in Uint
      BY <1>0, <2>1, ToUIntIsUint, UintIsNat DEF TypeOK
    <2>3. link' \in [Runs -> Link]
      <3>1. [kind |-> "accept", changed |-> sSize[r.obj] # len, size |-> len] \in ToClient
        BY <2>2 DEF ToClient
      <3> QED
        BY <1>0, <1>6, <3>1, ServerRepliesType DEF AcceptFile, HasRequest
    <2>4. CASE link[k].st = "open"
      <3>1. serve' = [serve EXCEPT ![k].pc = "connect", ![k].obj = r.obj, ![k].size = len,
                        ![k].flag = sFlag[r.obj], ![k].pos = ToUInt(r.skip), ![k].bit = r.bit]
        BY <1>6, <2>4 DEF AcceptFile
      <3>2. serve' \in [Runs -> Session] /\ SessionHasObject'
        BY <1>0, <2>1, <2>2, <3>1 DEF Session, ServePc, SessionHasObject
      <3> QED
        BY <1>6, <2>3, <2>4, <3>2 DEF AcceptFile, TypeOK, RunNumbered
    <2>5. CASE link[k].st # "open"
      BY <1>6, <2>1, <2>2, <2>3, <2>5 DEF AcceptFile, TypeOK, RunNumbered, SessionHasObject
    <2> QED
      BY <2>4, <2>5
  <1>7. CASE ConnectData(k)
    <2>1. serve' \in [Runs -> Session] /\ SessionHasObject'
      BY <1>0, <1>7 DEF ConnectData, Session, ServePc, Flag, SessionHasObject
    <2>2. data' \in [Runs -> Data]
      BY <1>0, <1>7, EmptySeq DEF ConnectData, Data
    <2>3. sFlag' \in [Objects -> Flag] /\ sSize' \in [Objects -> Uint]
      BY <1>0, <1>7, UpdateSenderRowType DEF ConnectData, TypeOK, Flag
    <2> QED
      BY <1>7, <2>1, <2>2, <2>3 DEF ConnectData, TypeOK, RunNumbered
  <1>8. CASE ConnectDataFails(k)
    <2>1. serve' \in [Runs -> Session] /\ SessionHasObject'
      <3> DEFINE s == [serve[k] EXCEPT !.pc = "serve", !.flag = "running"]
      <3>1. s \in Session /\ s.pc = "serve"
        BY <1>0 DEF Session, ServePc, Flag
      <3>2. serve' = [serve EXCEPT ![k] = s]
        BY <1>8 DEF ConnectDataFails
      <3> QED
        BY <1>0, <3>1, <3>2 DEF SessionHasObject
    <2>2. sFlag' \in [Objects -> Flag] /\ sSize' \in [Objects -> Uint]
      BY <1>0, <1>8, UpdateSenderRowType DEF ConnectDataFails, Flag
    <2>3. spent' \in [faults: Nat, edits: Nat, clicks: Nat, crashes: Nat, deaths: Nat]
      BY <1>0, <1>8, FailsWhenType DEF ConnectDataFails
    <2> QED
      BY <1>8, <2>1, <2>2, <2>3 DEF ConnectDataFails, TypeOK, RunNumbered
  <1>9. CASE SendChunk(k)
    <2>1. serve[k].obj \in Objects
      BY <1>9 DEF SendChunk, SessionHasObject
    <2>2. serve' \in [Runs -> Session] /\ SessionHasObject'
      <3> DEFINE s == [serve[k] EXCEPT !.pos = @ + 1]
      <3>1. s \in Session /\ s.pc = serve[k].pc /\ s.obj = serve[k].obj
        <4>1. serve[k].pos + 1 \in Nat
          BY <1>0 DEF Session
        <4> QED
          BY <1>0, <4>1 DEF Session
      <3>2. serve' = [serve EXCEPT ![k] = s]
        BY <1>9 DEF SendChunk
      <3> QED
        BY <1>0, <2>1, <3>1, <3>2 DEF SessionHasObject
    <2>3. data' \in [Runs -> Data]
      <3> DEFINE c == [ver |-> sDisk[serve[k].obj].ver, pos |-> serve[k].pos + 1]
      <3>1. c \in Chunk
        BY <1>0, <2>1 DEF TypeOK, Session, Chunk
      <3>2. [data[k] EXCEPT !.buf = Append(data[k].buf, c)] \in Data
        BY <1>0, <3>1, AppendProperties DEF Data
      <3> QED
        BY <1>0, <1>9, <3>2 DEF SendChunk
    <2> QED
      BY <1>9, <2>2, <2>3 DEF SendChunk, TypeOK, RunNumbered
  <1>e. \A f \in Flag : EndSending(k, f) =>
          /\ serve' \in [Runs -> Session] /\ SessionHasObject'
          /\ sFlag' \in [Objects -> Flag] /\ sSize' \in [Objects -> Uint]
          /\ data' \in [Runs -> Data]
    <2> SUFFICES ASSUME NEW f \in Flag, EndSending(k, f)
                 PROVE  /\ serve' \in [Runs -> Session] /\ SessionHasObject'
                        /\ sFlag' \in [Objects -> Flag] /\ sSize' \in [Objects -> Uint]
                        /\ data' \in [Runs -> Data]
      OBVIOUS
    <2>1. serve' \in [Runs -> Session] /\ SessionHasObject'
      BY <1>0 DEF EndSending, Session, ServePc, SessionHasObject
    <2>2. sFlag' \in [Objects -> Flag] /\ sSize' \in [Objects -> Uint]
      BY <1>0, UpdateSenderRowType DEF EndSending
    <2>3. data' \in [Runs -> Data]
      BY <1>0 DEF EndSending, Data
    <2> QED
      BY <2>1, <2>2, <2>3
  <1>10. CASE SendDone(k)
    BY <1>10, <1>e DEF SendDone, EndSending, TypeOK, RunNumbered, Flag
  <1>11. CASE SendFails(k)
    <2>1. spent' \in [faults: Nat, edits: Nat, clicks: Nat, crashes: Nat, deaths: Nat]
      BY <1>0, <1>11, FailsWhenType DEF SendFails
    <2> QED
      BY <1>11, <1>e, <2>1 DEF SendFails, EndSending, TypeOK, RunNumbered, Flag
  <1>12. CASE ServerReceiveFails(k)
    <2>1. serve' \in [Runs -> Session] /\ SessionHasObject' /\ link' \in [Runs -> Link]
      BY <1>0, <1>12, <1>a, ClosesType DEF ServerReceiveFails, ServePc
    <2>2. spent' \in [faults: Nat, edits: Nat, clicks: Nat, crashes: Nat, deaths: Nat]
      BY <1>0, <1>12, FailsWhenType DEF ServerReceiveFails
    <2> QED
      BY <1>12, <2>1, <2>2 DEF ServerReceiveFails, TypeOK, RunNumbered
  <1> QED
    BY <1>1, <1>2, <1>3, <1>4, <1>5, <1>6, <1>7, <1>8, <1>9, <1>10, <1>11, <1>12 DEF SessionStep

\* Users, devices and the network.
EnvironmentStep ==
  \/ StartTransfer \/ PauseReceiving \/ PauseSending \/ RetryReceiving
  \/ InsertRows \/ Forget \/ ReceiverCrash \/ SenderCrash
  \/ \E o \in Objects : ItemActivated(o) \/ RewriteFile(o) \/ HideFile(o)
  \/ \E k \in Runs : LinkBreaks(k) \/ DataBreaks(k)

LEMMA NextSplit == Next => ClientStep \/ (\E k \in Runs : SessionStep(k)) \/ EnvironmentStep
  BY DEF Next, EnvironmentStep, UserStep, DeviceStep, NetworkStep

LEMMA SpentType ==
  ASSUME TypeOK, Fault \/ Click \/ Edit \/ Crash(0) \/ Crash(1)
  PROVE  spent' \in [faults: Nat, edits: Nat, clicks: Nat, crashes: Nat, deaths: Nat]
  <1>0. spent \in [faults: Nat, edits: Nat, clicks: Nat, crashes: Nat, deaths: Nat]
    BY DEF TypeOK
  <1>1. \/ spent' = [spent EXCEPT !.faults = @ + 1] \/ spent' = [spent EXCEPT !.clicks = @ + 1]
        \/ spent' = [spent EXCEPT !.edits = @ + 1]
        \/ \E died \in {0, 1} : spent' = [spent EXCEPT !.crashes = @ + 1, !.deaths = @ + died]
    BY DEF Fault, Click, Edit, Crash
  <1>2. ASSUME NEW died \in Nat, spent' = [spent EXCEPT !.crashes = @ + 1, !.deaths = @ + died]
        PROVE  spent' \in [faults: Nat, edits: Nat, clicks: Nat, crashes: Nat, deaths: Nat]
    <2>1. spent.crashes + 1 \in Nat /\ spent.deaths + died \in Nat
      BY <1>0
    <2>2. spent' = [spent EXCEPT !.crashes = spent.crashes + 1, !.deaths = spent.deaths + died]
      BY <1>2, Zenon
    <2> QED
      BY <1>0, <2>1, <2>2
  <1>3. CASE \/ spent' = [spent EXCEPT !.faults = @ + 1] \/ spent' = [spent EXCEPT !.clicks = @ + 1]
             \/ spent' = [spent EXCEPT !.edits = @ + 1]
    BY <1>0, <1>3
  <1>4. CASE \E died \in {0, 1} : spent' = [spent EXCEPT !.crashes = @ + 1, !.deaths = @ + died]
    BY <1>2, <1>4
  <1> QED
    BY <1>1, <1>3, <1>4, Zenon

LEMMA EnvironmentType ==
  ASSUME TypeInv, EnvironmentStep
  PROVE  TypeInv'
  <1> USE DEF TypeInv, receiverStore, senderStore
  <1>0. /\ TypeOK /\ client \in Client
        /\ serve \in [Runs -> Session] /\ link \in [Runs -> Link] /\ data \in [Runs -> Data]
    BY DEF TypeOK
  <1>s. Fault \/ Click \/ Edit \/ Crash(0) \/ Crash(1) =>
          spent' \in [faults: Nat, edits: Nat, clicks: Nat, crashes: Nat, deaths: Nat]
    BY <1>0, SpentType
  <1>1. CASE StartTransfer
    BY <1>1, ClientStepType
  <1>2. CASE PauseReceiving
    <2>1. client' \in Client /\ client'.run = client.run /\ client'.pc = client.pc
      BY <1>0, <1>2 DEF PauseReceiving, Client
    <2> QED
      BY <1>2, <1>s, <2>1 DEF PauseReceiving, TypeOK, RunNumbered, SessionHasObject
  <1>3. CASE PauseSending
    <2>1. \A k \in Runs : /\ [serve[k] EXCEPT !.intr = TRUE] \in Session
                          /\ [serve[k] EXCEPT !.intr = TRUE].pc = serve[k].pc
                          /\ [serve[k] EXCEPT !.intr = TRUE].obj = serve[k].obj
      BY <1>0 DEF Session
    <2>2. /\ serve' \in [Runs -> Session]
          /\ \A k \in Runs : serve'[k].pc = serve[k].pc /\ serve'[k].obj = serve[k].obj
      BY <1>0, <1>3, <2>1 DEF PauseSending
    <2> QED
      BY <1>3, <1>s, <2>2 DEF PauseSending, TypeOK, RunNumbered, SessionHasObject
  <1>4. CASE RetryReceiving
    <2>1. rFlag' \in [Objects -> Flag]
      BY <1>4 DEF RetryReceiving, TypeOK, Flag
    <2> QED
      BY <1>4, <1>s, <2>1 DEF RetryReceiving, TypeOK, RunNumbered, SessionHasObject
  <1>5. CASE InsertRows
    <2>1. sSize' \in [Objects -> Uint]
      BY <1>5, AnnouncedAssumption, BoundsAssumption, ToUIntIsUint DEF InsertRows
    <2> QED
      BY <1>5, <2>1 DEF InsertRows, TypeOK, Flag, RunNumbered, SessionHasObject
  <1>6. CASE Forget
    BY <1>6, <1>s DEF Forget, TypeOK, RunNumbered, SessionHasObject
  <1>7. CASE ReceiverCrash
    <2>1. client' \in Client /\ client'.pc = "off"
      BY <1>0, <1>7 DEF ReceiverCrash, Client, ClientPc
    <2>2. rFile' \in [Objects -> Seq(Chunk)]
      BY <1>7, EmptySeq DEF ReceiverCrash, TypeOK
    <2>3. link' \in [Runs -> Link]
      <3>1. \A k \in Runs : [link[k] EXCEPT !.st = "closed", !.toClient = <<>>] \in Link
        BY <1>0, EmptySeq DEF Link
      <3> QED
        BY <1>0, <1>7, <3>1 DEF ReceiverCrash
    <2>4. data' \in [Runs -> Data]
      BY <1>0, <1>7, DropDataType DEF ReceiverCrash
    <2> QED
      BY <1>7, <1>s, <2>1, <2>2, <2>3, <2>4 DEF ReceiverCrash, TypeOK, RunNumbered, SessionHasObject
  <1>8. CASE SenderCrash
    <2>1. serve' \in [Runs -> Session] /\ SessionHasObject'
      <3>1. \A k \in Runs : /\ [serve[k] EXCEPT !.pc = "gone"] \in Session
                            /\ [serve[k] EXCEPT !.pc = "gone"].pc = "gone"
        BY <1>0 DEF Session, ServePc
      <3> QED
        BY <1>0, <1>8, <3>1 DEF SenderCrash, SessionHasObject
    <2>2. link' \in [Runs -> Link]
      <3>1. \A k \in Runs : [link[k] EXCEPT !.st = "closed", !.toServer = <<>>] \in Link
        BY <1>0, EmptySeq DEF Link
      <3> QED
        BY <1>0, <1>8, <3>1 DEF SenderCrash
    <2>3. data' \in [Runs -> Data]
      <3>1. \A k \in Runs : [data[k] EXCEPT !.st = "eof"] \in Data
        BY <1>0 DEF Data
      <3> QED
        BY <1>0, <1>8, <3>1 DEF SenderCrash
    <2> QED
      BY <1>8, <1>s, <2>1, <2>2, <2>3 DEF SenderCrash, TypeOK, RunNumbered
  <1>9. ASSUME NEW o \in Objects, ItemActivated(o) \/ RewriteFile(o) \/ HideFile(o)
        PROVE  TypeInv'
    <2>1. CASE ItemActivated(o)
      <3>1. rFlag' \in [Objects -> Flag]
        BY <2>1 DEF ItemActivated, TypeOK, Flag
      <3> QED
        BY <2>1, <1>s, <3>1 DEF ItemActivated, TypeOK, RunNumbered, SessionHasObject
    <2> DEFINE Disk == [Objects -> [ver: Nat, len: Nat, readable: BOOLEAN]]
    <2>2. CASE RewriteFile(o)
      <3>1. PICK n \in 0 .. MaxLen : sDisk' = [sDisk EXCEPT ![o].ver = @ + 1, ![o].len = n]
        BY <2>2 DEF RewriteFile
      <3>2. [sDisk[o] EXCEPT !.ver = @ + 1, !.len = n] \in [ver: Nat, len: Nat, readable: BOOLEAN]
        <4>1. sDisk[o] \in [ver: Nat, len: Nat, readable: BOOLEAN]
          BY DEF TypeOK
        <4>2. sDisk[o].ver + 1 \in Nat /\ n \in Nat
          BY <4>1, BoundsAssumption
        <4> QED
          BY <4>1, <4>2
      <3>3. sDisk' \in Disk
        BY <3>1, <3>2 DEF TypeOK
      <3> QED
        BY <2>2, <1>s, <3>3 DEF RewriteFile, TypeOK, RunNumbered, SessionHasObject
    <2>3. CASE HideFile(o)
      <3>1. sDisk' \in Disk
        BY <2>3 DEF HideFile, TypeOK
      <3> QED
        BY <2>3, <1>s, <3>1 DEF HideFile, TypeOK, RunNumbered, SessionHasObject
    <2> QED
      BY <1>9, <2>1, <2>2, <2>3
  <1>10. ASSUME NEW k \in Runs, LinkBreaks(k) \/ DataBreaks(k)
         PROVE  TypeInv'
    <2>1. CASE LinkBreaks(k)
      <3>1. [st |-> "closed", toServer |-> <<>>, toClient |-> <<>>] \in Link
        BY EmptySeq DEF Link
      <3> QED
        BY <1>0, <1>s, <2>1, <3>1 DEF LinkBreaks, TypeOK, RunNumbered, SessionHasObject
    <2>2. CASE DataBreaks(k)
      <3>1. [st |-> "eof", buf |-> <<>>] \in Data
        BY EmptySeq DEF Data
      <3> QED
        BY <1>0, <1>s, <2>2, <3>1 DEF DataBreaks, TypeOK, RunNumbered, SessionHasObject
    <2> QED
      BY <1>10, <2>1, <2>2
  <1> QED
    BY <1>1, <1>2, <1>3, <1>4, <1>5, <1>6, <1>7, <1>8, <1>9, <1>10 DEF EnvironmentStep

\* A step that changes nothing.
LEMMA StutterType == ASSUME TypeInv, UNCHANGED vars PROVE TypeInv'
  BY DEF TypeInv, TypeOK, RunNumbered, SessionHasObject, vars, receiverStore, senderStore

LEMMA TypeInvInvariant == Spec => []TypeInv
  <1>1. TypeInv /\ [Next]_vars => TypeInv'
    BY NextSplit, ClientStepType, SessionStepType, EnvironmentType, StutterType
  <1> QED
    BY <1>1, InitType, PTL DEF Spec

\* Every variable keeps its type, for any number of objects, runs and troubles: no message
\* is read as one of another kind, no object id is used before one is set.
THEOREM TypeCorrect == Spec => []TypeOK
  <1>1. TypeInv => TypeOK
    BY DEF TypeInv
  <1> QED
    BY <1>1, TypeInvInvariant, PTL

-----------------------------------------------------------------------------
(* The rows of the receiver *)

RowsInv == HandIsOpen /\ HandFlag /\ DoneIsWhole /\ RunningHasReceiver

DoneStays == \A o \in Objects : rFlag[o] = "done" => rFlag'[o] = "done"

LEMMA FailsWhenDeaths ==
  ASSUME TypeOK, NEW cause \in BOOLEAN, FailsWhen(cause)
  PROVE  spent'.deaths = spent.deaths
  <1>1. spent' = spent \/ spent' = [spent EXCEPT !.faults = @ + 1]
    BY Zenon DEF FailsWhen, Fault
  <1>2. spent \in [faults: Nat, edits: Nat, clicks: Nat, crashes: Nat, deaths: Nat]
    BY DEF TypeOK
  <1> QED
    BY <1>1, <1>2

\* What UpdateRow does to the two columns, read row by row.
LEMMA UpdateRowReads ==
  ASSUME TypeOK, NEW o \in Objects, NEW f, NEW s \in Uint, UpdateRow(o, f, s)
  PROVE  /\ rFlag'[o] = f /\ rSize'[o] = s
         /\ \A p \in Objects \ {o} : rFlag'[p] = rFlag[p] /\ rSize'[p] = rSize[p]
  <1>1. ToUInt(s) = s
    BY ToUIntIsUint, UintIsNat
  <1> QED
    BY <1>1 DEF UpdateRow, TypeOK

LEMMA InitRows == Init => RowsInv
  BY DEF Init, RowsInv, HandIsOpen, HandFlag, DoneIsWhole, RunningHasReceiver, Busy

\* While an object is in hand, its row is neither Done nor out of step with the copy, so
\* that writing the copy back destroys nothing.
LEMMA ClientStepRows ==
  ASSUME TypeInv, RowsInv, ClientStep
  PROVE  RowsInv' /\ DoneStays
  <1> USE DEF RowsInv, Busy, HandIsOpen, HandFlag, DoneIsWhole, RunningHasReceiver, DoneStays,
              myObj, myRun, receiverStore
  <1>0. /\ TypeOK /\ client \in Client /\ client.size \in Uint
        /\ rFlag \in [Objects -> Flag] /\ rSize \in [Objects -> Uint]
    BY DEF TypeInv, TypeOK, Client
  <1>1. CASE \/ ConnectFails \/ OpenSeamless \/ Welcomed \/ LeaveLoop \/ SenderPaused
             \/ Finish
    <2>1. /\ client.pc \in {"start", "hello", "loop", "await", "finish"}
          /\ client'.pc \in {"off", "start", "hello", "loop", "finish"}
          /\ UNCHANGED <<rFlag, rSize, rFile, spent>>
      BY <1>0, <1>1 DEF ConnectFails, OpenSeamless, Welcomed, LeaveLoop, SenderPaused, Finish, Client
    <2> QED
      BY <2>1
  <1>2. CASE Refused
    <2>1. /\ client.pc = "hello" /\ client'.pc = "off" /\ UNCHANGED <<rSize, rFile, spent>>
          /\ \A o \in Objects : rFlag'[o] \in {rFlag[o], "removed"}
          /\ DoneStays
      BY <1>0, <1>2 DEF Refused, RemoveUnfinished, Client
    <2> QED
      BY <1>0, <2>1
  <1>3. CASE HelloFails
    <2>1. /\ client.pc = "hello" /\ client'.pc = "off" /\ UNCHANGED <<rFlag, rSize, rFile>>
          /\ spent'.deaths = spent.deaths
      BY <1>0, <1>3, FailsWhenDeaths DEF HelloFails, Client
    <2> QED
      BY <1>0, <2>1
  <1>4. CASE RequestNext
    <2>1. PICK o \in Objects : /\ FirstAvailable(o)
                               /\ client' = [client EXCEPT !.pc = "await", !.obj = o,
                                    !.flag = "pending", !.size = rSize[o], !.bit = ~@]
      BY <1>4 DEF RequestNext
    <2>2. /\ client'.pc = "await" /\ client'.obj = o /\ client'.flag = "pending"
          /\ client'.size = rSize[o] /\ rFlag[o] = "pending" /\ client.pc = "loop"
          /\ UNCHANGED <<rFlag, rSize, rFile, spent>>
      BY <1>0, <1>4, <2>1 DEF RequestNext, Client, FirstAvailable, Pending
    <2> QED
      BY <1>0, <2>2
  <1>5. CASE RequestFails
    <2>1. PICK o \in Objects : /\ FirstAvailable(o)
                               /\ UpdateRow(o, "interrupted", rSize[o])
                               /\ client' = [client EXCEPT !.pc = "finish", !.obj = o,
                                    !.flag = "interrupted", !.size = rSize[o], !.bit = ~@,
                                    !.retry = TRUE]
      BY <1>5 DEF RequestFails
    <2>2. /\ client'.pc = "finish" /\ client.pc = "loop" /\ rFlag[o] = "pending"
          /\ UNCHANGED <<rFile, spent>>
      BY <1>0, <1>5, <2>1 DEF RequestFails, Client, FirstAvailable, Pending
    <2> QED
      BY <1>0, <2>1, <2>2, UpdateRowReads
  <1>6. CASE ErrorIgnored
    <2>1. /\ client'.pc = "loop" /\ client.pc = "await" /\ UNCHANGED <<rFile, spent>>
          /\ UpdateRow(client.obj, "pending", client.size)
      BY <1>0, <1>6 DEF ErrorIgnored, Client
    <2> QED
      BY <1>0, <2>1, UpdateRowReads
  <1>7. CASE Accepted
    <2>1. client.pc = "await" /\ UNCHANGED <<rFile, spent>>
      BY <1>7 DEF Accepted
    <2>2. CASE client' = [client EXCEPT !.pc = "accept"] /\ UNCHANGED <<rFlag, rSize, data>>
      <3>1. /\ client'.pc = "accept" /\ client'.obj = client.obj
            /\ client'.size = client.size /\ client'.flag = client.flag
        BY <1>0, <2>2 DEF Client
      <3> QED
        BY <1>0, <2>1, <2>2, <3>1
    <2>3. ASSUME NEW s \in Uint, UpdateRow(client.obj, "removed", s),
                 client' = [client EXCEPT !.pc = "loop", !.flag = "removed", !.size = s]
          PROVE  RowsInv' /\ DoneStays
      <3>1. client'.pc = "loop"
        BY <1>0, <2>3 DEF Client
      <3> QED
        BY <1>0, <2>1, <2>3, <3>1, UpdateRowReads
    <2>4. ToUInt(Head(link[client.run].toClient).size) \in Uint
      <3>1. /\ ClientReceives(client.run, Head(link[client.run].toClient))
            /\ Head(link[client.run].toClient).kind = "accept" /\ client.run \in Runs
        BY <1>7 DEF Accepted, TypeInv, RunNumbered
      <3>2. Head(link[client.run].toClient) \in ToClient
        BY <1>0, <3>1, ClientReceivesType
      <3>3. Head(link[client.run].toClient).size \in Nat
        BY <3>1, <3>2 DEF ToClient
      <3> QED
        BY <3>3, ToUIntIsUint
    <2> QED
      BY <1>7, <2>2, <2>3, <2>4 DEF Accepted
  <1>8. CASE AwaitFails \/ ReceiveStalls
    <2>1. /\ client.pc \in {"await", "recv"} /\ client'.pc = "finish"
          /\ UpdateRow(client.obj, "interrupted", client.size) /\ UNCHANGED rFile
      BY <1>0, <1>8 DEF AwaitFails, ReceiveStalls, CatchObject, Client
    <2>2. spent'.deaths = spent.deaths
      BY <1>0, <1>8, FailsWhenDeaths DEF AwaitFails, ReceiveStalls
    <2> QED
      BY <1>0, <2>1, <2>2, UpdateRowReads
  <1>9. CASE DataConnected
    <2>1. /\ client.pc = "accept" /\ client'.pc = "recv" /\ client'.obj = client.obj
          /\ client'.size = client.size /\ client'.flag = "running"
          /\ UpdateRow(client.obj, "running", client.size) /\ UNCHANGED <<rFile, spent>>
      BY <1>0, <1>9 DEF DataConnected, Client
    <2> QED
      BY <1>0, <2>1, UpdateRowReads
  <1>10. CASE DataTimeout
    <2>1. /\ client.pc = "accept" /\ client'.pc = "loop" /\ UNCHANGED rFile
          /\ UpdateRow(client.obj, "pending", client.size)
      BY <1>0, <1>10 DEF DataTimeout, Client
    <2>2. spent'.deaths = spent.deaths
      BY <1>0, <1>10, FailsWhenDeaths DEF DataTimeout
    <2> QED
      BY <1>0, <2>1, <2>2, UpdateRowReads
  <1>11. CASE ReadChunks
    <2>1. /\ client.pc = "recv" /\ UNCHANGED <<client, rFlag, rSize, spent>>
          /\ \A o \in Objects \ {client.obj} : rFile'[o] = rFile[o]
      BY <1>0, <1>11 DEF ReadChunks, AppendToFile, TypeOK
    <2> QED
      BY <1>0, <2>1
  <1>12. CASE ReceiveEnds
    <2>1. /\ client.pc = "recv" /\ client'.pc = "record" /\ client'.obj = client.obj
          /\ client'.size = client.size
          /\ client'.flag = IF SizeMatches THEN "done" ELSE "interrupted"
          /\ UNCHANGED <<rFlag, rSize, rFile, spent>>
      BY <1>0, <1>12 DEF ReceiveEnds, Client
    <2> QED
      BY <1>0, <2>1 DEF SizeMatches
  <1>13. CASE RecordFile
    <2>1. /\ client.pc = "record" /\ client'.pc = "loop" /\ UNCHANGED <<rFile, spent>>
          /\ UpdateRow(client.obj, client.flag, client.size)
      BY <1>0, <1>13 DEF RecordFile, Client
    <2> QED
      BY <1>0, <2>1, UpdateRowReads
  <1> QED
    BY <1>1, <1>2, <1>3, <1>4, <1>5, <1>6, <1>7, <1>8, <1>9, <1>10, <1>11, <1>12, <1>13
       DEF ClientStep

LEMMA OtherStepRows ==
  ASSUME TypeInv, RowsInv, EnvironmentStep \/ \E k \in Runs : SessionStep(k)
  PROVE  RowsInv' /\ DoneStays
  <1> USE DEF RowsInv, Busy, HandIsOpen, HandFlag, DoneIsWhole, RunningHasReceiver, DoneStays,
              myObj, myRun, receiverStore, senderStore
  <1>0. /\ TypeOK /\ client \in Client /\ rFlag \in [Objects -> Flag]
        /\ spent \in [faults: Nat, edits: Nat, clicks: Nat, crashes: Nat, deaths: Nat]
    BY DEF TypeInv, TypeOK
  <1>a. /\ Fault \/ Click \/ Edit => spent'.deaths = spent.deaths
        /\ Crash(0) => spent'.deaths = spent.deaths
        /\ Crash(1) => spent'.deaths # 0
    <2>1. spent.deaths \in Nat
      BY <1>0
    <2>2. Crash(1) => spent'.deaths = spent.deaths + 1
      BY <1>0 DEF Crash
    <2>3. Crash(0) => spent'.deaths = spent.deaths + 0
      BY <1>0 DEF Crash
    <2> QED
      BY <1>0, <2>1, <2>2, <2>3 DEF Fault, Click, Edit
  <1>1. ASSUME NEW k \in Runs, SessionStep(k)
        PROVE  RowsInv' /\ DoneStays
    <2>1. UNCHANGED <<client, rFlag, rSize, rFile>>
      BY <1>1 DEF SessionStep, Greet, TakeBye, RefuseInterrupted, RefuseMissingRow,
           RefuseUnreadable, AcceptFile, ConnectData, ConnectDataFails, SendChunk, SendDone,
           SendFails, EndSending, ServerReceiveFails
    <2>2. spent'.deaths = spent.deaths
      BY <1>0, <1>1, FailsWhenDeaths DEF SessionStep, Greet, TakeBye, RefuseInterrupted,
           RefuseMissingRow, RefuseUnreadable, AcceptFile, ConnectData, ConnectDataFails,
           SendChunk, SendDone, SendFails, ServerReceiveFails
    <2> QED
      BY <2>1, <2>2
  <1>2. CASE StartTransfer
    <2>1. client.pc = "off" /\ client'.pc = "start" /\ UNCHANGED <<rFlag, rSize, rFile, spent>>
      BY <1>0, <1>2 DEF StartTransfer, Client
    <2> QED
      BY <2>1
  <1>3. CASE PauseReceiving
    <2>1. /\ client'.pc = client.pc /\ client'.obj = client.obj /\ client'.flag = client.flag
          /\ client'.size = client.size /\ UNCHANGED <<rFlag, rSize, rFile>>
          /\ spent'.deaths = spent.deaths
      BY <1>0, <1>3, <1>a DEF PauseReceiving, Client
    <2> QED
      BY <1>0, <2>1
  <1>4. CASE RetryReceiving \/ \E o \in Objects : ItemActivated(o)
    <2>1. /\ UNCHANGED <<client, rSize, rFile>> /\ spent'.deaths = spent.deaths
          /\ \A o \in Objects : \/ rFlag'[o] = rFlag[o]
                                \/ rFlag'[o] = "pending" /\ rFlag[o] # "done"
      BY <1>0, <1>4, <1>a DEF RetryReceiving, ItemActivated
    <2> QED
      BY <1>0, <2>1
  <1>5. CASE \/ PauseSending \/ InsertRows \/ Forget \/ SenderCrash
             \/ \E o \in Objects : RewriteFile(o) \/ HideFile(o)
             \/ \E k \in Runs : LinkBreaks(k) \/ DataBreaks(k)
    <2>1. /\ UNCHANGED <<client, rFlag, rSize, rFile>>
          /\ spent' = spent \/ Fault \/ Click \/ Edit \/ Crash(0)
      BY <1>5 DEF PauseSending, InsertRows, Forget, SenderCrash, RewriteFile, HideFile,
           LinkBreaks, DataBreaks
    <2> QED
      BY <1>a, <2>1
  <1>6. CASE ReceiverCrash
    <2>1. /\ client'.pc = "off" /\ spent'.deaths # 0 /\ UNCHANGED <<rFlag, rSize>>
          /\ \A o \in Objects : rFile'[o] = rFile[o] \/ (client.pc = "record" /\ o = client.obj)
      BY <1>0, <1>6, <1>a DEF ReceiverCrash, Client, TypeOK
    <2> QED
      BY <1>0, <2>1
  <1> QED
    BY <1>1, <1>2, <1>3, <1>4, <1>5, <1>6 DEF EnvironmentStep

-----------------------------------------------------------------------------
(* Farewells and announcements *)

InTransit(k) == {link[k].toServer[i] : i \in DOMAIN link[k].toServer}

SaysDone(m) == m.kind = "bye" /\ m.done

LEMMA ByeInTransit == ByeIsTrue <=> \A k \in Runs : \A m \in InTransit(k) : SaysDone(m) => AllDone
  BY DEF ByeIsTrue, InTransit, SaysDone

LEMMA TailTransit ==
  ASSUME NEW q \in Seq(ToServer), q # <<>>, NEW i \in DOMAIN Tail(q)
  PROVE  \E j \in DOMAIN q : q[j] = Tail(q)[i]
  <1>1. /\ Tail(q) \in Seq(ToServer) /\ Len(Tail(q)) = Len(q) - 1
        /\ \A j \in 1 .. Len(Tail(q)) : Tail(q)[j] = q[j + 1]
    BY HeadTailProperties
  <1>2. DOMAIN q = 1 .. Len(q) /\ Len(q) \in Nat /\ DOMAIN Tail(q) = 1 .. Len(Tail(q))
    BY <1>1, LenProperties
  <1>3. i + 1 \in DOMAIN q /\ q[i + 1] = Tail(q)[i]
    BY <1>1, <1>2
  <1> QED
    BY <1>3

LEMMA AppendTransit ==
  ASSUME NEW q \in Seq(ToServer), NEW m \in ToServer, NEW i \in DOMAIN Append(q, m)
  PROVE  Append(q, m)[i] = m \/ \E j \in DOMAIN q : q[j] = Append(q, m)[i]
  <1>1. /\ Append(q, m) \in Seq(ToServer) /\ Len(Append(q, m)) = Len(q) + 1
        /\ \A j \in 1 .. Len(q) : Append(q, m)[j] = q[j]
        /\ Append(q, m)[Len(q) + 1] = m
    BY AppendProperties
  <1>2. DOMAIN q = 1 .. Len(q) /\ Len(q) \in Nat /\ DOMAIN Append(q, m) = 1 .. Len(Append(q, m))
    BY <1>1, LenProperties
  <1>3. i = Len(q) + 1 \/ i \in 1 .. Len(q)
    BY <1>1, <1>2
  <1> QED
    BY <1>1, <1>2, <1>3

\* No step puts a false farewell on its way: the only one that says "done" is sent by
\* Finish, when no row is left.
LEMMA NoFalseBye ==
  ASSUME TypeInv, Next, NEW k \in Runs, NEW m \in InTransit(k)'
  PROVE  m \in InTransit(k) \/ (SaysDone(m) => AllDone)
  <1> USE DEF InTransit, receiverStore, senderStore, myRun
  <1>0. /\ TypeOK /\ link \in [Runs -> Link] /\ RunNumbered
        /\ \A j \in Runs : link[j] \in Link /\ link[j].toServer \in Seq(ToServer)
    BY LinkParts DEF TypeInv, TypeOK
  <1>1. CASE ClientStep
    <2>0. client.pc # "off" => client.run \in Runs
      BY <1>0 DEF RunNumbered
    <2>1. CASE OpenSeamless
      <3>1. \/ link'[k] = link[k]
            \/ link'[k].toServer = <<[kind |-> "hello"]>>
        BY <1>0, <2>0, <2>1 DEF OpenSeamless
      <3> QED
        BY <3>1 DEF SaysDone
    <2>2. CASE RequestNext
      <3>1. PICK f : f.kind = "file" /\ f \in ToServer /\ ClientSends(client.run, f)
        <4>1. PICK o \in Objects : ClientSends(client.run,
                [kind |-> "file", obj |-> o, skip |-> SkippedBytes(o), bit |-> ~client.bit])
          BY <2>2 DEF RequestNext
        <4>2. Len(rFile[o]) \in Nat
          BY <1>0, LenProperties DEF TypeOK
        <4> QED
          BY <4>1, <4>2 DEF SkippedBytes, ToServer
      <3>2. \/ link'[k].toServer = link[k].toServer
            \/ link'[k].toServer = Append(link[k].toServer, f)
        BY <1>0, <3>1 DEF ClientSends
      <3>3. CASE link'[k].toServer = link[k].toServer
        BY <3>3
      <3>4. CASE link'[k].toServer = Append(link[k].toServer, f)
        <4>1. ~SaysDone(f)
          BY <3>1 DEF SaysDone
        <4> QED
          BY <1>0, <3>1, <3>4, <4>1, AppendTransit
      <3> QED
        BY <3>2, <3>3, <3>4
    <2>3. CASE Finish
      <3> DEFINE isJobDone == ~client.retry /\ ~HasLeftFiles
                 bye == [kind |-> "bye", done |-> isJobDone]
      <3>1. \/ link'[k].toServer = link[k].toServer
            \/ link'[k].toServer = Append(link[k].toServer, bye)
        BY <1>0, <2>3 DEF Finish
      <3>2. bye \in ToServer
        BY DEF ToServer
      <3>3. SaysDone(bye) => AllDone
        BY DEF SaysDone, HasLeftFiles, AllDone
      <3>4. CASE link'[k].toServer = link[k].toServer
        BY <3>4
      <3>5. CASE link'[k].toServer = Append(link[k].toServer, bye)
        <4> HIDE DEF bye
        <4> QED
          BY <1>0, <3>2, <3>3, <3>5, AppendTransit
      <3> QED
        BY <3>1, <3>4, <3>5
    <2>4. CASE ~(OpenSeamless \/ RequestNext \/ Finish)
      <3>1. CASE Welcomed \/ SenderPaused \/ ErrorIgnored \/ Accepted
        <4>1. \E r : ClientReceives(client.run, r)
          BY <3>1 DEF Welcomed, SenderPaused, ErrorIgnored, Accepted
        <4> QED
          BY <1>0, <4>1 DEF ClientReceives
      <3>2. CASE Refused \/ HelloFails
        <4>1. ClientCloses(client.run)
          BY <3>2 DEF Refused, HelloFails
        <4> QED
          BY <1>0, <4>1 DEF ClientCloses
      <3>3. CASE \/ ConnectFails \/ RequestFails \/ LeaveLoop \/ AwaitFails \/ DataConnected
                 \/ DataTimeout \/ ReadChunks \/ ReceiveEnds \/ ReceiveStalls \/ RecordFile
        <4>1. UNCHANGED link
          BY <3>3 DEF ConnectFails, RequestFails, LeaveLoop, AwaitFails, DataConnected,
               DataTimeout, ReadChunks, ReceiveEnds, ReceiveStalls, RecordFile
        <4> QED
          BY <4>1
      <3> QED
        BY <1>1, <2>4, <3>1, <3>2, <3>3 DEF ClientStep
    <2> QED
      BY <2>1, <2>2, <2>3, <2>4
  <1>2. ASSUME NEW j \in Runs, SessionStep(j)
        PROVE  m \in InTransit(k)
    <2> DEFINE Shorter == \/ link'[k].toServer = link[k].toServer
                         \/ link'[k].toServer = <<>>
                         \/ /\ link[k].toServer # <<>>
                            /\ link'[k].toServer = Tail(link[k].toServer)
    <2>1. ASSUME UNCHANGED link PROVE Shorter
      BY <2>1
    <2>2. ASSUME HasRequest(j) /\ \E r : ServerReplies(j, r) PROVE Shorter
      BY <1>0, <2>2 DEF ServerReplies, HasRequest
    <2>3. ASSUME ServerCloses(j) PROVE Shorter
      BY <1>0, <2>3 DEF ServerCloses
    <2>4. ASSUME Greet(j) PROVE Shorter
      <3>1. CASE sGroup = "known"
        BY <2>2, <2>4, <3>1 DEF Greet
      <3>2. CASE sGroup # "known"
        <4>1. PICK q : link' = [link EXCEPT ![j] = [st |-> "closed", toServer |-> <<>>,
                                                    toClient |-> q]]
          BY <2>4, <3>2 DEF Greet
        <4> QED
          BY <1>0, <4>1
      <3> QED
        BY <3>1, <3>2
    <2>5. ASSUME TakeBye(j) PROVE Shorter
      <3>1. ServerCloses(j) \/ link' = [link EXCEPT ![j].toServer = Tail(@)]
        BY <2>5 DEF TakeBye
      <3>2. link[j].toServer # <<>>
        BY <2>5 DEF TakeBye, HasRequest
      <3>3. CASE ServerCloses(j)
        BY <2>3, <3>3
      <3>4. CASE link' = [link EXCEPT ![j].toServer = Tail(@)]
        <4>1. j = k => link'[k].toServer = Tail(link[k].toServer)
          BY <1>0, <3>4
        <4>2. j # k => link'[k] = link[k]
          BY <1>0, <3>4
        <4> QED
          BY <3>2, <4>1, <4>2
      <3> QED
        BY <3>1, <3>3, <3>4
    <2>6. \/ UNCHANGED link \/ (HasRequest(j) /\ \E r : ServerReplies(j, r)) \/ ServerCloses(j)
          \/ Greet(j) \/ TakeBye(j)
      BY <1>2 DEF SessionStep, RefuseInterrupted, RefuseMissingRow,
           RefuseUnreadable, AcceptFile, ConnectData, ConnectDataFails, SendChunk, SendDone,
           SendFails, EndSending, ServerReceiveFails, ReplyOrEnd
    <2>7. Shorter
      BY <2>1, <2>2, <2>3, <2>4, <2>5, <2>6
    <2>8. CASE link[k].toServer # <<>> /\ link'[k].toServer = Tail(link[k].toServer)
      BY <1>0, <2>8, TailTransit
    <2> QED
      BY <2>7, <2>8
  <1>3. CASE EnvironmentStep
    <2> DEFINE Shorter == link'[k].toServer = link[k].toServer \/ link'[k].toServer = <<>>
    <2>1. ASSUME NEW j \in Runs, LinkBreaks(j) PROVE Shorter
      BY <1>0, <2>1 DEF LinkBreaks
    <2>2. ASSUME ReceiverCrash PROVE Shorter
      BY <1>0, <2>2 DEF ReceiverCrash
    <2>3. ASSUME SenderCrash PROVE Shorter
      <3>1. link'[k] = IF link[k].st = "free" THEN link[k]
                       ELSE [link[k] EXCEPT !.st = "closed", !.toServer = <<>>]
        BY <2>3 DEF SenderCrash
      <3> QED
        BY <1>0, <3>1 DEF Link
    <2>4. ASSUME UNCHANGED link PROVE Shorter
      BY <2>4
    <2>5. UNCHANGED link \/ ReceiverCrash \/ SenderCrash \/ \E j \in Runs : LinkBreaks(j)
      BY <1>3 DEF EnvironmentStep, StartTransfer, PauseReceiving, PauseSending,
           RetryReceiving, InsertRows, Forget, ItemActivated, RewriteFile, HideFile, DataBreaks
    <2> QED
      BY <2>1, <2>2, <2>3, <2>4, <2>5
  <1> QED
    BY <1>1, <1>2, <1>3, NextSplit

\* An announcement is made by a client that has counted its rows or by a session that
\* has read such a client's farewell.
LEMMA AnnouncedWhenDone ==
  ASSUME TypeInv, ByeIsTrue, Next, told' # told
  PROVE  AllDone /\ told' # {}
  <1> USE DEF receiverStore, senderStore
  <1>1. CASE Finish
    BY <1>1 DEF Finish, HasLeftFiles, AllDone
  <1>2. ASSUME NEW k \in Runs, TakeBye(k)
        PROVE  AllDone /\ told' # {}
    <2>1. link[k].toServer \in Seq(ToServer)
      BY LinkParts DEF TypeInv, TypeOK
    <2>2. 1 \in DOMAIN link[k].toServer /\ link[k].toServer[1] = Head(link[k].toServer)
      BY <1>2, <2>1, EmptySeq, LenProperties DEF TakeBye, HasRequest
    <2>3. Request(k).kind = "bye" /\ Request(k).done
      BY <1>2 DEF TakeBye
    <2>4. AllDone
      BY <2>2, <2>3 DEF ByeIsTrue, Request
    <2> QED
      BY <1>2, <2>3, <2>4 DEF TakeBye
  <1>3. Finish \/ \E k \in Runs : TakeBye(k)
    <2>1. CASE ClientStep
      BY <2>1 DEF ClientStep, ConnectFails, OpenSeamless, Welcomed, Refused, HelloFails,
           RequestNext, RequestFails, LeaveLoop, SenderPaused, ErrorIgnored, Accepted,
           AwaitFails, DataConnected, DataTimeout, ReadChunks, ReceiveEnds, ReceiveStalls,
           RecordFile
    <2>2. ASSUME NEW k \in Runs, SessionStep(k)
          PROVE  TakeBye(k)
      BY <2>2 DEF SessionStep, Greet, RefuseInterrupted, RefuseMissingRow, RefuseUnreadable,
           AcceptFile, ConnectData, ConnectDataFails, SendChunk, SendDone, SendFails,
           EndSending, ServerReceiveFails
    <2>3. CASE EnvironmentStep
      BY <2>3 DEF EnvironmentStep, StartTransfer, PauseReceiving, PauseSending,
           RetryReceiving, InsertRows, Forget, ReceiverCrash, SenderCrash, ItemActivated,
           RewriteFile, HideFile, LinkBreaks, DataBreaks
    <2> QED
      BY <2>1, <2>2, <2>3, NextSplit
  <1> QED
    BY <1>1, <1>2, <1>3

-----------------------------------------------------------------------------
(* The invariant holds, and what follows from it *)

LEMMA InitIInv == Init => IInv
  <1> SUFFICES ASSUME Init PROVE IInv
    OBVIOUS
  <1>1. ByeIsTrue /\ JobDoneIsTrue
    BY DEF Init, ByeIsTrue, JobDoneIsTrue
  <1> QED
    BY <1>1, InitType, InitRows DEF IInv, TypeInv, RowsInv

LEMMA StepIInv ==
  ASSUME IInv, [Next]_vars
  PROVE  IInv' /\ DoneStays
  <1>0. TypeInv /\ RowsInv /\ ByeIsTrue /\ JobDoneIsTrue
    BY DEF IInv, TypeInv, RowsInv
  <1>1. CASE Next
    <2>1. TypeInv' /\ RowsInv' /\ DoneStays
      BY <1>0, <1>1, NextSplit, ClientStepType, SessionStepType, EnvironmentType,
         ClientStepRows, OtherStepRows
    <2>2. AllDone => AllDone'
      BY <2>1 DEF DoneStays, AllDone
    <2>3. ByeIsTrue'
      <3>1. \A k \in Runs : \A m \in InTransit(k)' : SaysDone(m) => AllDone'
        BY <1>0, <1>1, <2>2, NoFalseBye, ByeInTransit
      <3> QED
        BY <3>1 DEF ByeIsTrue, InTransit, SaysDone
    <2>4. JobDoneIsTrue'
      <3>1. CASE told' = told
        BY <1>0, <2>1, <3>1 DEF JobDoneIsTrue, DoneStays
      <3>2. CASE told' # told
        BY <1>0, <1>1, <2>2, <3>2, AnnouncedWhenDone DEF JobDoneIsTrue, AllDone
      <3> QED
        BY <3>1, <3>2
    <2> QED
      BY <2>1, <2>3, <2>4 DEF IInv, TypeInv, RowsInv
  <1>2. CASE UNCHANGED vars
    BY <1>0, <1>2, StutterType DEF IInv, TypeInv, RowsInv, DoneStays, vars, receiverStore, HandIsOpen,
       HandFlag, Busy, myObj, DoneIsWhole, RunningHasReceiver, ByeIsTrue, AllDone, JobDoneIsTrue
  <1> QED
    BY <1>1, <1>2

\* The invariant is inductive, so it holds in every state.
THEOREM IInvInvariant == Spec => []IInv
  BY InitIInv, StepIInv, PTL DEF Spec

\* A Done row points to a file of exactly the row's size: neither overshooting reads, nor
\* crashes around the rename, nor rows written back from a copy break this.
THEOREM DoneFilesAreWhole == Spec => []DoneIsWhole
  BY IInvInvariant, PTL DEF IInv

\* No step of anybody undoes a Done row.
THEOREM DoneRowsAreFinal == Spec => DoneIsFinal
  <1>1. IInv /\ [Next]_vars => [DoneStays]_vars
    BY StepIInv
  <1>2. [DoneStays]_vars => [\A o \in Objects : rFlag[o] = "done" => rFlag'[o] = "done"]_vars
    BY DEF DoneStays
  <1> QED
    BY <1>1, <1>2, IInvInvariant, PTL DEF Spec, DoneIsFinal

\* taskDone is emitted on either device only when all rows of the receiver are Done.
THEOREM JobDoneIsAnnouncedTruly == Spec => []JobDoneIsTrue
  BY IInvInvariant, PTL DEF IInv

\* Until the receiving application dies, no row is Running without its receiver: also when
\* the sender dies, connections break or the user interferes.
THEOREM RunningRowsHaveAReceiver == Spec => []RunningHasReceiver
  BY IInvInvariant, PTL DEF IInv

-----------------------------------------------------------------------------
(* The transfer keeps the promise of FileDelivery *)

\* The status of a row with flag f, and the object being fetched, as FileDelivery sees them.
Seen(f) == CASE f = "done" -> "arrived" [] f = "removed" -> "dropped" [] OTHER -> "open"
Status  == [o \in Objects |-> Seen(rFlag[o])]
Current == IF Busy THEN myObj ELSE NoObject

LEMMA DeliveryVars ==
  /\ Delivery!vars = <<Status, Current, told # {}>>
  /\ Delivery!vars' = <<Status', Current', told' # {}>>
  /\ Delivery!Init <=> /\ Status = [o \in Objects |-> "open"]
                       /\ Current = NoObject /\ (told # {}) = FALSE
  /\ \A o \in Objects :
       /\ (Current = NoObject /\ Status[o] = "open" /\ Current' = o
             /\ Status' = Status /\ (told' # {}) = (told # {})) => Delivery!Begin(o)
       /\ (Current = o /\ Current' = NoObject
             /\ (\E s \in {"arrived", "dropped", Status[o]} : Status' = [Status EXCEPT ![o] = s])
             /\ (told' # {}) = (told # {})) => Delivery!End(o)
  /\ (Current = NoObject
        /\ Status' = [o \in Objects |-> IF Status[o] = "arrived" THEN "arrived" ELSE "dropped"]
        /\ Current' = Current /\ (told' # {}) = (told # {})) => Delivery!DropAll
  /\ (Current = NoObject /\ (\A o \in Objects : Status[o] = "arrived")
        /\ (told' # {}) = TRUE /\ Status' = Status /\ Current' = Current) => Delivery!Announce
  <1> USE DEF Status, Current, Seen, Busy
  <1>1. /\ Delivery!vars = <<Status, Current, told # {}>>
        /\ Delivery!vars' = <<Status', Current', told' # {}>>
    BY DEF Delivery!vars
  <1> QED
    BY <1>1 DEF Delivery!Init, Delivery!Begin, Delivery!End, Delivery!DropAll, Delivery!Announce

LEMMA DeliveryStep ==
  ASSUME IInv, [Next]_vars
  PROVE  [Delivery!Next]_(Delivery!vars)
  <1> DEFINE Goal == [Delivery!Next]_(Delivery!vars)
  <1>0. /\ TypeInv /\ RowsInv /\ ByeIsTrue /\ TypeOK /\ client \in Client
        /\ rFlag \in [Objects -> Flag] /\ HandIsOpen /\ HandFlag /\ NoObject \notin Objects
    BY ObjectsAssumption DEF IInv, TypeInv, RowsInv, TypeOK
  <1>p. TypeInv' /\ RowsInv' /\ DoneStays /\ HandIsOpen' /\ rFlag' \in [Objects -> Flag]
    BY StepIInv DEF IInv, TypeInv, RowsInv, TypeOK
  <1>n. /\ Delivery!DropAll => Delivery!Next
        /\ Delivery!Announce => Delivery!Next
        /\ \A o \in Objects : Delivery!Begin(o) \/ Delivery!End(o) => Delivery!Next
    BY DEF Delivery!Next
  <1>s. (\A o \in Objects : Seen(rFlag'[o]) = Seen(rFlag[o])) => Status' = Status
    BY DEF Status
  <1>u. Status' = Status /\ Current' = Current /\ told' = told => Goal
    BY DeliveryVars
  <1>f. \A f \in Flag : /\ Seen(f) \in {"arrived", "dropped", "open"}
                        /\ f \in {"interrupted", "pending", "running"} <=> Seen(f) = "open"
                        /\ f = "done" <=> Seen(f) = "arrived"
                        /\ f = "removed" <=> Seen(f) = "dropped"
    BY DEF Seen, Flag
  <1>1. CASE told' # told
    <2>1. AllDone /\ told' # {} /\ Next
      BY <1>0, <1>1, AnnouncedWhenDone DEF vars
    <2>2. ~Busy /\ ~Busy'
      BY <1>0, <1>p, <2>1 DEF AllDone, HandIsOpen, DoneStays
    <2>3. \A o \in Objects : rFlag[o] = "done" /\ rFlag'[o] = "done"
      BY <1>p, <2>1 DEF AllDone, DoneStays
    <2>4. Status' = Status /\ \A o \in Objects : Status[o] = "arrived"
      BY <2>3, <1>s DEF Status, Seen
    <2>5. Current = NoObject /\ Current' = NoObject
      BY <2>2 DEF Current
    <2> QED
      BY <1>n, <2>1, <2>4, <2>5, DeliveryVars
  \* The object in hand is put down: its row becomes f, or nothing is written.
  <1>e. ASSUME Busy, ~Busy', told' = told,
               \A o \in Objects \ {myObj} : rFlag'[o] = rFlag[o]
        PROVE  Goal
    <2>1. myObj \in Objects /\ Status[myObj] = "open" /\ Current = myObj /\ Current' = NoObject
      BY <1>0, <1>e, <1>f DEF HandIsOpen, Current, Status, Flag
    <2>2. Seen(rFlag'[myObj]) \in {"arrived", "dropped", Status[myObj]}
      BY <1>f, <1>p, <2>1
    <2>3. Status' = [Status EXCEPT ![myObj] = Seen(rFlag'[myObj])]
      BY <1>e, <2>1 DEF Status
    <2>4. PICK o \in Objects : o = myObj
      BY <2>1
    <2>5. \E s \in {"arrived", "dropped", Status[o]} : Status' = [Status EXCEPT ![o] = s]
      BY <2>2, <2>3, <2>4
    <2>6. Delivery!End(o)
      BY <1>e, <2>1, <2>4, <2>5, DeliveryVars
    <2> QED
      BY <1>n, <2>6
  \* Nothing FileDelivery speaks of changes.
  <1>k. ASSUME told' = told, Current' = Current,
               \A o \in Objects : \/ rFlag'[o] = rFlag[o]
                                  \/ {rFlag[o], rFlag'[o]} \subseteq {"interrupted", "pending", "running"}
        PROVE  Goal
    <2>1. \A o \in Objects : Seen(rFlag'[o]) = Seen(rFlag[o])
      BY <1>0, <1>k, <1>p, <1>f
    <2> QED
      BY <1>k, <1>s, <1>u, <2>1
  <1>2. CASE told' = told /\ ClientStep
    <2> USE DEF myObj, myRun, receiverStore
    <2>1. CASE \/ ConnectFails \/ OpenSeamless \/ Welcomed \/ LeaveLoop \/ Finish
               \/ HelloFails \/ RequestFails
      <3>1. ~Busy /\ ~Busy'
        BY <1>0, <2>1 DEF ConnectFails, OpenSeamless, Welcomed, LeaveLoop, Finish, HelloFails,
             RequestFails, Client, Busy
      <3>2. \A o \in Objects : \/ rFlag'[o] = rFlag[o]
                               \/ rFlag[o] = "pending" /\ rFlag'[o] = "interrupted"
        BY <1>0, <2>1 DEF ConnectFails, OpenSeamless, Welcomed, LeaveLoop, Finish, HelloFails,
             RequestFails, UpdateRow, FirstAvailable, Pending
      <3> QED
        BY <1>2, <1>k, <3>1, <3>2 DEF Current
    <2>2. CASE Refused
      <3>1. client.pc = "hello" /\ client'.pc = "off"
        BY <1>0, <2>2 DEF Refused, Client
      <3>2. Current = NoObject /\ Current' = NoObject
        BY <3>1 DEF Current, Busy
      <3>3. CASE rFlag' = rFlag
        BY <1>2, <1>k, <3>2, <3>3
      <3>4. CASE rFlag' = RemoveUnfinished
        <4>1. Status' = [o \in Objects |-> IF Status[o] = "arrived" THEN "arrived" ELSE "dropped"]
          BY <3>4, <1>0, <1>f DEF RemoveUnfinished, Status, Seen
        <4> QED
          BY <1>2, <1>n, <3>2, <4>1, DeliveryVars
      <3> QED
        BY <2>2, <3>3, <3>4 DEF Refused
    <2>3. CASE RequestNext
      <3>1. PICK o \in Objects : /\ FirstAvailable(o)
                                 /\ client' = [client EXCEPT !.pc = "await", !.obj = o,
                                      !.flag = "pending", !.size = rSize[o], !.bit = ~@]
        BY <2>3 DEF RequestNext
      <3>2. /\ client'.pc = "await" /\ client'.obj = o /\ client.pc = "loop" /\ rFlag' = rFlag
            /\ rFlag[o] = "pending"
        BY <1>0, <2>3, <3>1 DEF RequestNext, Client, FirstAvailable, Pending
      <3>3. /\ Current = NoObject /\ Current' = o /\ Status' = Status /\ Status[o] = "open"
        BY <3>2 DEF Current, Busy, Status, Seen
      <3> HIDE DEF Goal
      <3>4. Delivery!Begin(o)
        BY <1>2, <3>3, DeliveryVars
      <3> QED
        BY <1>n, <3>4 DEF Goal
    <2>4. CASE \/ SenderPaused \/ ErrorIgnored \/ AwaitFails \/ ReceiveStalls \/ DataTimeout
               \/ RecordFile
      <3>1. Busy /\ ~Busy'
        BY <1>0, <2>4 DEF SenderPaused, ErrorIgnored, AwaitFails, ReceiveStalls, DataTimeout,
             RecordFile, CatchObject, Busy, Client
      <3>2. \A o \in Objects \ {myObj} : rFlag'[o] = rFlag[o]
        BY <1>0, <2>4 DEF SenderPaused, ErrorIgnored, AwaitFails, ReceiveStalls, DataTimeout,
             RecordFile, CatchObject, UpdateRow
      <3> QED
        BY <1>2, <1>e, <3>1, <3>2
    <2>5. CASE Accepted
      <3>1. client.pc = "await"
        BY <2>5 DEF Accepted
      <3>2. CASE client' = [client EXCEPT !.pc = "accept"] /\ UNCHANGED <<rFlag, rSize, data>>
        <4>1. client'.pc = "accept" /\ client'.obj = client.obj
          BY <1>0, <3>2 DEF Client
        <4> QED
          BY <1>2, <1>k, <3>1, <3>2, <4>1 DEF Current, Busy
      <3>3. ASSUME NEW s, UpdateRow(client.obj, "removed", s),
                   client' = [client EXCEPT !.pc = "loop", !.flag = "removed", !.size = s]
            PROVE  Goal
        <4>1. client'.pc = "loop"
          BY <1>0, <3>3 DEF Client
        <4>2. \A o \in Objects \ {myObj} : rFlag'[o] = rFlag[o]
          BY <1>0, <3>3 DEF UpdateRow
        <4> QED
          BY <1>2, <1>e, <3>1, <4>1, <4>2 DEF Busy
      <3> QED
        BY <2>5, <3>2, <3>3 DEF Accepted
    <2>6. CASE DataConnected \/ ReceiveEnds \/ ReadChunks
      <3>1. Busy /\ Busy' /\ client'.obj = client.obj
        BY <1>0, <2>6 DEF DataConnected, ReceiveEnds, ReadChunks, Busy, Client
      <3>2. \A o \in Objects : rFlag'[o] = rFlag[o] \/ (o = myObj /\ rFlag'[o] = "running")
        BY <1>0, <2>6 DEF DataConnected, ReceiveEnds, ReadChunks, UpdateRow
      <3>3. rFlag[myObj] \in {"pending", "running"}
        BY <1>0, <3>1 DEF HandIsOpen
      <3> QED
        BY <1>2, <1>k, <3>1, <3>2, <3>3 DEF Current
    <2> QED
      BY <1>2, <2>1, <2>2, <2>3, <2>4, <2>5, <2>6 DEF ClientStep
  <1>3. CASE told' = told /\ EnvironmentStep
    <2> USE DEF myObj, myRun, receiverStore
    <2>1. CASE RetryReceiving \/ \E o \in Objects : ItemActivated(o)
      <3>1. \A o \in Objects : \/ rFlag'[o] = rFlag[o]
                               \/ rFlag'[o] = "pending" /\ rFlag[o] \notin {"done", "removed"}
        BY <1>0, <2>1 DEF RetryReceiving, ItemActivated
      <3>2. Current' = Current
        BY <2>1 DEF RetryReceiving, ItemActivated, Current, Busy
      <3> QED
        BY <1>0, <1>3, <1>k, <3>1, <3>2 DEF Flag
    <2>2. CASE StartTransfer \/ PauseReceiving
      <3>1. Current' = Current /\ rFlag' = rFlag
        BY <1>0, <2>2 DEF StartTransfer, PauseReceiving, Current, Busy, Client
      <3> QED
        BY <1>3, <1>k, <3>1
    <2>3. CASE ReceiverCrash
      <3>1. ~Busy' /\ rFlag' = rFlag
        BY <1>0, <2>3 DEF ReceiverCrash, Busy, Client
      <3> QED
        BY <1>3, <1>e, <1>k, <3>1 DEF Current
    <2>4. CASE client' = client /\ rFlag' = rFlag
      BY <1>3, <1>k, <2>4 DEF Current, Busy
    <2> QED
      BY <1>3, <2>1, <2>2, <2>3, <2>4 DEF EnvironmentStep, PauseSending, InsertRows, Forget,
         SenderCrash, RewriteFile, HideFile, LinkBreaks, DataBreaks
  <1>4. ASSUME told' = told, NEW k \in Runs, SessionStep(k)
        PROVE  Goal
    <2>1. UNCHANGED <<client, rFlag>>
      BY <1>4 DEF SessionStep, Greet, TakeBye, RefuseInterrupted, RefuseMissingRow,
           RefuseUnreadable, AcceptFile, ConnectData, ConnectDataFails, SendChunk, SendDone,
           SendFails, EndSending, ServerReceiveFails, receiverStore
    <2> QED
      BY <1>4, <1>k, <2>1 DEF Current, Busy, myObj
  <1>5. CASE UNCHANGED vars
    BY <1>5, <1>k DEF vars, receiverStore, Current, Busy, myObj
  <1> QED
    BY <1>1, <1>2, <1>3, <1>4, <1>5, NextSplit

\* Every behaviour of the transfer, with all its faults, is one FileDelivery allows: one
\* file at a time, nothing arrived is lost again, and no announcement before the end.
THEOREM TransferDelivers == Spec => DeliverySpec
  <1>1. Init => Delivery!Init
    <2> SUFFICES ASSUME Init PROVE Delivery!Init
      OBVIOUS
    <2>1. Status = [o \in Objects |-> "open"]
      BY DEF Init, Status, Seen
    <2>2. Current = NoObject /\ told = {}
      BY DEF Init, Current, Busy
    <2> QED
      BY <2>1, <2>2, DeliveryVars
  <1> QED
    BY <1>1, DeliveryStep, IInvInvariant, PTL DEF Spec, DeliverySpec, Delivery!Spec

=============================================================================
