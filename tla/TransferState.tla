---------------------------- MODULE TransferState -----------------------------
(***************************************************************************)
(* What the two ends of a TrebleShot file transfer share: the rows and     *)
(* files of both devices, the control and the data connections between     *)
(* them, and the state of the threads at their ends.                       *)
(*                                                                         *)
(* A run of SeamlessClient::run() opens one control connection, asks for   *)
(* the pending files one after another and receives each on a data         *)
(* connection that the sender opens back to it.  Connections are numbered; *)
(* run number k and session number k are the two ends of connection k.     *)
(*                                                                         *)
(* A file is a sequence of chunks.  A chunk carries the version of the     *)
(* sender's file it was read from and its offset in that version, so that  *)
(* a file resumed at the wrong place or from another version is visible.   *)
(***************************************************************************)
EXTENDS Naturals, Sequences, FiniteSets

CONSTANTS
  Objects,      \* request ids, numbered in the order of firstAvailableTransfer
  Announced,    \* fileSize of each object when the transfer was announced
  UINT,         \* 2^32 bytes, in chunks: where the sizes of rows begin again
  MaxLen,       \* bound: length of the sender's files, in chunks
  MaxInFlight,  \* bound: chunks the data connection buffers
  MaxRuns,      \* bound: runs of the client, hence control connections
  MaxFaults,    \* bound: broken connections and early timeouts
  MaxEdits,     \* bound: changes of files and rows on the sending device
  MaxClicks,    \* bound: user actions during the transfer
  MaxCrashes,   \* bound: crashes of either application
  MaxTrouble    \* bound: faults, edits, user actions and crashes together

Runs == 1 .. MaxRuns

\* An id is never 0: the code tests id # 0 to know whether it has an object.
NoObject == 0
ASSUME ObjectsAssumption == Objects \subseteq Nat \ {NoObject} /\ IsFiniteSet(Objects)
ASSUME AnnouncedAssumption == Announced \in [Objects -> 0 .. MaxLen]
ASSUME UintAssumption == UINT \in Nat \ {0}
ASSUME BoundsAssumption ==
  {MaxLen, MaxInFlight, MaxRuns, MaxFaults, MaxEdits, MaxClicks, MaxCrashes, MaxTrouble} \subseteq Nat

VARIABLES
  rFlag,   \* receiver's database: flag of each row
  rSize,   \* receiver's database: fileSize of each row
  rFile,   \* receiver's disk: the file the row points to, temporary or saved
  sGroup,  \* sender's database: what it knows of the group and of the peer
  sRow,    \* sender's database: does the outgoing row exist?
  sFlag,   \* sender's database: flag of each row
  sSize,   \* sender's database: fileSize of each row
  sDisk,   \* sender's disk: version, length and readability of each file
  client,  \* the SeamlessClient thread
  serve,   \* the SeamlessServer sessions, one per connection
  link,    \* the control connections
  data,    \* the data connections, at most one at a time per control connection
  told,    \* who has emitted taskDone: 0 for the client, k for session k
  spent    \* how much of each bound has been used; deaths are crashes of the receiver

receiverStore == <<rFlag, rSize, rFile>>
senderStore   == <<sGroup, sRow, sFlag, sSize>>
vars == <<receiverStore, senderStore, sDisk, client, serve, link, data, told, spent>>

-----------------------------------------------------------------------------
(* Types *)

Flag == {"interrupted", "pending", "removed", "done", "running"}

Chunk == [ver: Nat, pos: Nat]
Uint  == 0 .. UINT - 1

ToServer ==
  [kind: {"hello"}] \cup [kind: {"file"}, obj: Objects, skip: Nat, bit: BOOLEAN]
    \cup [kind: {"bye"}, done: BOOLEAN]

ToClient ==
  [kind: {"welcome", "bye"}] \cup [kind: {"refused"}, error: {"notAllowed", "notFound"}]
    \cup [kind: {"missing"}, error: {"notFound", "notAccessible"}]
    \cup [kind: {"accept"}, changed: BOOLEAN, size: Nat]

ClientPc == {"off", "start", "hello", "loop", "await", "accept", "recv", "record", "finish"}
ServePc  == {"none", "serve", "connect", "send", "gone", "leaked"}

Client  == [pc: ClientPc, run: 0 .. MaxRuns, obj: Objects \cup {NoObject}, flag: Flag, size: Uint,
            bit: BOOLEAN, intr: BOOLEAN, retry: BOOLEAN, depth: Nat]
Session == [pc: ServePc, intr: BOOLEAN, obj: Objects \cup {NoObject}, flag: Flag, size: Nat,
            pos: Nat, bit: BOOLEAN]
Link    == [st: {"free", "open", "closed"}, toServer: Seq(ToServer), toClient: Seq(ToClient)]
Data    == [st: {"none", "open", "eof"}, buf: Seq(Chunk)]

TypeOK ==
  /\ rFlag \in [Objects -> Flag]
  /\ rSize \in [Objects -> Uint]
  /\ rFile \in [Objects -> Seq(Chunk)]
  /\ sGroup \in {"known", "stranger", "removed"}
  /\ sRow \in [Objects -> BOOLEAN]
  /\ sFlag \in [Objects -> Flag]
  /\ sSize \in [Objects -> Uint]
  /\ sDisk \in [Objects -> [ver: Nat, len: Nat, readable: BOOLEAN]]
  /\ client \in Client
  /\ serve \in [Runs -> Session]
  /\ link \in [Runs -> Link]
  /\ data \in [Runs -> Data]
  /\ told \subseteq 0 .. MaxRuns
  /\ spent \in [faults: Nat, edits: Nat, clicks: Nat, crashes: Nat, deaths: Nat]

-----------------------------------------------------------------------------
(* Vocabulary *)

myRun == client.run    \* the connection of the running client
myObj == client.obj    \* the object it is receiving

Pending == {o \in Objects : rFlag[o] = "pending"}

\* Defect: the selection leaves out Done rows only.
FirstUnfinished(o) ==
  rFlag[o] # "done" /\ \A p \in Objects : rFlag[p] # "done" => o <= p

\* TransferUtils::firstAvailableTransfer: LIMIT 1 in the order of the rows.
FirstAvailable(o) == o \in Pending /\ \A p \in Pending : o <= p

\* Defect: only rows that are still Pending count.
HasPendingFiles == Pending # {}

\* SQL "flag != Done" over the rows of the group and the device.
HasLeftFiles == \E o \in Objects : rFlag[o] # "done"

\* The conversions to uint, toUInt() and (uint).
ToUInt(n) == n % UINT

\* gDbSignal->update(object): every column is written from the copy in memory, the size as a uint.
UpdateRow(o, flag, size) ==
  /\ rFlag' = [rFlag EXCEPT ![o] = flag]
  /\ rSize' = [rSize EXCEPT ![o] = ToUInt(size)]

UpdateSenderRow(o, flag, size) ==
  /\ sFlag' = [sFlag EXCEPT ![o] = flag]
  /\ sSize' = [sSize EXCEPT ![o] = ToUInt(size)]

InTrouble == spent.faults + spent.edits + spent.clicks + spent.crashes >= MaxTrouble

Fault == /\ spent.faults < MaxFaults /\ ~InTrouble
         /\ spent' = [spent EXCEPT !.faults = @ + 1]

\* A blocking call that fails: at once when its cause is there already, otherwise
\* by a timeout or an error that nothing announced (a fault).
FailsWhen(cause) == IF cause THEN UNCHANGED spent ELSE Fault

\* Connection::receive on the client's and on the server's end.
ClientReceives(k, m) ==
  /\ link[k].toClient # <<>>
  /\ m = Head(link[k].toClient)
  /\ link' = [link EXCEPT ![k].toClient = Tail(@)]

ClientSends(k, m) == link' = [link EXCEPT ![k].toServer = Append(@, m)]

ClientCloses(k) == link' = [link EXCEPT ![k].st = "closed", ![k].toClient = <<>>]

ServerCloses(k) == link' = [link EXCEPT ![k].st = "closed", ![k].toServer = <<>>]

\* The session has taken the head of its queue and sends a reply, if it still can.
ServerReplies(k, m) ==
  link' = [link EXCEPT ![k].toServer = Tail(@),
                       ![k].toClient = IF link[k].st = "open" THEN Append(@, m) ELSE @]

\* Defect: the data connection of one request is still there for the next.
KeepData(k) == UNCHANGED data

\* The listening QTcpServer and the data socket go out of scope.
DropData(k) == data' = [data EXCEPT ![k] = [st |-> "none", buf |-> <<>>]]

=============================================================================
