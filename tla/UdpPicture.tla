------------------------------ MODULE UdpPicture ------------------------------
(***************************************************************************)
(* src/Qt_bitmap_udp_sender: a picture in datagrams.  A datagram carries   *)
(* its piece of the picture, the position and the length of the piece, and *)
(* the size of the whole.  Positions are counted in pieces, a size is the  *)
(* number of pieces and the length of the last one, and the pictures are   *)
(* told apart by their names.  The network may lose datagrams and change   *)
(* their order.                                                            *)
(***************************************************************************)
EXTENDS Naturals, Sequences, FiniteSets, Selection

CONSTANTS
  Pictures,      \* files that hold a bitmap
  Pieces,        \* how many datagrams each picture needs
  DATAGRAM_SIZE, \* 1024
  Rest,          \* how long the last datagram of each picture is
  MaxFaults,     \* bound: datagrams lost or overtaken
  MaxChanges     \* bound: how often another file is chosen

ASSUME PiecesAssumption ==
  /\ Pieces \in [Pictures -> Nat \ {0}]
  /\ DATAGRAM_SIZE \in Nat \ {0} /\ Rest \in [Pictures -> 1 .. DATAGRAM_SIZE]

NoFile == "no file"    \* a file name that cannot be read, or a cancelled file dialog

\* Where a piece begins and something else follows it: the end of a longer one, or blanks.
Mixed(pos, length) == [picture |-> NoFile, pos |-> pos, length |-> length]

\* What QByteArray::replace puts in front of a piece beyond the end.
Blank == Mixed(0, DATAGRAM_SIZE)

VARIABLES
  picture_fileName,
  sending,          \* calls of loadPicture, the innermost last: the datagrams still to write
  toServer,         \* "start" requests under way
  toClient,         \* datagrams under way
  raw_image,
  image_recived,
  completed_image,
  start_enabled,
  faults, changes   \* history

udpVars == <<picture_fileName, sending, toServer, toClient, raw_image, image_recived,
             completed_image, start_enabled, faults, changes>>
server  == <<picture_fileName, sending, changes>>
client  == <<raw_image, image_recived, completed_image, start_enabled>>

Piece   == [picture: Pictures, pos: Nat, length: 1 .. DATAGRAM_SIZE]
Element == [picture: Pictures \cup {NoFile}, pos: Nat, length: 1 .. DATAGRAM_SIZE]

UdpTypeOK ==
  /\ picture_fileName \in Pictures \cup {NoFile}
  /\ \A i \in 1 .. Len(sending) : sending[i] \in Seq(Piece) /\ sending[i] # <<>>
  /\ toServer \in Nat
  /\ toClient \in Seq(Piece)
  /\ raw_image \in Seq(Element)
  /\ image_recived \in BOOLEAN /\ start_enabled \in BOOLEAN
  /\ faults \in 0 .. MaxFaults /\ changes \in 0 .. MaxChanges

UdpInit ==
  /\ picture_fileName \in Pictures
  /\ sending = <<>> /\ toServer = 0 /\ toClient = <<>>
  /\ raw_image = <<>> /\ completed_image = <<>>
  /\ image_recived = FALSE /\ start_enabled = TRUE
  /\ faults = 0 /\ changes = 0

Datagram(p, i) ==
  [picture |-> p, pos |-> i, length |-> IF i = Pieces[p] THEN Rest[p] ELSE DATAGRAM_SIZE]

\* A picture as the list of its datagrams.
Split(p) == [i \in 1 .. Pieces[p] |-> Datagram(p, i)]

-----------------------------------------------------------------------------
(* The server *)

\* The event loop, or the event processing of delay, which every call of loadPicture is in between
\* two datagrams.  A file that cannot be read is sent as nothing at all.
ServerReceive ==
  /\ toServer > 0
  /\ toServer' = toServer - 1
  /\ sending' = IF picture_fileName = NoFile THEN sending
                ELSE Append(sending, Split(picture_fileName))
  /\ UNCHANGED <<picture_fileName, toClient, client, faults, changes>>

ChangePicturePath(p) ==
  /\ changes < MaxChanges
  /\ picture_fileName' = p
  /\ changes' = changes + 1
  /\ UNCHANGED <<sending, toServer, toClient, client, faults>>

\* Only the innermost call goes on; the one below it does so when it has returned.
WriteDatagram ==
  /\ sending # <<>>
  /\ LET top == Len(sending) IN
       /\ toClient' = Append(toClient, Head(sending[top]))
       /\ sending' = IF Len(sending[top]) = 1 THEN SubSeq(sending, 1, top - 1)
                     ELSE [sending EXCEPT ![top] = Tail(@)]
  /\ UNCHANGED <<picture_fileName, toServer, client, faults, changes>>

-----------------------------------------------------------------------------
(* The network *)

Without(s, i) == SubSeq(s, 1, i - 1) \o SubSeq(s, i + 1, Len(s))

DatagramLost(i) ==
  /\ faults < MaxFaults
  /\ i \in DOMAIN toClient
  /\ toClient' = Without(toClient, i)
  /\ faults' = faults + 1
  /\ UNCHANGED <<server, toServer, client>>

DatagramOvertaken(i) ==
  /\ faults < MaxFaults
  /\ i \in 1 .. Len(toClient) - 1
  /\ toClient' = [toClient EXCEPT ![i] = toClient[i + 1], ![i + 1] = toClient[i]]
  /\ faults' = faults + 1
  /\ UNCHANGED <<server, toServer, client>>

-----------------------------------------------------------------------------
(* The client *)

StartClicked ==
  /\ start_enabled
  /\ start_enabled' = FALSE
  /\ toServer' = toServer + 1
  /\ UNCHANGED <<server, toClient, raw_image, image_recived, completed_image, faults>>

\* Defect: pieces are appended in the order of their arrival.
Appended(image, d) == Append(image, d)

\* What stands at the position of d once d is there.  The text ends where the datagram does: the
\* byte that follows is the lowest one of the position in bytes, which is 0.
Put(image, d) ==
  IF d.pos \in DOMAIN image /\ d.length < image[d.pos].length
  THEN Mixed(d.pos, image[d.pos].length) ELSE d

\* What stands at another position i: blanks lead from the end of the image to d.
Kept(image, d, i) ==
  IF i \notin DOMAIN image THEN Blank
  ELSE IF i < d.pos /\ image[i].length < DATAGRAM_SIZE THEN Mixed(i, DATAGRAM_SIZE)
  ELSE image[i]

\* raw_image.replace(pos, datagram_size, ...)
Replaced(image, d) ==
  [i \in 1 .. IF d.pos > Len(image) THEN d.pos ELSE Len(image) |->
     IF i = d.pos THEN Put(image, d) ELSE Kept(image, d, i)]

\* Qt reads a bitmap whose header is there; of one that is not whole it may keep the part it has.
\* The blanks are skipped when the text is decoded.
Decodes(image) ==
  LET text   == Selected(image, {i \in DOMAIN image : image[i] # Blank})
      header == Head(text).pos = 1
      whole  == \E p \in Pictures : text = Split(p)
  IN  IF whole THEN {TRUE} ELSE IF header THEN BOOLEAN ELSE {FALSE}

\* Defect: the last piece is not waited for.
NearlyComplete(image, d) == Len(image) >= Pieces[d.picture] - 1

\* Defect: one piece more than the picture has is waited for.
CompleteBeyond(image, d) == Len(image) > Pieces[d.picture]

\* The picture counts as complete when it has the size of the picture.
IsComplete(image, d) ==
  Len(image) = Pieces[d.picture] /\ image[Len(image)].length = Rest[d.picture]

ClientReceive ==
  /\ toClient # <<>>
  /\ LET d     == Head(toClient)
         image == Replaced(raw_image, d)
     IN  IF ~IsComplete(image, d)
         THEN raw_image' = image /\ UNCHANGED <<image_recived, completed_image, start_enabled>>
         ELSE \/ /\ TRUE \in Decodes(image)
                 /\ raw_image' = image
                 /\ image_recived' = TRUE
                 /\ completed_image' = image
                 /\ UNCHANGED start_enabled
              \/ /\ FALSE \in Decodes(image)
                 /\ raw_image' = <<>>
                 /\ start_enabled' = TRUE
                 /\ completed_image' = <<>>
                 /\ UNCHANGED image_recived
  /\ toClient' = Tail(toClient)
  /\ UNCHANGED <<server, toServer, faults>>

-----------------------------------------------------------------------------
UdpNext ==
  \/ StartClicked \/ ClientReceive \/ ServerReceive \/ WriteDatagram
  \/ \E p \in Pictures \cup {NoFile} : ChangePicturePath(p)
  \/ \E i \in DOMAIN toClient : DatagramLost(i) \/ DatagramOvertaken(i)

\* Both event loops run.
UdpFairness == WF_udpVars(ClientReceive) /\ WF_udpVars(ServerReceive) /\ WF_udpVars(WriteDatagram)

UdpSpec == UdpInit /\ [][UdpNext]_udpVars /\ UdpFairness

-----------------------------------------------------------------------------
\* Without a fault of the network what is shown is one whole picture, although the file may be
\* changed while it is sent.
FaultlessPictureIsWhole ==
  faults = 0 /\ image_recived => completed_image \in {Split(p) : p \in Pictures}

\* A request for a file that can be read is answered by a picture, unless the network interferes.
PictureArrives ==
  (toServer > 0 /\ picture_fileName # NoFile /\ changes = MaxChanges) ~> (image_recived \/ faults > 0)
===============================================================================
