----------------------------- MODULE PacketServer -----------------------------
(***************************************************************************)
(* src/linux-server: the client window and the handler of its connection.  *)
(* TCP keeps the order of the bytes and nothing else: what arrives at once *)
(* is any number of the bytes under way, so that a packet may come in      *)
(* pieces and several may come together, and so may the replies.           *)
(***************************************************************************)
EXTENDS PacketProtocol

CONSTANTS
  Entries,      \* what is typed into the window
  Garbled,      \* packets of another client, which Parse refuses
  Malformed,    \* what the history calls such a packet
  MaxPackets,   \* bound: packets on one connection
  UINT          \* 2^32, where a quint32 begins again

\* struct UserData; names and emails are bytes.
UserData == [userId : Nat, name : Seq(0 .. 255), email : Seq(0 .. 255)]

\* Ids, names and emails as the types of UserData have them; a garbled packet is as long as it
\* says, which is not so long that the sum of PacketSize wraps.
ASSUME PacketsAssumption ==
  /\ Malformed \notin Entries
  /\ Entries \subseteq UserData
  /\ \A e \in Entries : e.userId \div 65536 <= 65535
  /\ \A p \in Garbled :
       /\ p \in Seq(0 .. 255) /\ Len(p) >= 4 /\ Len(p) = 4 + FromBigEndian(SubSeq(p, 1, 4))
       /\ Len(p) < UINT
       /\ Parse(SubSeq(p, 5, Len(p))) = <<>>
  /\ UINT \in Nat /\ 12 + MAX_NAME_LEN + MAX_EMAIL_LEN < UINT

VARIABLES
  wire,          \* bytes on their way to the server
  m_recvBuffer,
  socket,        \* of the server: "open", "closing", "closed"
  replies,       \* bytes on their way to the client
  deliveries,    \* how often the window has said "Delivered!"
  sent,          \* history: what was written to the connection
  handled        \* history: what the handler has parsed

packetVars == <<wire, m_recvBuffer, socket, replies, deliveries, sent, handled>>

PacketTypeOK ==
  /\ wire \in Seq(0 .. 255) /\ m_recvBuffer \in Seq(0 .. 255) /\ replies \in Seq({"O", "K"})
  /\ socket \in {"open", "closing", "closed"}
  /\ deliveries \in 0 .. MaxPackets
  /\ sent \in Seq(Entries \cup {Malformed}) /\ handled \in Seq(Entries)

PacketInit ==
  /\ wire = <<>> /\ m_recvBuffer = <<>> /\ replies = <<>>
  /\ socket = "open"
  /\ deliveries = 0
  /\ sent = <<>> /\ handled = <<>>

\* The regular expression: one "@" with something before and behind it.
IsValidEmail(email) ==
  /\ Len(email) < MAX_EMAIL_LEN
  /\ \E i \in 2 .. Len(email) - 1 : \A j \in 1 .. Len(email) : email[j] = 64 <=> i = j

-----------------------------------------------------------------------------
(* The client window *)

Accepts(entry) ==
  /\ entry.userId > 0
  /\ entry.name # <<>> /\ entry.email # <<>>
  /\ IsValidEmail(entry.email)
  /\ Serialize(entry) # <<>>

SendClicked(entry) ==
  /\ Len(sent) < MaxPackets
  /\ Accepts(entry)
  /\ wire' = wire \o Serialize(entry)
  /\ sent' = Append(sent, entry)
  /\ UNCHANGED <<m_recvBuffer, socket, replies, deliveries, handled>>

OtherClientSends(packet) ==
  /\ Len(sent) < MaxPackets
  /\ wire' = wire \o packet
  /\ sent' = Append(sent, Malformed)
  /\ UNCHANGED <<m_recvBuffer, socket, replies, deliveries, handled>>

\* The window compares all that has arrived with one reply.
ReplyRead(n) ==
  /\ n \in 1 .. Len(replies)
  /\ deliveries' = deliveries + (IF SubSeq(replies, 1, n) = <<"O", "K">> THEN 1 ELSE 0)
  /\ replies' = SubSeq(replies, n + 1, Len(replies))
  /\ UNCHANGED <<wire, m_recvBuffer, socket, sent, handled>>

-----------------------------------------------------------------------------
(* ClientHandler *)

\* Defect: what follows the packet is thrown away with it.
NothingAfter(buffer, size) == <<>>

\* What has arrived behind the packet.
AfterPacket(buffer, size) == SubSeq(buffer, size + 1, Len(buffer))

MsgSize(buffer) == FromBigEndian(SubSeq(buffer, 1, 4))

\* totalPacketSize, a quint32
PacketSize(buffer) == (4 + MsgSize(buffer)) % UINT

\* The whole packet has arrived.
HasPacket(buffer) == Len(buffer) >= 4 /\ Len(buffer) >= PacketSize(buffer)

\* QByteArray::mid ends where the bytes end.
Payload(buffer) ==
  SubSeq(buffer, 5, IF 4 + MsgSize(buffer) <= Len(buffer) THEN 4 + MsgSize(buffer) ELSE Len(buffer))

\* What stays in the buffer, whether the connection goes on, and what was parsed.
Loop == [buffer : Seq(0 .. 255), up : BOOLEAN, done : Seq(UserData)]

\* Once around the loop: a malformed packet stays in the buffer and ends the connection.
TakePacket[s \in Loop] ==
  LET size == PacketSize(s.buffer)
      data == Parse(Payload(s.buffer))
  IN  IF ~s.up \/ ~HasPacket(s.buffer) THEN s
      ELSE IF data = <<>> THEN [s EXCEPT !.up = FALSE]
      ELSE [s EXCEPT !.buffer = AfterPacket(@, size), !.done = @ \o data]

\* The loop over the bytes, which goes around at most once for each of them: a packet that is
\* taken has a size, PacketsAssumption leaving out those whose size wraps to 0.
TakePackets(bytes) ==
  LET loop[k \in 0 .. Len(bytes)] ==
        IF k = 0 THEN [buffer |-> bytes, up |-> TRUE, done |-> <<>>] ELSE TakePacket[loop[k - 1]]
  IN  loop[Len(bytes)]

ReplyTo(data) == FoldLeft(LAMBDA r, d : r \o <<"O", "K">>, <<>>, data)

\* A socket that is closing still reads; the malformed packet is then met again.
ReadyRead(n) ==
  /\ socket # "closed"
  /\ n \in 1 .. Len(wire)
  /\ wire' = SubSeq(wire, n + 1, Len(wire))
  /\ LET s == TakePackets(m_recvBuffer \o SubSeq(wire, 1, n)) IN
       /\ m_recvBuffer' = s.buffer
       /\ handled' = handled \o s.done
       /\ replies' = replies \o ReplyTo(s.done)
       /\ socket' = IF s.up THEN socket ELSE "closing"
  /\ UNCHANGED <<deliveries, sent>>

Disconnected ==
  /\ socket = "closing"
  /\ socket' = "closed"
  /\ UNCHANGED <<wire, m_recvBuffer, replies, deliveries, sent, handled>>

-----------------------------------------------------------------------------
PacketNext ==
  \/ \E entry \in Entries : SendClicked(entry)
  \/ \E packet \in Garbled : OtherClientSends(packet)
  \/ \E n \in 1 .. Len(wire) : ReadyRead(n)
  \/ \E n \in 1 .. Len(replies) : ReplyRead(n)
  \/ Disconnected

\* The event loops run: bytes under way are read in the end.
PacketFairness ==
  /\ WF_packetVars(\E n \in 1 .. Len(wire) : ReadyRead(n))
  /\ WF_packetVars(\E n \in 1 .. Len(replies) : ReplyRead(n))

PacketSpec == PacketInit /\ [][PacketNext]_packetVars /\ PacketFairness

-----------------------------------------------------------------------------
Delivery == INSTANCE PacketDelivery WITH UserData <- Entries, up <- socket = "open"

\* However the bytes arrive, the handler implements PacketDelivery: every message once, in order
\* and unchanged, nothing behind a malformed one, and in the end all that can be handled
\* (ClientHandler::onReadyRead).
DeliversPackets == Delivery!DeliverySpec
===============================================================================
