---------------------------- MODULE PacketProtocol ----------------------------
(***************************************************************************)
(* src/linux-server/common: user data and the bytes of its packet.  A      *)
(* packet is the size of the payload in 4 bytes and the payload: the id in *)
(* 4 bytes, and the name and the email, each after its length in 2 bytes,  *)
(* all numbers big-endian.  A name and an email are sequences of bytes.    *)
(***************************************************************************)
EXTENDS Integers, Sequences, SequencesExt

CONSTANTS MAX_NAME_LEN, MAX_EMAIL_LEN    \* 255 and 255

ASSUME LengthsAssumption ==
  /\ MAX_NAME_LEN \in Nat /\ MAX_NAME_LEN <= 65535
  /\ MAX_EMAIL_LEN \in Nat /\ MAX_EMAIL_LEN <= 65535

ToBigEndian(v, width) ==
  LET left[i \in 0 .. width] == IF i = 0 THEN v ELSE left[i - 1] \div 256
  IN  [i \in 1 .. width |-> left[width - i] % 256]

FromBigEndian(bytes) ==
  LET value[i \in 0 .. Len(bytes)] == IF i = 0 THEN 0 ELSE value[i - 1] * 256 + bytes[i]
  IN  value[Len(bytes)]

\* An empty packet stands for user data that is too long.
Serialize(data) ==
  LET payload == ToBigEndian(data.userId, 4)
                   \o ToBigEndian(Len(data.name), 2) \o data.name
                   \o ToBigEndian(Len(data.email), 2) \o data.email
  IN  IF Len(data.name) > MAX_NAME_LEN \/ Len(data.email) > MAX_EMAIL_LEN THEN <<>>
      ELSE ToBigEndian(Len(payload), 4) \o payload

\* The email must end where the payload ends.
EndsWith(end, size) == end = size

\* The optional result: no element, or the user data.
Parse(payload) ==
  LET size     == Len(payload)
      nameLen  == FromBigEndian(SubSeq(payload, 5, 6))
      atEmail  == 6 + nameLen
      emailLen == FromBigEndian(SubSeq(payload, atEmail + 1, atEmail + 2))
      valid    == /\ size >= 8
                  /\ nameLen <= MAX_NAME_LEN
                  /\ atEmail + 2 <= size
                  /\ emailLen <= MAX_EMAIL_LEN
                  /\ EndsWith(atEmail + 2 + emailLen, size)
  IN  IF ~valid THEN <<>>
      ELSE << [userId |-> FromBigEndian(SubSeq(payload, 1, 4)),
               name   |-> SubSeq(payload, 7, atEmail),
               email  |-> SubSeq(payload, atEmail + 3, size)] >>
===============================================================================
