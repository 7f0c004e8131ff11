--------------------------- MODULE RingBufferProofs ---------------------------
(***************************************************************************)
(* For any array size, any messages and any number of producers, one       *)
(* consumer receives the messages whole and in order.  The invariant gives *)
(* each message its place: offsets from out that add up to what is taken.  *)
(***************************************************************************)
EXTENDS RingBuffer, SelectionProofs

\* The offset k of a cell, counted from cell o around the end of the array.
Pos(o, k) == (o + k) % N

Writing == \E p \in Producers : producer[p].pc = "write"

Lengths(off) ==
  /\ off \in [1 .. Len(queue) + 1 -> Nat]
  /\ \A i \in 1 .. Len(queue) : off[i + 1] = off[i] + Len(queue[i]) + 1
  /\ \A i, j \in 1 .. Len(queue) + 1 : i < j => off[i] < off[j]
  /\ off[Len(queue) + 1] = N - capacity

\* While a pop has cleared its message and not advanced, the queue begins behind a gap.
Gap(gap) ==
  /\ gap \in Nat
  /\ \A c \in Consumers : consumer[c].pc = "clear" => gap = consumer[c].size + 1
  /\ (\A c \in Consumers : consumer[c].pc # "clear") => gap = 0

Contents(off) ==
  \A i \in 1 .. Len(queue) :
    /\ buffer[Pos(out, off[i])] = Len(queue[i])
    /\ \A j \in 1 .. Len(queue[i]) : buffer[Pos(out, off[i] + j)] = queue[i][j]

FreeCells(gap) ==
  \A k \in 0 .. N - 1 :
    (k < gap \/ N - capacity <= k) =>
      buffer[Pos(out, k)] = 0 \/ (k = N - capacity /\ Writing)

Layout(gap, off) ==
  Lengths(off) /\ Gap(gap) /\ off[1] = gap /\ Contents(off) /\ FreeCells(gap)

LockInv ==
  /\ \A p, q \in Producers : producer[p].pc = "write" /\ producer[q].pc = "write" => p = q
  /\ \A p \in Producers, c \in Consumers : ~(producer[p].pc = "write" /\ consumer[c].pc = "clear")

PushInv ==
  \A p \in Producers :
    /\ producer[p].pc # "idle" => producer[p].msg \in Messages
    /\ producer[p].pc = "write" =>
         capacity > Len(producer[p].msg) /\ buffer[in] = Len(producer[p].msg)

\* The length that pop has read is still the one in front.
PopInv ==
  \A c \in Consumers : consumer[c].pc = "pop" =>
    consumer[c].size # 0 /\ buffer[out] = consumer[c].size

RingInv ==
  /\ TypeOK
  /\ LockInv /\ PushInv /\ PopInv
  /\ in = Pos(out, N - capacity)
  /\ \E gap, off : Layout(gap, off)

SingleConsumer == \A c, d \in Consumers : c = d

-----------------------------------------------------------------------------
(* Positions in the ring *)

\* A position is a cell; offset 0 is the cell itself, N is once around.
LEMMA PosInCells ==
  ASSUME NEW o \in Cells, NEW k \in Nat
  PROVE  Pos(o, k) \in Cells
  BY NAssumption, Z3 DEF Pos, Cells

LEMMA PosValue ==
  ASSUME NEW o \in Cells, NEW k \in 0 .. N
  PROVE  Pos(o, k) = IF o + k < N THEN o + k ELSE o + k - N
  BY NAssumption, Z3 DEF Pos, Cells

\* Different offsets below N are different cells.
LEMMA PosInjective ==
  ASSUME NEW o \in Cells, NEW j \in 0 .. N - 1, NEW k \in 0 .. N - 1, Pos(o, j) = Pos(o, k)
  PROVE  j = k
  BY NAssumption, PosValue, Z3 DEF Cells

\* Every cell is at some offset.
LEMMA PosOnto ==
  ASSUME NEW o \in Cells, NEW i \in Cells
  PROVE  \E k \in 0 .. N - 1 : i = Pos(o, k)
<1> DEFINE k == IF i >= o THEN i - o ELSE i - o + N
<1>1. k \in 0 .. N - 1
  BY NAssumption, Z3 DEF Cells
<1>2. i = Pos(o, k)
  BY <1>1, NAssumption, PosValue, Z3 DEF Cells
<1> QED BY <1>1, <1>2

\* Offsets add up, as long as they go around at most once ...
LEMMA PosAdd ==
  ASSUME NEW o \in Cells, NEW j \in 0 .. N, NEW k \in Nat, j + k <= N
  PROVE  Pos(Pos(o, j), k) = Pos(o, j + k)
<1>1. Pos(o, j) = (IF o + j < N THEN o + j ELSE o + j - N) /\ Pos(o, j) \in Cells
  BY NAssumption, PosValue, PosInCells
<1>2. k \in 0 .. N /\ j + k \in 0 .. N
  BY NAssumption
<1>3. Pos(Pos(o, j), k) = IF Pos(o, j) + k < N THEN Pos(o, j) + k ELSE Pos(o, j) + k - N
  BY <1>1, <1>2, PosValue
<1> QED BY <1>1, <1>2, <1>3, PosValue, NAssumption DEF Cells

\* ... and beyond that the ring begins again.
LEMMA PosAround ==
  ASSUME NEW o \in Cells, NEW j \in 0 .. N, NEW k \in 0 .. N - 1, j + k >= N
  PROVE  Pos(Pos(o, j), k) = Pos(o, j + k - N)
<1>1. Pos(o, j) = (IF o + j < N THEN o + j ELSE o + j - N) /\ Pos(o, j) \in Cells
  BY NAssumption, PosValue, PosInCells
<1>2. k \in 0 .. N /\ j + k - N \in 0 .. N
  BY NAssumption
<1>3. Pos(Pos(o, j), k) = IF Pos(o, j) + k < N THEN Pos(o, j) + k ELSE Pos(o, j) + k - N
  BY <1>1, <1>2, PosValue
<1> QED BY <1>1, <1>2, <1>3, PosValue, NAssumption DEF Cells

LEMMA PosZero ==
  ASSUME NEW o \in Cells
  PROVE  Pos(o, 0) = o
  BY NAssumption, PosValue, Z3 DEF Cells

\* A message is a sequence of bytes whose length fits into one.
LEMMA MessageType ==
  ASSUME NEW m \in Messages
  PROVE  m \in Seq(Byte) /\ Len(m) \in Byte /\ Len(m) \in Nat
  BY MessagesAssumption DEF Byte

\* The two pieces of a stored message are its bytes one after the other, behind the length,
\* and everything else stays.
LEMMA StoredCells ==
  ASSUME NEW m \in Messages, Len(m) < N, in \in Cells, buffer \in [Cells -> Byte]
  PROVE  /\ Stored(m) \in [Cells -> Byte]
         /\ \A j \in 1 .. Len(m) : Stored(m)[Pos(in, j)] = m[j]
         /\ \A k \in 0 .. N - 1 : (k = 0 \/ k > Len(m)) => Stored(m)[Pos(in, k)] = buffer[Pos(in, k)]
<1> DEFINE delta == BytesBeforeEnd(Len(m))
<1>0. Len(m) \in Nat /\ m \in Seq(Byte)
  BY MessageType
<1>1. \/ delta = Len(m) /\ in + Len(m) < N
      \/ delta = N - in - 1 /\ in + Len(m) >= N
  BY <1>0, NAssumption DEF BytesBeforeEnd, Cells
<1>2. delta \in 0 .. Len(m) /\ in + delta <= N - 1
  BY <1>0, <1>1, NAssumption DEF Cells
<1>3. \A i \in Cells : Stored(m)[i] = IF i \in in + 1 .. in + delta THEN m[i - in]
                                      ELSE IF i < Len(m) - delta THEN m[delta + i + 1]
                                      ELSE buffer[i]
  BY DEF Stored
<1>4. \A i \in Cells : Stored(m)[i] \in Byte
  <2> SUFFICES ASSUME NEW i \in Cells PROVE Stored(m)[i] \in Byte
    OBVIOUS
  <2>1. CASE i \in in + 1 .. in + delta
    <3>1. i - in \in 1 .. Len(m)
      BY <2>1, <1>0, <1>2, NAssumption DEF Cells
    <3> QED BY <3>1, <2>1, <1>0, <1>3
  <2>2. CASE ~(i \in in + 1 .. in + delta) /\ i < Len(m) - delta
    <3>1. delta + i + 1 \in 1 .. Len(m)
      BY <2>2, <1>0, <1>2, NAssumption DEF Cells
    <3> QED BY <3>1, <2>2, <1>0, <1>3
  <2>3. CASE ~(i \in in + 1 .. in + delta) /\ ~(i < Len(m) - delta)
    BY <2>3, <1>3
  <2> QED BY <2>1, <2>2, <2>3
<1>5. Stored(m) \in [Cells -> Byte]
  BY <1>4 DEF Stored
<1>6. ASSUME NEW j \in 1 .. Len(m) PROVE Stored(m)[Pos(in, j)] = m[j]
  <2>1. j \in 0 .. N /\ j \in Nat
    BY <1>0, NAssumption
  <2>2. Pos(in, j) \in Cells
    BY <2>1, PosInCells
  <2>3. Pos(in, j) = IF in + j < N THEN in + j ELSE in + j - N
    BY <2>1, PosValue
  <2>4. CASE j <= delta
    <3>1. Pos(in, j) \in in + 1 .. in + delta /\ Pos(in, j) - in = j
      BY <2>1, <2>3, <2>4, <1>2, <1>0, NAssumption DEF Cells
    <3> QED BY <3>1, <2>2, <1>3
  <2>5. CASE j > delta
    <3>1. delta = N - in - 1 /\ Pos(in, j) = in + j - N
      BY <2>1, <2>3, <2>5, <1>1, <1>0, NAssumption DEF Cells
    <3>2. ~(Pos(in, j) \in in + 1 .. in + delta) /\ Pos(in, j) < Len(m) - delta
      BY <3>1, <2>1, <1>0, <1>2, NAssumption DEF Cells
    <3>3. delta + Pos(in, j) + 1 = j
      BY <3>1, <2>1, <1>0, NAssumption DEF Cells
    <3> QED BY <3>2, <3>3, <2>2, <1>3
  <2> QED BY <2>4, <2>5, <2>1, <1>0, <1>2
<1>7. ASSUME NEW k \in 0 .. N - 1, k = 0 \/ k > Len(m)
      PROVE Stored(m)[Pos(in, k)] = buffer[Pos(in, k)]
  <2>1. k \in 0 .. N /\ k \in Nat
    BY NAssumption
  <2>2. Pos(in, k) \in Cells
    BY <2>1, PosInCells
  <2>3. Pos(in, k) = IF in + k < N THEN in + k ELSE in + k - N
    BY <2>1, PosValue
  <2>4. ~(Pos(in, k) \in in + 1 .. in + delta)
    BY <2>1, <2>3, <1>7, <1>0, <1>1, <1>2, NAssumption DEF Cells
  <2>5. ~(Pos(in, k) < Len(m) - delta)
    BY <2>1, <2>3, <1>7, <1>0, <1>1, <1>2, NAssumption DEF Cells
  <2> QED BY <2>2, <2>4, <2>5, <1>3
<1> QED BY <1>5, <1>6, <1>7

-----------------------------------------------------------------------------
(* The invariant *)

LEMMA RingInvInit == Init => RingInv
<1> SUFFICES ASSUME Init PROVE RingInv
  OBVIOUS
<1> USE DEF Init
<1>1. in \in Cells /\ out \in Cells /\ in = out
  BY NAssumption, Z3 DEF Cells
<1>2. TypeOK
  <2>1. buffer \in [Cells -> Byte] /\ capacity \in 0 .. N
    BY NAssumption DEF Byte
  <2>2. producer \in [Producers -> [pc: {"idle", "push", "write"}, msg: Messages \cup {<<>>}]]
    OBVIOUS
  <2>3. consumer \in [Consumers -> [pc: {"idle", "pop", "clear"}, size: Byte]]
    BY DEF Byte
  <2>4. queue \in Seq(Messages) /\ handed \in [Consumers -> Seq(Byte)]
    OBVIOUS
  <2> QED BY <1>1, <2>1, <2>2, <2>3, <2>4 DEF TypeOK
<1>3. LockInv /\ PushInv /\ PopInv
  BY DEF LockInv, PushInv, PopInv
<1>4. in = Pos(out, N - capacity)
  BY <1>1, PosZero, NAssumption
<1>5. Layout(0, [i \in 1 .. 1 |-> 0])
  <2> DEFINE off == [i \in 1 .. 1 |-> 0]
  <2>1. Len(queue) = 0 /\ off[1] = 0
    OBVIOUS
  <2>2. Lengths(off)
    BY <2>1, NAssumption DEF Lengths
  <2>3. Gap(0)
    BY DEF Gap
  <2>4. Contents(off)
    BY <2>1 DEF Contents
  <2>5. FreeCells(0)
    BY <1>1, PosInCells, NAssumption DEF FreeCells
  <2> QED BY <2>1, <2>2, <2>3, <2>4, <2>5 DEF Layout
<1> QED BY <1>2, <1>3, <1>4, <1>5 DEF RingInv

\* What the layout says of one message: it lies between the gap and the free cells.
LEMMA MessagePlace ==
  ASSUME TypeOK, NEW gap, NEW off, Layout(gap, off), NEW i \in 1 .. Len(queue)
  PROVE  /\ Len(queue[i]) \in Nat
         /\ gap <= off[i]
         /\ off[i] + Len(queue[i]) < N - capacity
         /\ i > 1 => off[2] <= off[i]
<1>1. Len(queue) \in Nat /\ queue[i] \in Messages
  BY DEF TypeOK
<1>2. Len(queue[i]) \in Nat
  BY <1>1, MessageType
<1>3. /\ i \in 1 .. Len(queue) + 1 /\ i + 1 \in 1 .. Len(queue) + 1
      /\ 1 \in 1 .. Len(queue) + 1 /\ Len(queue) + 1 \in 1 .. Len(queue) + 1
      /\ 2 \in 1 .. Len(queue) + 1
  BY <1>1
<1>4. /\ off \in [1 .. Len(queue) + 1 -> Nat]
      /\ off[i + 1] = off[i] + Len(queue[i]) + 1
      /\ off[Len(queue) + 1] = N - capacity
      /\ off[1] = gap
      /\ \A j, k \in 1 .. Len(queue) + 1 : j < k => off[j] < off[k]
  BY DEF Layout, Lengths
<1>5. off[1] <= off[i]
  <2>1. CASE i = 1
    BY <2>1, <1>3, <1>4
  <2>2. CASE i # 1
    BY <2>2, <1>1, <1>3, <1>4
  <2> QED BY <2>1, <2>2
<1>6. off[i + 1] <= off[Len(queue) + 1]
  <2>1. CASE i = Len(queue)
    BY <2>1, <1>3, <1>4
  <2>2. CASE i # Len(queue)
    BY <2>2, <1>1, <1>3, <1>4
  <2> QED BY <2>1, <2>2
<1>7. i > 1 => off[2] <= off[i]
  <2>1. CASE i = 2
    BY <2>1, <1>3, <1>4
  <2>2. CASE i > 2
    BY <2>2, <1>1, <1>3, <1>4
  <2> QED BY <2>1, <2>2, <1>1
<1>8. off[i] \in Nat
  BY <1>3, <1>4
<1>9. N - capacity \in Nat
  BY NAssumption DEF TypeOK
<1> QED BY <1>2, <1>4, <1>5, <1>6, <1>7, <1>8, <1>9

\* The gap and the messages fit into what is taken.
LEMMA GapFits ==
  ASSUME TypeOK, NEW gap, NEW off, Layout(gap, off)
  PROVE  gap \in 0 .. N - capacity
<1>1. Len(queue) \in Nat /\ N - capacity \in Nat
  BY NAssumption DEF TypeOK
<1>2. /\ 1 \in 1 .. Len(queue) + 1 /\ Len(queue) + 1 \in 1 .. Len(queue) + 1
  BY <1>1
<1>3. /\ off[Len(queue) + 1] = N - capacity /\ off[1] = gap /\ gap \in Nat
      /\ \A j, k \in 1 .. Len(queue) + 1 : j < k => off[j] < off[k]
  BY DEF Layout, Lengths, Gap
<1>4. CASE Len(queue) = 0
  BY <1>1, <1>3, <1>4
<1>5. CASE Len(queue) # 0
  BY <1>1, <1>2, <1>3, <1>5
<1> QED BY <1>4, <1>5

\* push is called: the ring is as it was.
LEMMA PushCallInv ==
  ASSUME RingInv, NEW p \in Producers, PushCall(p)
  PROVE  RingInv'
<1> USE DEF PushCall, ring
<1>1. PICK m \in Messages : producer' = [producer EXCEPT ![p] = [pc |-> "push", msg |-> m]]
  OBVIOUS
<1>2. producer[p].pc = "idle" /\ TypeOK
  BY DEF RingInv
<1>3. \A q \in Producers : /\ q # p => producer'[q] = producer[q]
                           /\ producer'[p].pc = "push" /\ producer'[p].msg = m
  BY <1>1, <1>2 DEF TypeOK
<1>4. TypeOK'
  BY <1>1, <1>2 DEF TypeOK
<1>5. LockInv' /\ PushInv' /\ PopInv'
  BY <1>3 DEF RingInv, LockInv, PushInv, PopInv
<1>6. Writing' = Writing
  BY <1>2, <1>3 DEF Writing
<1>7. PICK gap, off : Layout(gap, off)
  BY DEF RingInv
<1>8. Layout(gap, off)'
  BY <1>6, <1>7 DEF Layout, Lengths, Gap, Contents, FreeCells, Pos
<1>9. (in = Pos(out, N - capacity))'
  BY DEF RingInv, Pos
<1> QED BY <1>4, <1>5, <1>8, <1>9 DEF RingInv

\* The length of the next message is read.
LEMMA PopPeekInv ==
  ASSUME RingInv, NEW c \in Consumers, PopPeek(c)
  PROVE  RingInv'
<1> USE DEF PopPeek, ring
<1>1. TypeOK /\ consumer[c].pc = "idle"
  BY DEF RingInv
<1>2. buffer[out] \in Byte /\ buffer[out] # 0
  BY <1>1 DEF TypeOK
<1>3. \A d \in Consumers : /\ d # c => consumer'[d] = consumer[d]
                           /\ consumer'[c].pc = "pop" /\ consumer'[c].size = buffer[out]
  BY <1>1 DEF TypeOK
<1>4. TypeOK'
  BY <1>1, <1>2 DEF TypeOK
<1>5. LockInv' /\ PushInv' /\ PopInv'
  BY <1>2, <1>3 DEF RingInv, LockInv, PushInv, PopInv
<1>6. Writing' = Writing
  BY DEF Writing
<1>7. PICK gap, off : Layout(gap, off)
  BY DEF RingInv
<1>8. Gap(gap)'
  BY <1>1, <1>3, <1>7 DEF Layout, Gap
<1>9. Layout(gap, off)'
  BY <1>6, <1>7, <1>8 DEF Layout, Lengths, Contents, FreeCells, Pos
<1>10. (in = Pos(out, N - capacity))'
  BY DEF RingInv, Pos
<1> QED BY <1>4, <1>5, <1>9, <1>10 DEF RingInv

\* The length is written into the first free cell; the messages are elsewhere.
LEMMA PushLengthInv ==
  ASSUME RingInv, NEW p \in Producers, PushLength(p)
  PROVE  RingInv'
<1> DEFINE m == producer[p].msg
           taken == N - capacity
<1>1. /\ TypeOK /\ in \in Cells /\ out \in Cells /\ buffer \in [Cells -> Byte]
      /\ capacity \in 0 .. N
  BY DEF RingInv, TypeOK
<1>2. producer[p].pc = "push" /\ m \in Messages /\ Len(m) \in Byte /\ Len(m) \in Nat
  BY MessageType DEF RingInv, PushInv, PushLength
<1>3. taken \in 0 .. N - 1 /\ in = Pos(out, taken) /\ capacity > Len(m)
  BY <1>1, <1>2, NAssumption DEF PushLength, Fits, RingInv
<1>4. buffer' = [buffer EXCEPT ![in] = Len(m)] /\ buffer'[in] = Len(m)
  BY <1>1 DEF PushLength
<1>5. ASSUME NEW k \in 0 .. N - 1, k # taken
      PROVE  buffer'[Pos(out, k)] = buffer[Pos(out, k)]
  <2>1. Pos(out, k) \in Cells /\ Pos(out, k) # in
    BY <1>1, <1>3, <1>5, PosInCells, PosInjective, NAssumption
  <2> QED BY <2>1, <1>1, <1>4
<1>6. producer' = [producer EXCEPT ![p].pc = "write"] /\ UNCHANGED <<in, out, capacity, consumer, queue, handed>>
  BY DEF PushLength
<1>7. \A q \in Producers : /\ q # p => producer'[q] = producer[q]
                           /\ producer'[p].pc = "write" /\ producer'[p].msg = m
  BY <1>1, <1>6 DEF TypeOK
<1>8. /\ \A q \in Producers : producer[q].pc # "write"
      /\ \A c \in Consumers : consumer[c].pc # "clear"
  BY DEF PushLength, LockIsFree
<1>9. TypeOK'
  <2>1. producer' \in [Producers -> [pc: {"idle", "push", "write"}, msg: Messages \cup {<<>>}]]
    BY <1>1, <1>6 DEF TypeOK
  <2>2. buffer' \in [Cells -> Byte]
    BY <1>1, <1>2, <1>4
  <2> QED BY <1>1, <1>6, <2>1, <2>2 DEF TypeOK
<1>10. PICK gap, off : Layout(gap, off)
  BY DEF RingInv
<1>11. gap = 0
  BY <1>8, <1>10 DEF Layout, Gap
<1>12. LockInv'
  BY <1>6, <1>7, <1>8 DEF LockInv
<1>13. PushInv'
  BY <1>2, <1>3, <1>4, <1>6, <1>7, <1>8 DEF PushInv, RingInv
<1>14. PopInv'
  <2> SUFFICES ASSUME NEW c \in Consumers, consumer[c].pc = "pop"
               PROVE  consumer[c].size # 0 /\ buffer'[out] = consumer[c].size
    BY <1>6 DEF PopInv
  <2>1. consumer[c].size # 0 /\ buffer[out] = consumer[c].size
    BY DEF RingInv, PopInv
  <2>2. Pos(out, 0) = out /\ 0 \in 0 .. N - 1
    BY <1>1, PosZero, NAssumption
  <2>3. taken # 0
    <3>1. FreeCells(gap) /\ ~Writing
      BY <1>8, <1>10 DEF Layout, Writing
    <3> QED BY <3>1, <2>1, <2>2 DEF FreeCells
  <2> QED BY <2>1, <2>2, <2>3, <1>5
<1>15. Lengths(off)' /\ Gap(gap)' /\ off[1] = gap
  BY <1>6, <1>10 DEF Layout, Lengths, Gap
<1>16. Contents(off)'
  <2> SUFFICES ASSUME NEW i \in 1 .. Len(queue)
               PROVE  /\ buffer'[Pos(out, off[i])] = Len(queue[i])
                      /\ \A j \in 1 .. Len(queue[i]) : buffer'[Pos(out, off[i] + j)] = queue[i][j]
    BY <1>6 DEF Contents, Pos
  <2>1. /\ Len(queue[i]) \in Nat /\ 0 <= off[i] /\ off[i] + Len(queue[i]) < taken
    BY <1>1, <1>10, <1>11, MessagePlace
  <2>2. off[i] \in Nat
    <3>1. off \in [1 .. Len(queue) + 1 -> Nat] /\ Len(queue) \in Nat
      BY <1>1, <1>10 DEF Layout, Lengths, TypeOK
    <3> QED BY <3>1
  <2>3. buffer[Pos(out, off[i])] = Len(queue[i])
    BY <1>10 DEF Layout, Contents
  <2>4. \A j \in 1 .. Len(queue[i]) : buffer[Pos(out, off[i] + j)] = queue[i][j]
    BY <1>10 DEF Layout, Contents
  <2>5. off[i] \in 0 .. N - 1 /\ off[i] # taken
    BY <2>1, <2>2, <1>3, NAssumption
  <2>6. \A j \in 1 .. Len(queue[i]) : off[i] + j \in 0 .. N - 1 /\ off[i] + j # taken
    BY <2>1, <2>2, <1>3, NAssumption
  <2> QED BY <2>3, <2>4, <2>5, <2>6, <1>5
<1>17. FreeCells(gap)'
  <2> SUFFICES ASSUME NEW k \in 0 .. N - 1, taken <= k
               PROVE  buffer'[Pos(out, k)] = 0 \/ k = taken
    <3>1. Writing'
      BY <1>7 DEF Writing
    <3> QED BY <3>1, <1>6, <1>11 DEF FreeCells, Pos
  <2>1. ~Writing /\ FreeCells(gap)
    BY <1>8, <1>10 DEF Writing, Layout
  <2>2. buffer[Pos(out, k)] = 0
    BY <2>1 DEF FreeCells
  <2> QED BY <2>2, <1>5
<1>18. Layout(gap, off)'
  BY <1>15, <1>16, <1>17 DEF Layout
<1>19. (in = Pos(out, N - capacity))'
  BY <1>3, <1>6 DEF Pos
<1> QED BY <1>9, <1>12, <1>13, <1>14, <1>18, <1>19 DEF RingInv

\* The bytes are written behind the length, and the message is the last of the queue.
LEMMA PushBodyInv ==
  ASSUME RingInv, NEW p \in Producers, PushBody(p)
  PROVE  RingInv'
<1> DEFINE m == producer[p].msg
           taken == N - capacity
           len == Len(queue)
<1>1. /\ TypeOK /\ in \in Cells /\ out \in Cells /\ buffer \in [Cells -> Byte]
      /\ capacity \in 0 .. N /\ queue \in Seq(Messages) /\ len \in Nat
  BY DEF RingInv, TypeOK
<1>2. producer[p].pc = "write" /\ m \in Messages /\ Len(m) \in Nat
  BY MessageType DEF RingInv, PushInv, PushBody
<1>3. taken \in 0 .. N - 1 /\ in = Pos(out, taken) /\ capacity > Len(m) /\ buffer[in] = Len(m)
  BY <1>1, <1>2, NAssumption DEF RingInv, PushInv
<1>4. /\ buffer' = Stored(m) /\ in' = Pos(in, Len(m) + 1) /\ capacity' = capacity - Len(m) - 1
      /\ queue' = Append(queue, m)
      /\ producer' = [producer EXCEPT ![p] = [pc |-> "idle", msg |-> <<>>]]
      /\ UNCHANGED <<out, consumer, handed>>
  <2>1. (in + Len(m) + 1) % N = Pos(in, Len(m) + 1)
    <3>1. in + Len(m) + 1 = in + (Len(m) + 1)
      BY <1>1, <1>2, NAssumption DEF Cells
    <3> QED BY <3>1 DEF Pos
  <2> QED BY <2>1 DEF PushBody
<1>5. N \in Nat /\ N > 0 /\ capacity \in Nat /\ capacity = N - taken
  BY <1>1, NAssumption
<1> HIDE DEF m, taken, len
<1>6. N - capacity' = taken + Len(m) + 1 /\ taken + Len(m) + 1 <= N
  BY <1>5, <1>2, <1>3, <1>4
<1>7. /\ buffer' \in [Cells -> Byte]
      /\ \A j \in 1 .. Len(m) : buffer'[Pos(in, j)] = m[j]
      /\ \A k \in 0 .. N - 1 : (k = 0 \/ k > Len(m)) => buffer'[Pos(in, k)] = buffer[Pos(in, k)]
  <2>1. Len(m) < N
    BY <1>1, <1>2, <1>3, <1>5, NAssumption
  <2> QED BY <2>1, <1>1, <1>2, <1>4, StoredCells
<1>8. ASSUME NEW k \in 0 .. taken - 1
      PROVE  buffer'[Pos(out, k)] = buffer[Pos(out, k)]
  <2>1. capacity + k \in 0 .. N - 1 /\ capacity + k > Len(m)
    BY <1>1, <1>2, <1>3, <1>5, NAssumption
  <2>2. taken \in 0 .. N /\ taken + (capacity + k) >= N /\ taken + (capacity + k) - N = k
    BY <1>1, <1>3, <1>5, NAssumption
  <2>3. Pos(in, capacity + k) = Pos(out, k)
    BY <2>1, <2>2, <1>1, <1>3, PosAround
  <2> QED BY <2>1, <2>3, <1>7
<1>9. ASSUME NEW j \in Nat, taken + j <= N
      PROVE  Pos(in, j) = Pos(out, taken + j)
  BY <1>5, <1>1, <1>3, <1>9, PosAdd
<1>10. \A q \in Producers : q # p => producer[q].pc # "write"
  BY <1>2 DEF RingInv, LockInv
<1>11. \A c \in Consumers : consumer[c].pc # "clear"
  BY <1>2 DEF RingInv, LockInv
<1>12. \A q \in Producers : /\ q # p => producer'[q] = producer[q]
                            /\ producer'[p].pc = "idle"
  BY <1>1, <1>4 DEF TypeOK
<1>13. ~Writing'
  BY <1>10, <1>12 DEF Writing
<1>14. TypeOK'
  <2>1. producer' \in [Producers -> [pc: {"idle", "push", "write"}, msg: Messages \cup {<<>>}]]
    BY <1>1, <1>4 DEF TypeOK
  <2>2. in' \in Cells
    BY <1>1, <1>2, <1>4, PosInCells
  <2>3. capacity' \in 0 .. N
    BY <1>1, <1>2, <1>3, <1>4, <1>5, NAssumption
  <2>4. queue' \in Seq(Messages)
    BY <1>1, <1>2, <1>4
  <2> QED BY <1>1, <1>4, <1>7, <2>1, <2>2, <2>3, <2>4 DEF TypeOK
<1>15. LockInv'
  BY <1>4, <1>10, <1>11, <1>12 DEF LockInv
<1>16. PushInv'
  BY <1>10, <1>12 DEF PushInv, RingInv
<1>17. PopInv'
  <2>1. buffer'[out] = buffer[out]
    <3>1. CASE taken = 0
      <4>1. out = in /\ Pos(in, 0) = in /\ 0 \in 0 .. N - 1
        BY <3>1, <1>1, <1>3, PosZero, <1>5, NAssumption
      <4> QED BY <4>1, <1>7
    <3>2. CASE taken # 0
      <4>1. Pos(out, 0) = out /\ 0 \in 0 .. taken - 1
        BY <3>2, <1>1, <1>3, PosZero, <1>5, NAssumption
      <4> QED BY <4>1, <1>8
    <3> QED BY <3>1, <3>2
  <2> QED BY <2>1, <1>4 DEF PopInv, RingInv
<1>18. PICK gap, off : Layout(gap, off)
  BY DEF RingInv
<1>19. gap = 0
  BY <1>11, <1>18 DEF Layout, Gap
<1>20. /\ off \in [1 .. len + 1 -> Nat]
       /\ \A i \in 1 .. len : off[i + 1] = off[i] + Len(queue[i]) + 1
       /\ \A i, j \in 1 .. len + 1 : i < j => off[i] < off[j]
       /\ off[len + 1] = taken
       /\ off[1] = gap
  BY <1>18 DEF Layout, Lengths, taken, len
<1>21. PICK off2 : off2 = [i \in 1 .. len + 2 |-> IF i <= len + 1 THEN off[i] ELSE taken + Len(m) + 1]
  OBVIOUS
<1> USE DEF len
<1>22. /\ Len(queue') = len + 1
       /\ \A i \in 1 .. len : queue'[i] = queue[i]
       /\ queue'[len + 1] = m
  BY <1>1, <1>2, <1>4
<1>23. /\ \A i \in 1 .. len + 1 : off2[i] = off[i]
       /\ off2[len + 2] = taken + Len(m) + 1
  BY <1>1, <1>21
<1> HIDE DEF len
<1>24. Lengths(off2)'
  <2>1. off2 \in [1 .. len + 2 -> Nat]
    BY <1>21, <1>1, <1>2, <1>3, <1>20
  <2>2. \A i \in 1 .. len + 1 : off2[i + 1] = off2[i] + Len(queue'[i]) + 1
    <3> SUFFICES ASSUME NEW i \in 1 .. len + 1
                 PROVE  off2[i + 1] = off2[i] + Len(queue'[i]) + 1
      OBVIOUS
    <3>1. CASE i = len + 1
      BY <3>1, <1>1, <1>20, <1>22, <1>23
    <3>2. CASE i # len + 1
      <4>1. i \in 1 .. len /\ i + 1 \in 1 .. len + 1
        BY <3>2, <1>1
      <4> QED BY <4>1, <1>20, <1>22, <1>23
    <3> QED BY <3>1, <3>2
  <2>3. \A i, j \in 1 .. len + 2 : i < j => off2[i] < off2[j]
    <3> SUFFICES ASSUME NEW i \in 1 .. len + 2, NEW j \in 1 .. len + 2, i < j
                 PROVE  off2[i] < off2[j]
      OBVIOUS
    <3>1. i \in 1 .. len + 1 /\ off2[i] = off[i] /\ off[i] \in Nat
      BY <1>1, <1>20, <1>23
    <3>2. CASE j <= len + 1
      <4>1. j \in 1 .. len + 1
        BY <3>2, <1>1
      <4> QED BY <3>1, <4>1, <1>20, <1>23
    <3>3. CASE j = len + 2
      <4>1. off[i] <= taken
        <5>1. CASE i = len + 1
          BY <5>1, <1>20, <1>3
        <5>2. CASE i # len + 1
          BY <5>2, <3>1, <1>1, <1>3, <1>20
        <5> QED BY <5>1, <5>2
      <4>2. off2[j] = taken + Len(m) + 1
        BY <3>3, <1>23
      <4> QED BY <4>1, <4>2, <3>1, <1>2, <1>3
    <3> QED BY <3>2, <3>3, <1>1
  <2>4. off2[len + 2] = N - capacity'
    BY <1>6, <1>23
  <2>5. /\ Len(queue') + 1 = len + 2 /\ 1 .. Len(queue') = 1 .. len + 1
    BY <1>1, <1>22
  <2> QED BY <2>1, <2>2, <2>3, <2>4, <2>5 DEF Lengths
<1>25. Gap(gap)' /\ off2[1] = gap
  <2>1. 1 \in 1 .. len + 1
    BY <1>1
  <2> QED BY <2>1, <1>4, <1>18, <1>20, <1>23 DEF Layout, Gap
<1>26. Contents(off2)'
  <2> SUFFICES ASSUME NEW i \in 1 .. len + 1
               PROVE  /\ buffer'[Pos(out, off2[i])] = Len(queue'[i])
                      /\ \A j \in 1 .. Len(queue'[i]) :
                           buffer'[Pos(out, off2[i] + j)] = queue'[i][j]
    BY <1>4, <1>22 DEF Contents, Pos
  <2>1. CASE i \in 1 .. len
    <3>1. off2[i] = off[i] /\ queue'[i] = queue[i] /\ off[i] \in Nat
      BY <2>1, <1>1, <1>20, <1>22, <1>23
    <3>2. Len(queue[i]) \in Nat /\ off[i] + Len(queue[i]) < taken
      BY <2>1, <1>1, <1>18, MessagePlace DEF len, taken
    <3>3. buffer[Pos(out, off[i])] = Len(queue[i])
      BY <2>1, <1>18 DEF Layout, Contents, len
    <3>4. \A j \in 1 .. Len(queue[i]) : buffer[Pos(out, off[i] + j)] = queue[i][j]
      BY <2>1, <1>18 DEF Layout, Contents, len
    <3>5. off[i] \in 0 .. taken - 1 /\ \A j \in 1 .. Len(queue[i]) : off[i] + j \in 0 .. taken - 1
      BY <3>1, <3>2, <1>3
    <3> QED BY <3>1, <3>3, <3>4, <3>5, <1>8
  <2>2. CASE i = len + 1
    <3>1. off2[i] = taken /\ queue'[i] = m
      BY <2>2, <1>1, <1>20, <1>22, <1>23
    <3>2. buffer'[Pos(out, taken)] = Len(m)
      <4>1. Pos(in, 0) = in /\ 0 \in 0 .. N - 1
        BY <1>1, PosZero, <1>5, NAssumption
      <4> QED BY <4>1, <1>3, <1>7
    <3>3. ASSUME NEW j \in 1 .. Len(m) PROVE buffer'[Pos(out, taken + j)] = m[j]
      <4>1. j \in Nat /\ taken + j <= N
        BY <1>5, <1>6, <1>2, <1>3
      <4>2. Pos(in, j) = Pos(out, taken + j)
        BY <4>1, <1>3, <1>9
      <4> QED BY <4>2, <1>7
    <3> QED BY <3>1, <3>2, <3>3
  <2> QED BY <2>1, <2>2, <1>1
<1>27. FreeCells(gap)'
  <2> SUFFICES ASSUME NEW k \in 0 .. N - 1, N - capacity' <= k
               PROVE  buffer'[Pos(out, k)] = 0
    BY <1>4, <1>19 DEF FreeCells, Pos
  <2>1. taken <= k /\ k # taken /\ k - taken > Len(m)
    BY <1>6, <1>5, <1>2, <1>3
  <2>2. buffer[Pos(out, k)] = 0
    BY <2>1, <1>18 DEF Layout, FreeCells, taken
  <2>3. k - taken \in 0 .. N - 1 /\ k - taken \in Nat /\ taken + (k - taken) = k /\ k <= N
    BY <2>1, <1>5, <1>3
  <2>4. Pos(in, k - taken) = Pos(out, k)
    BY <2>3, <1>9
  <2> QED BY <2>1, <2>2, <2>3, <2>4, <1>7
<1>28. Layout(gap, off2)'
  BY <1>24, <1>25, <1>26, <1>27 DEF Layout
<1>29. (in = Pos(out, N - capacity))'
  <2>1. Len(m) + 1 \in Nat /\ taken + (Len(m) + 1) <= N /\ N - capacity' = taken + (Len(m) + 1)
    BY <1>6, <1>2, <1>3
  <2>2. Pos(in, Len(m) + 1) = Pos(out, taken + (Len(m) + 1))
    BY <2>1, <1>9
  <2> QED BY <2>1, <2>2, <1>4 DEF Pos
<1> QED BY <1>14, <1>15, <1>16, <1>17, <1>28, <1>29 DEF RingInv

\* What the loop of pop clears: the length and as many bytes.
LEMMA ClearedCells ==
  ASSUME NEW size \in 0 .. N - 1, out \in Cells, buffer \in [Cells -> Byte]
  PROVE  /\ Cleared(size) \in [Cells -> Byte]
         /\ \A k \in 0 .. N - 1 :
              Cleared(size)[Pos(out, k)] = IF k <= size THEN 0 ELSE buffer[Pos(out, k)]
<1>1. \A i \in Cells : Cleared(size)[i] = IF \E j \in 0 .. size : i = Pos(out, j) THEN 0 ELSE buffer[i]
  BY DEF Cleared, Pos
<1>2. Cleared(size) \in [Cells -> Byte]
  <2>1. 0 \in Byte
    BY DEF Byte
  <2> QED BY <2>1 DEF Cleared
<1>3. ASSUME NEW k \in 0 .. N - 1
      PROVE  Cleared(size)[Pos(out, k)] = IF k <= size THEN 0 ELSE buffer[Pos(out, k)]
  <2>1. Pos(out, k) \in Cells
    BY PosInCells
  <2>2. (\E j \in 0 .. size : Pos(out, k) = Pos(out, j)) <=> k <= size
    <3>1. ASSUME NEW j \in 0 .. size, Pos(out, k) = Pos(out, j) PROVE k <= size
      <4>1. j \in 0 .. N - 1
        BY NAssumption
      <4>2. k = j
        BY <3>1, <4>1, PosInjective
      <4> QED BY <4>2
    <3>2. k <= size => k \in 0 .. size
      BY NAssumption
    <3> QED BY <3>1, <3>2
  <2> QED BY <2>1, <2>2, <1>1
<1> QED BY <1>2, <1>3

\* A pop that takes a message finds the length that it has read, and hands over the oldest
\* message.
LEMMA PopCopyTakesHead ==
  ASSUME RingInv, NEW c \in Consumers, PopCopy(c)
  PROVE  /\ queue # <<>>
         /\ consumer[c].size = Len(queue[1])
         /\ consumer[c].size < N - capacity
         /\ Copied(consumer[c].size) = queue[1]
<1> DEFINE size == consumer[c].size
<1>1. /\ TypeOK /\ in \in Cells /\ out \in Cells /\ capacity \in 0 .. N
      /\ queue \in Seq(Messages) /\ Len(queue) \in Nat
  BY DEF RingInv, TypeOK
<1>2. PICK gap, off : Layout(gap, off)
  BY DEF RingInv
<1>3. gap = 0 /\ off[1] = 0 /\ off[Len(queue) + 1] = N - capacity
  BY <1>2 DEF Layout, Lengths, Gap, PopCopy, LockIsFree
<1>4. Len(queue) # 0
  <2>1. N - capacity # 0
    BY <1>1, PosZero DEF RingInv, PopCopy, MayTake
  <2> QED BY <2>1, <1>3
<1>5. 1 \in 1 .. Len(queue)
  BY <1>1, <1>4
<1>6. buffer[out] = size
  BY DEF RingInv, PopInv, PopCopy
<1>7. /\ buffer[Pos(out, off[1])] = Len(queue[1])
      /\ \A j \in 1 .. Len(queue[1]) : buffer[Pos(out, off[1] + j)] = queue[1][j]
  BY <1>2, <1>5 DEF Layout, Contents
<1>8. size = Len(queue[1])
  BY <1>1, <1>3, <1>6, <1>7, PosZero
<1>9. Len(queue[1]) \in Nat /\ off[1] + Len(queue[1]) < N - capacity
  BY <1>1, <1>2, <1>5, MessagePlace
<1>10. size \in Nat /\ size < N - capacity
  BY <1>3, <1>8, <1>9
<1>11. \A j \in 1 .. size : j <= N /\ buffer[(out + j) % N] = queue[1][j]
  <2> SUFFICES ASSUME NEW j \in 1 .. size
               PROVE  j <= N /\ buffer[(out + j) % N] = queue[1][j]
    OBVIOUS
  <2>1. j <= N /\ 0 + j = j
    BY <1>1, <1>10, NAssumption
  <2>2. buffer[Pos(out, 0 + j)] = queue[1][j]
    BY <1>3, <1>7, <1>8
  <2> QED BY <2>1, <2>2 DEF Pos
<1>12. queue[1] \in Seq(Byte)
  BY <1>1, <1>5, MessageType
<1>13. queue[1] = [j \in 1 .. size |-> queue[1][j]]
  BY <1>8, <1>12
<1>14. Copied(size) = [j \in 1 .. size |-> queue[1][j]]
  BY <1>11 DEF Copied
<1>15. queue # <<>>
  BY <1>4
<1>16. Copied(size) = queue[1]
  BY <1>13, <1>14
<1> QED BY <1>8, <1>10, <1>15, <1>16

\* The oldest message is copied and cleared; the others are behind a gap of its length.
LEMMA PopCopyInv ==
  ASSUME SingleConsumer, RingInv, NEW c \in Consumers, PopCopy(c)
  PROVE  RingInv'
<1> DEFINE size == consumer[c].size
           taken == N - capacity
           len == Len(queue)
<1>1. /\ TypeOK /\ in \in Cells /\ out \in Cells /\ buffer \in [Cells -> Byte]
      /\ capacity \in 0 .. N /\ queue \in Seq(Messages) /\ len \in Nat
      /\ handed \in [Consumers -> Seq(Byte)]
      /\ consumer \in [Consumers -> [pc: {"idle", "pop", "clear"}, size: Byte]]
  BY DEF RingInv, TypeOK
<1>2. queue # <<>> /\ size = Len(queue[1]) /\ size < taken /\ Copied(size) = queue[1]
  BY PopCopyTakesHead
<1>3. len # 0 /\ queue[1] \in Messages /\ queue[1] \in Seq(Byte) /\ size \in Nat
  BY <1>1, <1>2, MessageType
<1>4. N \in Nat /\ N > 0 /\ taken \in 0 .. N /\ size \in 0 .. N - 1
  BY <1>1, <1>2, <1>3, NAssumption
<1>5. /\ \A q \in Producers : producer[q].pc # "write"
      /\ \A d \in Consumers : consumer[d].pc # "clear"
  BY DEF PopCopy, LockIsFree
<1>6. /\ buffer' = Cleared(size) /\ queue' = SubSeq(queue, 2, len)
      /\ handed' = [handed EXCEPT ![c] = Copied(size)]
      /\ consumer' = [consumer EXCEPT ![c].pc = "clear"]
      /\ UNCHANGED <<in, out, capacity, producer>>
  BY DEF PopCopy
<1>7. \A d \in Consumers : d = c /\ consumer'[c].pc = "clear" /\ consumer'[c].size = size
  BY <1>1, <1>6 DEF SingleConsumer
<1>8. /\ buffer' \in [Cells -> Byte]
      /\ \A k \in 0 .. N - 1 : buffer'[Pos(out, k)] = IF k <= size THEN 0 ELSE buffer[Pos(out, k)]
  BY <1>1, <1>4, <1>6, ClearedCells
<1>9. /\ queue' \in Seq(Messages) /\ Len(queue') = len - 1
      /\ \A i \in 1 .. len - 1 : queue'[i] = queue[i + 1]
  <2>1. queue \in Seq(Messages) /\ queue # <<>> /\ len \in Nat /\ len > 0
    BY <1>1, <1>2, <1>3
  <2>2. queue' = Tail(queue)
    BY <2>1, <1>6
  <2>3. queue' \in Seq(Messages) /\ Len(queue') = len - 1
    BY <2>1, <2>2
  <2>4. \A i \in 1 .. len - 1 : queue'[i] = queue[i + 1]
    BY <2>1, <2>2
  <2> QED BY <2>3, <2>4
<1>10. ~Writing /\ ~Writing'
  BY <1>5, <1>6 DEF Writing
<1>11. PICK gap, off : Layout(gap, off)
  BY DEF RingInv
<1>12. gap = 0
  BY <1>5, <1>11 DEF Layout, Gap
<1> HIDE DEF size, taken
<1>13. /\ off \in [1 .. len + 1 -> Nat]
       /\ \A i \in 1 .. len : off[i + 1] = off[i] + Len(queue[i]) + 1
       /\ \A i, j \in 1 .. len + 1 : i < j => off[i] < off[j]
       /\ off[len + 1] = taken
       /\ off[1] = 0
  BY <1>11, <1>12 DEF Layout, Lengths, taken
<1> HIDE DEF len
<1>14. off[2] = size + 1
  <2>1. 1 \in 1 .. len /\ off[1 + 1] = off[1] + Len(queue[1]) + 1
    BY <1>1, <1>3, <1>13
  <2> QED BY <2>1, <1>2, <1>3, <1>13
<1>15. PICK off2 : off2 = [i \in 1 .. len |-> off[i + 1]]
  OBVIOUS
<1>16. \A i \in 1 .. len : i + 1 \in 1 .. len + 1 /\ off2[i] = off[i + 1] /\ off2[i] \in Nat
  BY <1>1, <1>13, <1>15
<1>17. Lengths(off2)'
  <2>1. off2 \in [1 .. len -> Nat]
    BY <1>15, <1>16
  <2>2. \A i \in 1 .. len - 1 : off2[i + 1] = off2[i] + Len(queue'[i]) + 1
    <3> SUFFICES ASSUME NEW i \in 1 .. len - 1
                 PROVE  off2[i + 1] = off2[i] + Len(queue'[i]) + 1
      OBVIOUS
    <3>1. i \in 1 .. len /\ i + 1 \in 1 .. len
      BY <1>1
    <3>2. off2[i] = off[i + 1] /\ off2[i + 1] = off[i + 1 + 1] /\ queue'[i] = queue[i + 1]
      BY <3>1, <1>9, <1>16
    <3> QED BY <3>1, <3>2, <1>13
  <2>3. \A i, j \in 1 .. len : i < j => off2[i] < off2[j]
    <3> SUFFICES ASSUME NEW i \in 1 .. len, NEW j \in 1 .. len, i < j
                 PROVE  off2[i] < off2[j]
      OBVIOUS
    <3>1. i + 1 < j + 1
      BY <1>1
    <3> QED BY <3>1, <1>13, <1>16
  <2>4. off2[len] = N - capacity'
    BY <1>1, <1>3, <1>6, <1>13, <1>16 DEF taken
  <2>5. Len(queue') + 1 = len /\ 1 .. Len(queue') = 1 .. len - 1
    BY <1>1, <1>9
  <2> QED BY <2>1, <2>2, <2>3, <2>4, <2>5 DEF Lengths
<1>18. Gap(size + 1)' /\ off2[1] = size + 1
  <2>1. off2[1] = size + 1
    BY <1>1, <1>3, <1>14, <1>16
  <2>2. (size + 1)' = size + 1
    BY <1>7 DEF size
  <2> QED BY <2>1, <2>2, <1>3, <1>7 DEF Gap
<1>19. Contents(off2)'
  <2> SUFFICES ASSUME NEW i \in 1 .. len - 1
               PROVE  /\ buffer'[Pos(out, off2[i])] = Len(queue'[i])
                      /\ \A j \in 1 .. Len(queue'[i]) :
                           buffer'[Pos(out, off2[i] + j)] = queue'[i][j]
    BY <1>6, <1>9 DEF Contents, Pos
  <2> DEFINE l == Len(queue[i + 1])
             o == off[i + 1]
  <2>1. i \in 1 .. len /\ i + 1 \in 1 .. len /\ i + 1 > 1
    BY <1>1
  <2>2. off2[i] = o /\ o \in Nat /\ queue'[i] = queue[i + 1]
    BY <2>1, <1>9, <1>16
  <2>3. l \in Nat /\ o + l < taken /\ off[2] <= o
    BY <2>1, <1>1, <1>11, MessagePlace DEF len, taken
  <2>4. buffer[Pos(out, o)] = l /\ \A j \in 1 .. l : buffer[Pos(out, o + j)] = queue[i + 1][j]
    BY <2>1, <1>11 DEF Layout, Contents, len
  <2> HIDE DEF l, o
  <2>5. o \in 0 .. N - 1 /\ ~(o <= size)
    BY <2>2, <2>3, <1>3, <1>4, <1>14
  <2>6. \A j \in 1 .. l : o + j \in 0 .. N - 1 /\ ~(o + j <= size)
    BY <2>2, <2>3, <1>3, <1>4, <1>14
  <2>7. buffer'[Pos(out, o)] = l /\ \A j \in 1 .. l : buffer'[Pos(out, o + j)] = queue[i + 1][j]
    BY <2>4, <2>5, <2>6, <1>8
  <2> QED BY <2>2, <2>7 DEF l
<1>20. ASSUME NEW k \in 0 .. N - 1, k < size + 1 \/ taken <= k
       PROVE  buffer'[Pos(out, k)] = 0
  <2>1. CASE k <= size
    BY <2>1, <1>8
  <2>2. CASE ~(k <= size)
    <3>1. N - capacity <= k
      BY <2>2, <1>20, <1>3, <1>4 DEF taken
    <3>2. buffer[Pos(out, k)] = 0
      BY <3>1, <1>10, <1>11 DEF Layout, FreeCells
    <3> QED BY <3>2, <2>2, <1>8
  <2> QED BY <2>1, <2>2
<1>21. FreeCells(size + 1)'
  <2>1. (size + 1)' = size + 1 /\ N - capacity' = taken /\ out' = out
    BY <1>6, <1>7 DEF size, taken
  <2> QED BY <2>1, <1>20 DEF FreeCells, Pos
<1>22. \E g, o : Layout(g, o)'
  <2>1. PICK g : g = size + 1
    OBVIOUS
  <2>2. (size + 1)' = size + 1
    BY <1>7 DEF size
  <2>3. Gap(g)' /\ FreeCells(g)' /\ off2[1] = g
    BY <2>1, <2>2, <1>18, <1>21 DEF Gap, FreeCells
  <2> QED BY <2>3, <1>17, <1>19 DEF Layout
<1>23. TypeOK'
  <2>1. consumer' \in [Consumers -> [pc: {"idle", "pop", "clear"}, size: Byte]]
    BY <1>1, <1>6
  <2>2. handed' \in [Consumers -> Seq(Byte)]
    BY <1>1, <1>2, <1>3, <1>6
  <2> QED BY <1>1, <1>6, <1>8, <1>9, <2>1, <2>2 DEF TypeOK
<1>24. LockInv' /\ PushInv' /\ PopInv'
  BY <1>5, <1>6, <1>7 DEF LockInv, PushInv, PopInv, RingInv
<1>25. (in = Pos(out, N - capacity))'
  BY <1>6 DEF RingInv, Pos
<1> QED BY <1>22, <1>23, <1>24, <1>25 DEF RingInv

\* The queue is in front again.
LEMMA PopAdvanceInv ==
  ASSUME SingleConsumer, RingInv, NEW c \in Consumers, PopAdvance(c)
  PROVE  RingInv'
<1> DEFINE taken == N - capacity
           len == Len(queue)
<1>1. /\ TypeOK /\ in \in Cells /\ out \in Cells /\ buffer \in [Cells -> Byte]
      /\ capacity \in 0 .. N /\ queue \in Seq(Messages) /\ len \in Nat
      /\ consumer \in [Consumers -> [pc: {"idle", "pop", "clear"}, size: Byte]]
  BY DEF RingInv, TypeOK
<1>2. PICK gap, off : Layout(gap, off)
  BY DEF RingInv
<1>3. consumer[c].pc = "clear" /\ gap = consumer[c].size + 1 /\ consumer[c].size \in Nat
  <2>1. consumer[c].pc = "clear"
    BY DEF PopAdvance
  <2>2. gap = consumer[c].size + 1
    BY <2>1, <1>2 DEF Layout, Gap
  <2>3. consumer[c].size \in Byte
    BY <1>1
  <2> QED BY <2>1, <2>2, <2>3 DEF Byte
<1>4. gap \in Nat /\ gap \in 0 .. taken /\ taken \in 0 .. N /\ N \in Nat /\ N > 0
  <2>1. gap \in 0 .. taken
    BY <1>1, <1>2, GapFits
  <2> QED BY <2>1, <1>1, NAssumption
<1>5. /\ out' = Pos(out, gap) /\ capacity' = capacity + gap
      /\ consumer' = [consumer EXCEPT ![c] = [pc |-> "idle", size |-> 0]]
      /\ UNCHANGED <<buffer, in, producer, queue, handed>>
  <2> DEFINE size == consumer[c].size
  <2>1. out \in Nat /\ capacity \in Nat /\ size \in Nat /\ gap = size + 1
    BY <1>1, <1>3, <1>4 DEF Cells
  <2>2. out + size + 1 = out + gap /\ capacity + size + 1 = capacity + gap
    <3> HIDE DEF size
    <3> QED BY <2>1
  <2> QED BY <2>2 DEF PopAdvance, Pos
<1>6. \A d \in Consumers : d = c /\ consumer'[c].pc = "idle"
  BY <1>1, <1>5 DEF SingleConsumer
<1>7. ~Writing /\ ~Writing' /\ \A q \in Producers : producer[q].pc # "write"
  BY <1>3, <1>5 DEF RingInv, LockInv, Writing
<1>8. N - capacity' = taken - gap /\ capacity' \in 0 .. N
  BY <1>1, <1>4, <1>5
<1>9. /\ off \in [1 .. len + 1 -> Nat]
      /\ \A i \in 1 .. len : off[i + 1] = off[i] + Len(queue[i]) + 1
      /\ \A i, j \in 1 .. len + 1 : i < j => off[i] < off[j]
      /\ off[len + 1] = taken
      /\ off[1] = gap
  BY <1>2 DEF Layout, Lengths
<1> HIDE DEF taken, len
<1>10. ASSUME NEW j \in Nat, gap <= j, j <= N
       PROVE  Pos(out', j - gap) = Pos(out, j)
  <2>1. gap \in 0 .. N /\ j - gap \in Nat /\ gap + (j - gap) = j
    BY <1>4, <1>10
  <2>2. Pos(Pos(out, gap), j - gap) = Pos(out, gap + (j - gap))
    BY <2>1, <1>1, <1>10, PosAdd
  <2> QED BY <2>1, <2>2, <1>5
<1>11. \A i \in 1 .. len + 1 : off[i] \in Nat /\ gap <= off[i]
  <2> SUFFICES ASSUME NEW i \in 1 .. len + 1 PROVE off[i] \in Nat /\ gap <= off[i]
    OBVIOUS
  <2>1. off[i] \in Nat /\ 1 \in 1 .. len + 1
    BY <1>1, <1>9
  <2>2. CASE i = 1
    BY <2>1, <2>2, <1>9
  <2>3. CASE i # 1
    BY <2>1, <2>3, <1>1, <1>4, <1>9
  <2> QED BY <2>1, <2>2, <2>3
<1>12. PICK off2 : off2 = [i \in 1 .. len + 1 |-> off[i] - gap]
  OBVIOUS
<1>13. \A i \in 1 .. len + 1 : off2[i] = off[i] - gap /\ off2[i] \in Nat
  BY <1>4, <1>11, <1>12
<1>14. Lengths(off2)'
  <2>1. off2 \in [1 .. len + 1 -> Nat]
    BY <1>12, <1>13
  <2>2. \A i \in 1 .. len : off2[i + 1] = off2[i] + Len(queue[i]) + 1
    <3> SUFFICES ASSUME NEW i \in 1 .. len
                 PROVE  off2[i + 1] = off2[i] + Len(queue[i]) + 1
      OBVIOUS
    <3>1. i \in 1 .. len + 1 /\ i + 1 \in 1 .. len + 1
      BY <1>1
    <3>2. Len(queue[i]) \in Nat
      BY <1>1, <1>2, MessagePlace DEF len
    <3> QED BY <3>1, <3>2, <1>4, <1>9, <1>11, <1>13
  <2>3. \A i, j \in 1 .. len + 1 : i < j => off2[i] < off2[j]
    BY <1>4, <1>9, <1>11, <1>13
  <2>4. off2[len + 1] = N - capacity'
    BY <1>1, <1>8, <1>9, <1>13
  <2> QED BY <2>1, <2>2, <2>3, <2>4, <1>5 DEF Lengths, len
<1>15. off2[1] = 0
  BY <1>1, <1>4, <1>9, <1>13
<1>16. Gap(0)'
  BY <1>6 DEF Gap
<1>17. Contents(off2)'
  <2> SUFFICES ASSUME NEW i \in 1 .. len
               PROVE  /\ buffer[Pos(out', off2[i])] = Len(queue[i])
                      /\ \A j \in 1 .. Len(queue[i]) :
                           buffer[Pos(out', off2[i] + j)] = queue[i][j]
    BY <1>5 DEF Contents, Pos, len
  <2>1. i \in 1 .. len + 1 /\ off2[i] = off[i] - gap /\ off[i] \in Nat /\ gap <= off[i]
    BY <1>1, <1>11, <1>13
  <2>2. Len(queue[i]) \in Nat /\ off[i] + Len(queue[i]) < taken
    BY <1>1, <1>2, MessagePlace DEF len, taken
  <2>3. /\ buffer[Pos(out, off[i])] = Len(queue[i])
        /\ \A j \in 1 .. Len(queue[i]) : buffer[Pos(out, off[i] + j)] = queue[i][j]
    BY <1>2 DEF Layout, Contents, len
  <2>4. off[i] <= N
    BY <2>1, <2>2, <1>4
  <2>5. Pos(out', off2[i]) = Pos(out, off[i])
    BY <2>1, <2>4, <1>10
  <2>6. ASSUME NEW j \in 1 .. Len(queue[i]) PROVE Pos(out', off2[i] + j) = Pos(out, off[i] + j)
    <3>1. PICK k \in Nat : k = off[i] + j
      BY <2>1, <2>2
    <3>2. gap <= k /\ k <= N /\ off2[i] + j = k - gap
      BY <2>1, <2>2, <3>1, <1>4
    <3> QED BY <3>1, <3>2, <1>10
  <2> QED BY <2>3, <2>5, <2>6
<1>18. FreeCells(0)'
  <2> SUFFICES ASSUME NEW k \in 0 .. N - 1, taken - gap <= k
               PROVE  buffer[Pos(out', k)] = 0
    BY <1>5, <1>8 DEF FreeCells, Pos
  <2>1. CASE gap + k < N
    <3>1. PICK j \in Nat : j = gap + k
      BY <1>4
    <3>2. j \in 0 .. N - 1 /\ gap <= j /\ j <= N /\ j - gap = k /\ taken <= j
      BY <2>1, <3>1, <1>4
    <3>3. Pos(out', k) = Pos(out, j)
      BY <3>1, <3>2, <1>10
    <3>4. buffer[Pos(out, j)] = 0
      BY <3>2, <1>2, <1>7 DEF Layout, FreeCells, taken
    <3> QED BY <3>3, <3>4
  <2>2. CASE gap + k >= N
    <3>1. gap \in 0 .. N /\ gap + k - N \in 0 .. N - 1 /\ gap + k - N < gap
      BY <2>2, <1>4
    <3>2. Pos(out', k) = Pos(out, gap + k - N)
      BY <2>2, <3>1, <1>1, <1>5, PosAround
    <3> QED BY <3>1, <3>2, <1>2, <1>7 DEF Layout, FreeCells
  <2> QED BY <2>1, <2>2, <1>4
<1>19. Layout(0, off2)'
  BY <1>14, <1>15, <1>16, <1>17, <1>18 DEF Layout
<1>20. TypeOK'
  <2>1. consumer' \in [Consumers -> [pc: {"idle", "pop", "clear"}, size: Byte]]
    BY <1>1, <1>5 DEF Byte
  <2>2. out' \in Cells
    BY <1>1, <1>4, <1>5, PosInCells
  <2> QED BY <1>1, <1>5, <1>8, <2>1, <2>2 DEF TypeOK
<1>21. LockInv' /\ PushInv' /\ PopInv'
  BY <1>5, <1>6, <1>7 DEF LockInv, PushInv, PopInv, RingInv
<1>22. (in = Pos(out, N - capacity))'
  <2>1. taken \in Nat /\ gap <= taken /\ taken <= N
    BY <1>4
  <2>2. Pos(out', taken - gap) = Pos(out, taken)
    BY <2>1, <1>10
  <2> QED BY <2>2, <1>5, <1>8 DEF RingInv, Pos, taken
<1> QED BY <1>19, <1>20, <1>21, <1>22 DEF RingInv

-----------------------------------------------------------------------------
(* Theorems *)

LEMMA RingInvNext == SingleConsumer /\ RingInv /\ [Next]_vars => RingInv'
<1> SUFFICES ASSUME SingleConsumer, RingInv, [Next]_vars PROVE RingInv'
  OBVIOUS
<1>1. ASSUME NEW p \in Producers, PushCall(p) PROVE RingInv'
  BY <1>1, PushCallInv
<1>2. ASSUME NEW p \in Producers, PushLength(p) PROVE RingInv'
  BY <1>2, PushLengthInv
<1>3. ASSUME NEW p \in Producers, PushBody(p) PROVE RingInv'
  BY <1>3, PushBodyInv
<1>4. ASSUME NEW c \in Consumers, PopPeek(c) PROVE RingInv'
  BY <1>4, PopPeekInv
<1>5. ASSUME NEW c \in Consumers, PopCopy(c) PROVE RingInv'
  BY <1>5, PopCopyInv
<1>6. ASSUME NEW c \in Consumers, PopAdvance(c) PROVE RingInv'
  BY <1>6, PopAdvanceInv
<1>7. CASE UNCHANGED vars
  <2> USE <1>7 DEF vars, ring
  <2>1. TypeOK'
    BY DEF RingInv, TypeOK
  <2>2. LockInv' /\ PushInv' /\ PopInv'
    BY DEF RingInv, LockInv, PushInv, PopInv
  <2>3. (in = Pos(out, N - capacity))'
    BY DEF RingInv, Pos
  <2>4. PICK gap, off : Layout(gap, off)
    BY DEF RingInv
  <2>5. Layout(gap, off)'
    BY <2>4 DEF Layout, Lengths, Gap, Contents, FreeCells, Writing, Pos
  <2> QED BY <2>1, <2>2, <2>3, <2>5 DEF RingInv
<1> QED BY <1>1, <1>2, <1>3, <1>4, <1>5, <1>6, <1>7 DEF Next, PushStep, PopStep

\* With one consumer the array always holds the queue, message behind message, and zeros
\* elsewhere, and the length that pop has read without the lock is still in front.
THEOREM RingInvariant == SingleConsumer /\ Spec => []RingInv
<1>1. SingleConsumer /\ RingInv /\ [Next]_vars => RingInv'
  BY RingInvNext
<1>2. CASE SingleConsumer
  BY <1>1, <1>2, RingInvInit, PTL DEF Spec
<1>3. CASE ~SingleConsumer
  BY <1>3, PTL
<1> QED BY <1>2, <1>3

\* With one consumer no index leaves the array and capacity never exceeds its size.
THEOREM TypeCorrect == SingleConsumer /\ Spec => []TypeOK
<1>1. RingInv => TypeOK
  BY DEF RingInv
<1> QED BY <1>1, RingInvariant, PTL

\* With one consumer every pop hands over the oldest message, whole and once, and nothing
\* but a push adds to the queue, although pop reads the length without the lock.
THEOREM OrderedDelivery == SingleConsumer /\ Spec => DeliversInOrder
<1>1. Init => Fifo!Init
  BY DEF Init, Fifo!Init
<1>2. ASSUME RingInv, [Next]_vars
      PROVE  [Fifo!Next]_<<queue, handed>>
  <2>1. ASSUME NEW p \in Producers, PushBody(p) PROVE Fifo!Next
    <3>1. producer[p].msg \in Messages
      BY <1>2, <2>1 DEF RingInv, PushInv, PushBody
    <3>2. Fifo!Push(producer[p].msg)
      BY <2>1 DEF PushBody, Fifo!Push
    <3> QED BY <3>1, <3>2 DEF Fifo!Next
  <2>2. ASSUME NEW c \in Consumers, PopCopy(c) PROVE Fifo!Next
    <3>1. queue # <<>> /\ Copied(consumer[c].size) = queue[1]
      BY <1>2, <2>2, PopCopyTakesHead
    <3>2. queue \in Seq(Messages)
      BY <1>2 DEF RingInv, TypeOK
    <3>3. Head(queue) = queue[1] /\ Tail(queue) = SubSeq(queue, 2, Len(queue))
      BY <3>1, <3>2
    <3>4. handed' = [handed EXCEPT ![c] = Head(queue)] /\ queue' = Tail(queue)
      BY <2>2, <3>1, <3>3 DEF PopCopy
    <3> QED BY <3>1, <3>4 DEF Fifo!Next, Fifo!Pop
  <2>3. CASE UNCHANGED vars
    BY <2>3 DEF vars
  <2>4. ASSUME NEW p \in Producers, PushCall(p) \/ PushLength(p) PROVE UNCHANGED <<queue, handed>>
    BY <2>4 DEF PushCall, PushLength
  <2>5. ASSUME NEW c \in Consumers, PopPeek(c) \/ PopAdvance(c) PROVE UNCHANGED <<queue, handed>>
    BY <2>5 DEF PopPeek, PopAdvance
  <2> QED BY <1>2, <2>1, <2>2, <2>3, <2>4, <2>5 DEF Next, PushStep, PopStep
<1>3. CASE SingleConsumer
  BY <1>1, <1>2, <1>3, RingInvariant, PTL DEF Spec, DeliversInOrder, Fifo!Spec
<1>4. CASE ~SingleConsumer
  BY <1>4, PTL
<1> QED BY <1>3, <1>4

-----------------------------------------------------------------------------
(* The array holds the queue *)

\* The offsets of the messages, counted from the front of the queue, are those of the layout.
LEMMA OffsetsAreTheLayout ==
  ASSUME RingInv, NEW gap, NEW off, Layout(gap, off)
  PROVE  \A i \in 1 .. Len(queue) + 1 : Offsets[i] = off[i] - gap
<1> DEFINE n == Len(queue)
           I == 1 .. n + 1
           g == [i \in I |-> off[i] - gap]
<1>0. /\ n \in Nat /\ gap \in Nat /\ off \in [I -> Nat] /\ off[1] = gap
      /\ \A i \in 1 .. n : off[i + 1] = off[i] + Len(queue[i]) + 1
      /\ \A i \in 1 .. n : Len(queue[i]) \in Nat
  BY MessageType DEF Layout, Lengths, Gap, RingInv, TypeOK
<1>1. g = [i \in I |-> IF i = 1 THEN 0 ELSE g[i - 1] + Len(queue[i - 1]) + 1]
  <2>1. ASSUME NEW i \in I
        PROVE  off[i] - gap = IF i = 1 THEN 0 ELSE g[i - 1] + Len(queue[i - 1]) + 1
    <3>1. CASE i = 1
      BY <1>0, <3>1
    <3>2. CASE i # 1
      <4>1. i - 1 \in 1 .. n /\ i - 1 \in I /\ (i - 1) + 1 = i
        BY <1>0, <3>2
      <4>2. off[i] = off[i - 1] + Len(queue[i - 1]) + 1
        BY <1>0, <4>1
      <4>3. g[i - 1] = off[i - 1] - gap
        BY <4>1
      <4> QED BY <1>0, <3>2, <4>1, <4>2, <4>3
    <3> QED BY <3>1, <3>2
  <2> QED BY <2>1
<1>2. Offsets = [i \in I |-> IF i = 1 THEN 0 ELSE Offsets[i - 1] + Len(queue[i - 1]) + 1]
  <2> HIDE DEF g
  <2> QED BY <1>1 DEF Offsets
<1>3. ASSUME NEW i \in 0 .. n, i = 0 \/ Offsets[i] = g[i] PROVE Offsets[i + 1] = g[i + 1]
  <2>1. i + 1 \in I /\ (i + 1) - 1 = i
    BY <1>0
  <2>2. Offsets[i + 1] = IF i = 0 THEN 0 ELSE Offsets[i] + Len(queue[i]) + 1
    BY <1>2, <2>1
  <2>3. g[i + 1] = IF i = 0 THEN 0 ELSE g[i] + Len(queue[i]) + 1
    <3> HIDE DEF g
    <3> QED BY <1>1, <2>1
  <2> QED BY <1>3, <2>2, <2>3
<1>4. \A i \in I : Offsets[i] = g[i]
  <2> DEFINE T == {i \in 0 .. n + 1 : i = 0 \/ Offsets[i] = g[i]}
  <2> HIDE DEF g
  <2>1. 0 \in T /\ \A i \in 0 .. (n + 1) - 1 : i \in T => i + 1 \in T
    <3>1. 0 .. (n + 1) - 1 = 0 .. n /\ \A i \in 0 .. n : i + 1 \in 0 .. n + 1
      BY <1>0
    <3>2. 0 \in 0 .. n + 1
      BY <1>0
    <3> QED BY <1>3, <3>1, <3>2
  <2>2. 0 .. n + 1 \subseteq T
    <3>1. n + 1 \in Nat
      BY <1>0
    <3> HIDE DEF T
    <3> QED BY <2>1, <3>1, UpTo
  <2>3. \A i \in I : i \in 0 .. n + 1 /\ i # 0
    BY <1>0
  <2> QED BY <2>2, <2>3
<1> QED BY <1>4

\* What Front and Taken mean in terms of the gap.
LEMMA FrontAndTaken ==
  ASSUME SingleConsumer, RingInv, NEW gap, NEW off, Layout(gap, off)
  PROVE  /\ gap \in Nat /\ gap <= N - capacity
         /\ Front = Pos(out, gap) /\ Taken = N - capacity - gap
<1>1. /\ gap \in Nat /\ out \in Cells /\ capacity \in 0 .. N
  BY DEF Layout, Gap, RingInv, TypeOK
<1>2. gap <= N - capacity
  <2>1. Len(queue) \in Nat /\ off[1] = gap /\ off[Len(queue) + 1] = N - capacity
    BY DEF RingInv, TypeOK, Layout, Lengths
  <2>2. CASE Len(queue) = 0
    BY <1>1, <2>1, <2>2, NAssumption
  <2>3. CASE Len(queue) # 0
    <3>1. 1 \in 1 .. Len(queue) + 1 /\ Len(queue) + 1 \in 1 .. Len(queue) + 1 /\ 1 < Len(queue) + 1
      BY <2>1, <2>3
    <3>2. off[1] < off[Len(queue) + 1]
      BY <3>1 DEF Layout, Lengths
    <3> QED BY <1>1, <2>1, <3>2, NAssumption
  <2> QED BY <2>2, <2>3
<1>3. CASE Clearing = {}
  <2>1. gap = 0 /\ Front = out /\ Taken = N - capacity
    BY <1>3 DEF Layout, Gap, Clearing, Front, Taken
  <2> QED BY <1>1, <1>2, <2>1, PosZero, NAssumption
<1>4. CASE Clearing # {}
  <2> DEFINE c == CHOOSE d \in Clearing : TRUE
  <2>1. c \in Clearing
    BY <1>4
  <2>2. gap = consumer[c].size + 1 /\ consumer[c].size \in Nat
    <3>1. c \in Consumers /\ consumer[c].pc = "clear"
      BY <2>1 DEF Clearing
    <3> HIDE DEF c
    <3>2. consumer[c].size \in Byte
      BY <3>1 DEF RingInv, TypeOK
    <3> QED BY <3>1, <3>2 DEF Layout, Gap, Byte
  <2>3. Front = (out + consumer[c].size + 1) % N /\ Taken = N - capacity - consumer[c].size - 1
    BY <1>4 DEF Front, Taken
  <2>4. out + consumer[c].size + 1 = out + gap /\ N - capacity - consumer[c].size - 1 = N - capacity - gap
    <3> HIDE DEF c
    <3> QED BY <1>1, <2>2, NAssumption DEF Cells
  <2> QED BY <1>1, <1>2, <2>3, <2>4 DEF Pos
<1> QED BY <1>1, <1>2, <1>3, <1>4

\* The array is the queue: the messages one behind the other, and zeros elsewhere but for the
\* length a push has just written.
THEOREM BufferHoldsQueue == SingleConsumer /\ Spec => []RingHoldsQueue
<1>1. ASSUME SingleConsumer, RingInv PROVE RingHoldsQueue
  <2>1. PICK gap, off : Layout(gap, off)
    BY <1>1 DEF RingInv
  <2> DEFINE n == Len(queue)
             Cell(k) == buffer[(Front + k) % N]
  <2>2. /\ gap \in Nat /\ gap <= N - capacity /\ Front = Pos(out, gap) /\ Taken = N - capacity - gap
        /\ out \in Cells /\ capacity \in 0 .. N /\ gap \in 0 .. N /\ N \in Nat
    BY <1>1, <2>1, FrontAndTaken, NAssumption DEF RingInv, TypeOK
  <2>3. /\ n \in Nat /\ off \in [1 .. n + 1 -> Nat] /\ off[n + 1] = N - capacity
        /\ \A i \in 1 .. n : off[i + 1] = off[i] + Len(queue[i]) + 1
        /\ \A i, j \in 1 .. n + 1 : i < j => off[i] < off[j]
        /\ off[1] = gap /\ \A i \in 1 .. n : queue[i] \in Messages
    BY <1>1, <2>1 DEF Layout, Lengths, RingInv, TypeOK
  <2>4. \A i \in 1 .. n + 1 : Offsets[i] = off[i] - gap
    BY <1>1, <2>1, OffsetsAreTheLayout
  <2>5. ASSUME NEW k \in Nat, gap + k <= N PROVE Cell(k) = buffer[Pos(out, gap + k)]
    <3>1. Pos(Pos(out, gap), k) = Pos(out, gap + k)
      BY <2>2, <2>5, PosAdd
    <3> QED BY <2>2, <3>1 DEF Pos
  <2>6. Taken = Offsets[n + 1]
    BY <2>2, <2>3, <2>4
  <2>7. in = (Front + Taken) % N
    <3>1. Taken \in Nat /\ gap + Taken = N - capacity /\ gap + Taken <= N
      BY <2>2
    <3>2. Pos(Pos(out, gap), Taken) = Pos(out, N - capacity)
      BY <2>2, <3>1, PosAdd
    <3> QED BY <1>1, <2>2, <3>2 DEF RingInv, Pos
  <2>8. ASSUME NEW i \in DOMAIN queue
        PROVE  /\ Cell(Offsets[i]) = Len(queue[i])
               /\ \A j \in DOMAIN queue[i] : Cell(Offsets[i] + j) = queue[i][j]
    <3>1. i \in 1 .. n /\ i \in 1 .. n + 1 /\ i + 1 \in 1 .. n + 1 /\ 1 \in 1 .. n + 1
      BY <1>1, <2>3 DEF RingInv, TypeOK
    <3>2. /\ Len(queue[i]) \in Nat /\ off[i] \in Nat /\ gap <= off[i]
          /\ off[i] + Len(queue[i]) + 1 <= N /\ DOMAIN queue[i] = 1 .. Len(queue[i])
      <4>1. Len(queue[i]) \in Nat /\ off[i] \in Nat /\ DOMAIN queue[i] = 1 .. Len(queue[i])
        BY <2>3, <3>1, MessageType
      <4>2. i = 1 \/ off[1] < off[i]
        BY <2>3, <3>1
      <4>3. i = n \/ off[i + 1] < off[n + 1]
        BY <2>3, <3>1
      <4> QED BY <2>2, <2>3, <3>1, <4>1, <4>2, <4>3
    <3>3. Offsets[i] \in Nat /\ gap + Offsets[i] = off[i] /\ gap + Offsets[i] <= N
      BY <2>2, <2>4, <3>1, <3>2
    <3>4. Cell(Offsets[i]) = Len(queue[i])
      BY <2>1, <2>5, <3>1, <3>3 DEF Layout, Contents
    <3>5. ASSUME NEW j \in DOMAIN queue[i] PROVE Cell(Offsets[i] + j) = queue[i][j]
      <4>1. Offsets[i] + j \in Nat /\ gap + (Offsets[i] + j) = off[i] + j /\ off[i] + j <= N
        <5>1. \A a, b, d, e, l, m \in Nat : a + b = d /\ d + l + 1 <= m /\ e <= l =>
                b + e \in Nat /\ a + (b + e) = d + e /\ d + e <= m
          OBVIOUS
        <5>2. j \in Nat /\ j <= Len(queue[i])
          BY <3>2
        <5> QED BY <2>2, <3>2, <3>3, <5>1, <5>2
      <4>2. Cell(Offsets[i] + j) = buffer[Pos(out, off[i] + j)]
        BY <2>5, <4>1
      <4> QED BY <2>1, <3>1, <3>2, <4>2 DEF Layout, Contents
    <3> QED BY <3>4, <3>5
  <2>9. ASSUME NEW k \in Taken .. N - 1, Cell(k) # 0
        PROVE  k = Taken /\ \E p \in Producers : producer[p].pc = "write"
    <3>1. k \in Nat /\ k \in 0 .. N - 1 /\ N - capacity <= gap + k
      BY <2>2
    <3>2. CASE gap + k < N
      <4>1. Cell(k) = buffer[Pos(out, gap + k)] /\ gap + k \in 0 .. N - 1
        BY <2>2, <2>5, <3>1, <3>2
      <4>2. gap + k = N - capacity /\ Writing
        BY <2>1, <2>9, <3>1, <4>1 DEF Layout, FreeCells
      <4> QED BY <2>2, <3>1, <4>2 DEF Writing
    <3>3. CASE ~(gap + k < N)
      <4>1. gap + k - N \in 0 .. N - 1 /\ gap + k - N < gap /\ gap + k - N # N - capacity
            /\ gap + k >= N
        BY <2>2, <3>1, <3>3
      <4>2. Pos(Pos(out, gap), k) = Pos(out, gap + k - N)
        BY <2>2, <3>1, <4>1, PosAround
      <4>3. Cell(k) = buffer[Pos(out, gap + k - N)]
        BY <2>2, <4>2 DEF Pos
      <4> QED BY <2>1, <2>9, <4>1, <4>3 DEF Layout, FreeCells
    <3> QED BY <3>2, <3>3
  <2> QED BY <2>6, <2>7, <2>8, <2>9 DEF RingHoldsQueue
<1>2. CASE SingleConsumer
  BY <1>1, <1>2, RingInvariant, PTL
<1>3. CASE ~SingleConsumer
  BY <1>3, PTL
<1> QED BY <1>2, <1>3
==============================================================================
