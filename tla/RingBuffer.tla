------------------------------ MODULE RingBuffer ------------------------------
(***************************************************************************)
(* src/RingBuffer/libbuffer/circle_buffer.hpp: messages of different sizes *)
(* in an array of N bytes.  A message is its length, in one byte, followed *)
(* by its bytes, wrapped around the end of the array; a byte that belongs  *)
(* to no message is 0.                                                     *)
(*                                                                         *)
(* push works under the lock.  pop reads the length of the next message    *)
(* before it takes the lock.  A wait on the condition variable is the      *)
(* condition as a guard: it is tested under the lock, and every change of  *)
(* what it reads is followed by notify_all.                                *)
(***************************************************************************)
EXTENDS Naturals, Sequences, FiniteSets

CONSTANTS
  N,          \* size of the array
  Messages,   \* what is pushed
  Producers, Consumers

Byte == 0 .. 255

ASSUME NAssumption == N \in Nat \ {0}
\* unsigned char mesSize
ASSUME MessagesAssumption == Messages \subseteq {m \in Seq(Byte) : Len(m) \in Byte}

Cells == 0 .. N - 1

VARIABLES
  buffer, in, out, capacity,
  producer,   \* threads in push: where they are, and their message
  consumer,   \* threads in pop: where they are, and the length they have read
  queue,      \* history: the messages pushed and not yet popped
  handed      \* what each consumer's last pop has copied

ring == <<buffer, in, out, capacity>>
vars == <<ring, producer, consumer, queue, handed>>

TypeOK ==
  /\ buffer \in [Cells -> Byte]
  /\ in \in Cells /\ out \in Cells
  /\ capacity \in 0 .. N
  /\ producer \in [Producers -> [pc: {"idle", "push", "write"}, msg: Messages \cup {<<>>}]]
  /\ consumer \in [Consumers -> [pc: {"idle", "pop", "clear"}, size: Byte]]
  /\ queue \in Seq(Messages)
  /\ handed \in [Consumers -> Seq(Byte)]

\* CircleBuffer<80> starts in the middle of its array.
Init ==
  /\ buffer = [i \in Cells |-> 0]
  /\ in = 75 % N /\ out = 75 % N
  /\ capacity = N
  /\ producer = [p \in Producers |-> [pc |-> "idle", msg |-> <<>>]]
  /\ consumer = [c \in Consumers |-> [pc |-> "idle", size |-> 0]]
  /\ queue = <<>>
  /\ handed = [c \in Consumers |-> <<>>]

\* Who holds lkm is inside the critical section of push or pop.
LockIsFree ==
  /\ \A p \in Producers : producer[p].pc # "write"
  /\ \A c \in Consumers : consumer[c].pc # "clear"

-----------------------------------------------------------------------------
(* push *)

PushCall(p) ==
  /\ producer[p].pc = "idle"
  /\ \E m \in Messages : producer' = [producer EXCEPT ![p] = [pc |-> "push", msg |-> m]]
  /\ UNCHANGED <<ring, consumer, queue, handed>>

\* Defect: room for the bytes but not for the length.
FitsTightly(size) == capacity >= size

Fits(size) == capacity > size

\* The wait is over; the length is written and can be seen without the lock.
PushLength(p) ==
  /\ producer[p].pc = "push"
  /\ LockIsFree
  /\ Fits(Len(producer[p].msg))
  /\ buffer' = [buffer EXCEPT ![in] = Len(producer[p].msg)]
  /\ producer' = [producer EXCEPT ![p].pc = "write"]
  /\ UNCHANGED <<in, out, capacity, consumer, queue, handed>>

\* Defect: the part before the end of the array is one byte too long.
BytesToTheEdge(size) == IF N - in > size THEN size ELSE N - in

\* ring_delta_end: as many bytes as there are cells between in and the end.
BytesBeforeEnd(size) == IF N - in > size THEN size ELSE N - in - 1

\* The bytes are stored in at most two pieces.
Stored(m) ==
  LET delta == BytesBeforeEnd(Len(m))
  IN  [i \in Cells |-> IF i \in in + 1 .. in + delta THEN m[i - in]
                       ELSE IF i < Len(m) - delta THEN m[delta + i + 1] ELSE buffer[i]]

PushBody(p) ==
  /\ producer[p].pc = "write"
  /\ LET m == producer[p].msg IN
       /\ buffer' = Stored(m)
       /\ in' = (in + Len(m) + 1) % N
       /\ capacity' = capacity - Len(m) - 1
       /\ queue' = Append(queue, m)
  /\ producer' = [producer EXCEPT ![p] = [pc |-> "idle", msg |-> <<>>]]
  /\ UNCHANGED <<out, consumer, handed>>

-----------------------------------------------------------------------------
(* pop *)

\* The length is read without the lock; pop returns at once when it is 0.
PopPeek(c) ==
  /\ consumer[c].pc = "idle"
  /\ buffer[out] # 0
  /\ consumer' = [consumer EXCEPT ![c] = [pc |-> "pop", size |-> buffer[out]]]
  /\ UNCHANGED <<ring, producer, queue, handed>>

\* The condition of the wait: the buffer is not empty, and more than two bytes are free.
MayTake == capacity > 2 /\ in # out

\* Defect: the copy begins with the length.
CopiedWithLength(size) == [j \in 1 .. size |-> buffer[(out + j - 1) % N]]

\* The loop clears what it copies: a cell that it meets again is 0.
Copied(size) == [j \in 1 .. size |-> IF j <= N THEN buffer[(out + j) % N] ELSE 0]

Cleared(size) ==
  [i \in Cells |-> IF \E j \in 0 .. size : i = (out + j) % N THEN 0 ELSE buffer[i]]

\* Under the lock the bytes are copied and the cells cleared, the length last.
PopCopy(c) ==
  /\ consumer[c].pc = "pop"
  /\ LockIsFree
  /\ MayTake
  /\ handed' = [handed EXCEPT ![c] = Copied(consumer[c].size)]
  /\ buffer' = Cleared(consumer[c].size)
  /\ consumer' = [consumer EXCEPT ![c].pc = "clear"]
  /\ queue' = SubSeq(queue, 2, Len(queue))
  /\ UNCHANGED <<in, out, capacity, producer>>

PopAdvance(c) ==
  /\ consumer[c].pc = "clear"
  /\ out' = (out + consumer[c].size + 1) % N
  /\ capacity' = capacity + consumer[c].size + 1
  /\ consumer' = [consumer EXCEPT ![c] = [pc |-> "idle", size |-> 0]]
  /\ UNCHANGED <<buffer, in, producer, queue, handed>>

-----------------------------------------------------------------------------
(* The specification *)

PushStep(p) == PushLength(p) \/ PushBody(p)
PopStep(c)  == PopPeek(c) \/ PopCopy(c) \/ PopAdvance(c)

Next == \/ \E p \in Producers : PushCall(p) \/ PushStep(p)
        \/ \E c \in Consumers : PopStep(c)

Spec == Init /\ [][Next]_vars

\* A thread in push or pop goes on as soon as it can, and a consumer calls pop again and
\* again, as the test does.
FairSpec == /\ Spec
            /\ \A p \in Producers : WF_vars(PushStep(p))
            /\ \A c \in Consumers : WF_vars(PopStep(c))

-----------------------------------------------------------------------------
(* Properties *)

\* Where the oldest message begins and how many cells are taken, also while a pop has
\* cleared a message and not yet advanced.
Clearing == {c \in Consumers : consumer[c].pc = "clear"}
Front    == IF Clearing = {} THEN out
            ELSE (out + consumer[CHOOSE c \in Clearing : TRUE].size + 1) % N
Taken    == IF Clearing = {} THEN N - capacity
            ELSE N - capacity - consumer[CHOOSE c \in Clearing : TRUE].size - 1

\* Number of cells before the i-th message of the queue.
Offsets == LET off[i \in 1 .. Len(queue) + 1] ==
                 IF i = 1 THEN 0 ELSE off[i - 1] + Len(queue[i - 1]) + 1
           IN  off

\* The array holds the queue, one message behind the other from Front to in, and nothing
\* but zeros elsewhere: a stray byte would be the length of a message that never was.
\* A push in progress has written its length and nothing else.
RingHoldsQueue ==
  LET Cell(k) == buffer[(Front + k) % N] IN
    /\ Taken = Offsets[Len(queue) + 1]
    /\ in = (Front + Taken) % N
    /\ \A i \in DOMAIN queue :
         /\ Cell(Offsets[i]) = Len(queue[i])
         /\ \A j \in DOMAIN queue[i] : Cell(Offsets[i] + j) = queue[i][j]
    /\ \A k \in Taken .. N - 1 :
         Cell(k) # 0 => k = Taken /\ \E p \in Producers : producer[p].pc = "write"

\* Every pop copies the oldest message, whole and once, although its length was read
\* without the lock, possibly in the middle of the push that stores it.
Fifo == INSTANCE MessageFifo
DeliversInOrder == Fifo!Spec

\* A push ends as long as there is a consumer.
PushReturns == \A p \in Producers : producer[p].pc = "push" ~> producer[p].pc = "idle"

===============================================================================
