---------------------------- MODULE ProgramsProofs ----------------------------
(***************************************************************************)
(* Proofs about six of the small programs: the interval map, the picture   *)
(* sender, the trade engine, the equalization of images, the counter of    *)
(* words and the server of packets.  (Programs itself cannot be extended   *)
(* here: SmallAlgorithms uses bit operations.)                             *)
(***************************************************************************)
EXTENDS IntervalMap, UdpPicture, TradeEngine, Equalization, WordCounter, PacketServer, SelectionProofs,
        SequenceTheorems, FiniteSetTheorems

-----------------------------------------------------------------------------
(* The interval map *)

LastNode(D, key, n) == n \in D /\ n <= key /\ \A j \in D : j <= key => j <= n

HasLastNode(D, key) == (\E n \in D : n <= key) => \E n : LastNode(D, key, n)

MapInv == MapTypeOK /\ \A k \in Keys : HasLastNode(DOMAIN m_map, k)

-----------------------------------------------------------------------------
\* The last node before a key is the one that NodeBefore chooses.
LEMMA LastNodeIsChosen ==
  ASSUME NEW D \in SUBSET Int, NEW key \in Int, NEW n, LastNode(D, key, n)
  PROVE  (CHOOSE k \in D : k <= key /\ \A j \in D : j <= key => j <= k) = n
<1> DEFINE Chosen(k) == k \in D /\ k <= key /\ \A j \in D : j <= key => j <= k
<1>1. Chosen(n)
  BY DEF LastNode
<1>2. \A k : Chosen(k) => k = n
  <2> SUFFICES ASSUME NEW k, Chosen(k) PROVE k = n
    OBVIOUS
  <2>1. k \in Int /\ n \in Int /\ k <= n /\ n <= k
    BY DEF LastNode
  <2> QED
    BY <2>1
<1> QED
  BY <1>1, <1>2

\* What a map holds for a key with a last node before it, and for one without.
LEMMA ValueAtNode ==
  ASSUME DOMAIN m_map \subseteq Int, NEW key \in Int, NEW n, LastNode(DOMAIN m_map, key, n)
  PROVE  LookUp(key) = m_map[n]
<1>1. NodeBefore(key) = n
  BY LastNodeIsChosen DEF NodeBefore
<1>2. \E k \in DOMAIN m_map : k <= key
  BY DEF LastNode
<1> QED
  BY <1>1, <1>2 DEF LookUp

\* The same of the map after a step.
LEMMA ValueAtNextNode ==
  ASSUME DOMAIN m_map' \subseteq Int, NEW key \in Int, NEW n, LastNode(DOMAIN m_map', key, n)
  PROVE  LookUp(key)' = m_map'[n]
<1>1. NodeBefore(key)' = n
  BY LastNodeIsChosen DEF NodeBefore
<1>2. \E k \in DOMAIN m_map' : k <= key
  BY DEF LastNode
<1> QED
  BY <1>1, <1>2 DEF LookUp

\* Every key has a value.
LEMMA LookUpType ==
  ASSUME MapInv, NEW key \in Keys
  PROVE  LookUp(key) \in Values
<1>1. DOMAIN m_map \subseteq Int /\ key \in Int
  BY KeysAssumption DEF MapInv, MapTypeOK
<1>2. CASE \E n \in DOMAIN m_map : n <= key
  <2>1. PICK n : LastNode(DOMAIN m_map, key, n)
    BY <1>2 DEF MapInv, HasLastNode
  <2>2. LookUp(key) = m_map[n]
    BY <1>1, <2>1, ValueAtNode
  <2> QED
    BY <2>1, <2>2 DEF MapInv, MapTypeOK, LastNode
<1>3. CASE ~ \E n \in DOMAIN m_map : n <= key
  BY <1>3 DEF LookUp, MapInv, MapTypeOK
<1> QED
  BY <1>2, <1>3

\* The last node before a key once an interval has been assigned: the end of the interval, its
\* beginning, or the one that was there.
LEMMA NodesAfterAssign ==
  ASSUME NEW D \in SUBSET Int, NEW b \in Int, NEW e \in Int, b < e, NEW key \in Int,
         HasLastNode(D, key)
  PROVE  LET E == (D \ {k \in D : b < k /\ k <= e}) \cup {b, e}
         IN  /\ b <= key /\ key < e => LastNode(E, key, b)
             /\ \A n : ~(b <= key /\ key < e) /\ LastNode(D, key, n) =>
                         LastNode(E, key, IF e <= key /\ n <= e THEN e ELSE n)
             /\ e <= key /\ (\A n \in D : ~(n <= key)) => LastNode(E, key, e)
             /\ key < b /\ (\A n \in D : ~(n <= key)) => \A n \in E : ~(n <= key)
             /\ HasLastNode(E, key)
<1> DEFINE E == (D \ {k \in D : b < k /\ k <= e}) \cup {b, e}
<1>0. E \subseteq Int /\ b \in E /\ e \in E
  OBVIOUS
<1>1. ASSUME b <= key, key < e PROVE LastNode(E, key, b)
  BY <1>0, <1>1 DEF LastNode
<1>2. ASSUME NEW n, ~(b <= key /\ key < e), LastNode(D, key, n)
      PROVE  LastNode(E, key, IF e <= key /\ n <= e THEN e ELSE n)
  <2>1. n \in D /\ n \in Int /\ n <= key
    BY <1>2 DEF LastNode
  <2>2. CASE e <= key /\ n <= e
    <3>1. \A j \in E : j <= key => j <= e
      BY <1>2, <2>1, <2>2 DEF LastNode
    <3> QED
      BY <1>0, <2>2, <3>1 DEF LastNode
  <2>3. CASE e <= key /\ ~(n <= e)
    <3>1. n \in E
      BY <2>1, <2>3
    <3>2. \A j \in E : j <= key => j <= n
      BY <1>2, <2>1, <2>3 DEF LastNode
    <3> QED
      BY <2>1, <2>3, <3>1, <3>2 DEF LastNode
  <2>4. CASE key < b
    <3>1. n \in E /\ ~(e <= key)
      BY <2>1, <2>4
    <3>2. \A j \in E : j <= key => j <= n
      BY <1>2, <2>1, <2>4 DEF LastNode
    <3> QED
      BY <2>1, <3>1, <3>2 DEF LastNode
  <2> QED
    BY <1>2, <2>2, <2>3, <2>4
<1>3. ASSUME e <= key, \A n \in D : ~(n <= key) PROVE LastNode(E, key, e)
  BY <1>0, <1>3 DEF LastNode
<1>4. ASSUME key < b, \A n \in D : ~(n <= key) PROVE \A n \in E : ~(n <= key)
  BY <1>4
<1>5. HasLastNode(E, key)
  <2>1. CASE b <= key /\ key < e
    BY <1>1, <2>1 DEF HasLastNode
  <2>2. CASE ~(b <= key /\ key < e) /\ \E n \in D : n <= key
    <3>1. PICK n : LastNode(D, key, n)
      BY <2>2 DEF HasLastNode
    <3> QED
      BY <1>2, <2>2, <3>1 DEF HasLastNode
  <2>3. CASE e <= key /\ \A n \in D : ~(n <= key)
    BY <1>3, <2>3 DEF HasLastNode
  <2>4. CASE key < b /\ \A n \in D : ~(n <= key)
    BY <1>4, <2>4 DEF HasLastNode
  <2> QED
    BY <2>1, <2>2, <2>3, <2>4
<1> QED
  BY <1>1, <1>2, <1>3, <1>4, <1>5

-----------------------------------------------------------------------------
\* An assignment keeps the invariant: every key has a value of the right type, and the nodes
\* before it have a last one.
LEMMA AssignKeepsInv ==
  ASSUME MapInv, NEW b \in Keys, NEW e \in Keys, NEW v \in Values, Assign(b, e, v)
  PROVE  MapInv'
<1> DEFINE E == (DOMAIN m_map \ {k \in DOMAIN m_map : b < k /\ k <= e}) \cup {b, e}
<1>1. m_map' = [k \in E |-> IF k = e THEN LookUp(e) ELSE IF k = b THEN v ELSE m_map[k]]
  BY DEF Assign, Erased
<1>2. DOMAIN m_map' = E
  BY <1>1
<1>3. MapTypeOK'
  <2>1. m_valBegin' \in Values
    BY DEF Assign, MapInv, MapTypeOK
  <2>2. E \subseteq Keys
    BY DEF MapInv, MapTypeOK
  <2>3. \A k \in E : m_map'[k] \in Values
    BY <1>1, LookUpType DEF MapInv, MapTypeOK
  <2> QED
    BY <1>2, <2>1, <2>2, <2>3 DEF MapTypeOK
<1>4. ASSUME NEW k \in Keys PROVE HasLastNode(E, k)
  <2>1. DOMAIN m_map \in SUBSET Int /\ b \in Int /\ e \in Int /\ k \in Int /\ b < e
    BY KeysAssumption DEF MapInv, MapTypeOK, Assign
  <2>2. HasLastNode(DOMAIN m_map, k)
    BY DEF MapInv
  <2> QED
    BY <2>1, <2>2, NodesAfterAssign
<1> QED
  BY <1>2, <1>3, <1>4 DEF MapInv

\* The type of the map, and a last node before every key that has one, for any keys and values.
THEOREM MapInvariant == MapSpec => []MapInv
<1>1. MapInit => MapInv
  BY DEF MapInit, MapInv, MapTypeOK, HasLastNode
<1>2. MapInv /\ [MapNext]_mapVars => MapInv'
  <2> SUFFICES ASSUME MapInv, [MapNext]_mapVars PROVE MapInv'
    OBVIOUS
  <2>1. CASE MapNext
    BY <2>1, AssignKeepsInv DEF MapNext
  <2>2. CASE UNCHANGED mapVars
    BY <2>2 DEF mapVars, MapInv, MapTypeOK
  <2> QED
    BY <2>1, <2>2
<1> QED
  BY <1>1, <1>2, PTL DEF MapSpec

-----------------------------------------------------------------------------
\* An assignment changes the value of the keys of its interval, and of no other key.
LEMMA AssignAssigns ==
  ASSUME MapInv, NEW b \in Keys, NEW e \in Keys, NEW v \in Values, Assign(b, e, v),
         NEW key \in Keys
  PROVE  LookUp(key)' = IF b <= key /\ key < e THEN v ELSE LookUp(key)
<1> DEFINE D == DOMAIN m_map
           E == (D \ {k \in D : b < k /\ k <= e}) \cup {b, e}
<1>1. m_map' = [k \in E |-> IF k = e THEN LookUp(e) ELSE IF k = b THEN v ELSE m_map[k]]
  BY DEF Assign, Erased
<1>2. DOMAIN m_map' = E
  BY <1>1
<1>3. D \in SUBSET Int /\ b \in Int /\ e \in Int /\ key \in Int /\ b < e /\ E \subseteq Int
  BY KeysAssumption DEF MapInv, MapTypeOK, Assign
<1>4. HasLastNode(D, key) /\ HasLastNode(D, e)
  BY DEF MapInv
<1>5. /\ b <= key /\ key < e => LastNode(E, key, b)
      /\ \A n : ~(b <= key /\ key < e) /\ LastNode(D, key, n) =>
                  LastNode(E, key, IF e <= key /\ n <= e THEN e ELSE n)
      /\ e <= key /\ (\A n \in D : ~(n <= key)) => LastNode(E, key, e)
      /\ key < b /\ (\A n \in D : ~(n <= key)) => \A n \in E : ~(n <= key)
  BY <1>3, <1>4, NodesAfterAssign
<1>6. \A n : LastNode(E, key, n) => LookUp(key)' = m_map'[n]
  BY <1>2, <1>3, ValueAtNextNode
<1>7. CASE b <= key /\ key < e
  <2>1. LastNode(E, key, b)
    BY <1>5, <1>7
  <2>2. LookUp(key)' = m_map'[b]
    BY <1>6, <2>1
  <2>3. m_map'[b] = v
    BY <1>1, <1>3
  <2> QED
    BY <1>7, <2>2, <2>3
<1>8. CASE ~(b <= key /\ key < e) /\ \E n \in D : n <= key
  <2>1. PICK n : LastNode(D, key, n)
    BY <1>4, <1>8 DEF HasLastNode
  <2>2. n \in D /\ n \in Int /\ n <= key /\ LookUp(key) = m_map[n]
    BY <1>3, <2>1, ValueAtNode DEF LastNode
  <2>3. CASE e <= key /\ n <= e
    <3>1. LastNode(D, e, n)
      BY <1>3, <2>1, <2>3 DEF LastNode
    <3>2. LookUp(e) = m_map[n]
      BY <1>3, <3>1, ValueAtNode
    <3>3. LookUp(key)' = m_map'[e]
      BY <1>5, <1>6, <1>8, <2>1, <2>3
    <3> QED
      BY <1>1, <1>8, <2>2, <3>2, <3>3
  <2>4. CASE ~(e <= key /\ n <= e)
    <3>1. LastNode(E, key, n)
      BY <1>5, <1>8, <2>1, <2>4
    <3>2. n \in E /\ n # e /\ n # b
      BY <1>3, <1>8, <2>2, <2>4, <3>1 DEF LastNode
    <3> QED
      BY <1>1, <1>6, <1>8, <2>2, <3>1, <3>2
  <2> QED
    BY <2>3, <2>4
<1>9. CASE e <= key /\ \A n \in D : ~(n <= key)
  <2>1. LookUp(key)' = m_map'[e]
    BY <1>5, <1>6, <1>9
  <2>2. \A n \in D : ~(n <= e)
    BY <1>3, <1>9
  <2>3. LookUp(key) = m_valBegin /\ LookUp(e) = m_valBegin
    BY <1>9, <2>2 DEF LookUp
  <2> QED
    BY <1>1, <1>3, <1>9, <2>1, <2>3
<1>10. CASE key < b /\ \A n \in D : ~(n <= key)
  <2>1. \A n \in E : ~(n <= key)
    BY <1>5, <1>10
  <2>2. LookUp(key)' = m_valBegin' /\ LookUp(key) = m_valBegin
    BY <1>2, <1>10, <2>1 DEF LookUp
  <2> QED
    BY <1>3, <1>10, <2>2 DEF Assign
<1> QED
  BY <1>3, <1>7, <1>8, <1>9, <1>10

\* The interval map implements the function of the keys: it begins as a constant one, and an
\* assignment is an assignment to the keys of the interval, for any keys and values.
THEOREM MapIsFunction == MapSpec => AssignsIntervals
<1>1. MapInit => Function!FunctionInit
  BY DEF MapInit, LookUp, Function!FunctionInit
<1>2. MapInv /\ [MapNext]_mapVars => [Function!FunctionNext]_([k \in Keys |-> LookUp(k)])
  <2> SUFFICES ASSUME MapInv, [MapNext]_mapVars
               PROVE  [Function!FunctionNext]_([k \in Keys |-> LookUp(k)])
    OBVIOUS
  <2>1. CASE MapNext
    <3>1. PICK b \in Keys, e \in Keys, v \in Values : Assign(b, e, v)
      BY <2>1 DEF MapNext
    <3>2. \A k \in Keys : LookUp(k)' = IF b <= k /\ k < e THEN v ELSE LookUp(k)
      BY <3>1, AssignAssigns
    <3>3. [k \in Keys |-> LookUp(k)]' =
            [k \in Keys |-> IF b <= k /\ k < e THEN v ELSE [j \in Keys |-> LookUp(j)][k]]
      BY <3>2
    <3> QED
      BY <3>3 DEF Function!FunctionNext, Function!AssignInterval
  <2>2. CASE UNCHANGED mapVars
    BY <2>2 DEF mapVars, LookUp, NodeBefore
  <2> QED
    BY <2>1, <2>2
<1> QED
  BY <1>1, <1>2, MapInvariant, PTL DEF MapSpec, AssignsIntervals, Function!FunctionSpec

-----------------------------------------------------------------------------
(* The picture sender *)

PictureTypes ==
  /\ picture_fileName \in Pictures \cup {NoFile}
  /\ toClient \in Seq(Piece)
  /\ sending \in Seq(Seq(Piece) \ {<<>>})
  /\ raw_image \in Seq(Element)

\* The datagrams of a picture are pieces, and there is one at least.
LEMMA SplitIsPieces ==
  ASSUME NEW p \in Pictures
  PROVE  /\ Pieces[p] \in Nat \ {0} /\ Split(p) \in Seq(Piece) \ {<<>>} /\ Len(Split(p)) = Pieces[p]
         /\ \A i \in 1 .. Pieces[p] : Split(p)[i] = Datagram(p, i)
  <1>1. Pieces[p] \in Nat \ {0}
    BY PiecesAssumption
  <1>2. \A i \in 1 .. Pieces[p] : Datagram(p, i) \in Piece
    BY <1>1, PiecesAssumption DEF Piece, Datagram
  <1>3. Split(p) \in Seq(Piece) /\ Len(Split(p)) = Pieces[p]
    BY <1>1, <1>2, IsASeq DEF Split
  <1> QED
    BY <1>1, <1>3 DEF Split

\* An image with a piece put into it is one again.
LEMMA ReplacedIsImage ==
  ASSUME NEW img \in Seq(Element), NEW d \in Piece
  PROVE  Replaced(img, d) \in Seq(Element)
  <1> DEFINE n == IF d.pos > Len(img) THEN d.pos ELSE Len(img)
             at(i) == IF i = d.pos THEN Put(img, d) ELSE Kept(img, d, i)
  <1>1. n \in Nat /\ DOMAIN img = 1 .. Len(img) /\ Len(img) \in Nat
    BY DEF Piece
  <1>2. Replaced(img, d) = [i \in 1 .. n |-> at(i)]
    BY DEF Replaced
  <1>3. \A length \in 1 .. DATAGRAM_SIZE, pos \in Nat : Mixed(pos, length) \in Element
    BY DEF Mixed, Element
  <1>4. DATAGRAM_SIZE \in 1 .. DATAGRAM_SIZE
    BY PiecesAssumption
  <1>5. ASSUME NEW i \in DOMAIN img PROVE img[i] \in Element /\ img[i].length \in 1 .. DATAGRAM_SIZE
    <2>1. img[i] \in Element
      BY <1>1, <1>5, ElementOfSeq
    <2> QED BY <2>1 DEF Element
  <1>6. Put(img, d) \in Element
    BY <1>3, <1>5 DEF Put, Piece, Element
  <1>7. \A i \in 1 .. n : Kept(img, d, i) \in Element
    BY <1>1, <1>3, <1>4, <1>5 DEF Kept, Blank
  <1>8. \A i \in 1 .. n : at(i) \in Element
    BY <1>6, <1>7
  <1> HIDE DEF n, at
  <1>9. [i \in 1 .. n |-> at(i)] \in Seq(Element)
    BY <1>1, <1>8, IsASeq
  <1> QED
    BY <1>2, <1>9

LEMMA NextKeepsTypes == PictureTypes /\ [UdpNext]_udpVars => PictureTypes'
  <1> SUFFICES ASSUME PictureTypes, [UdpNext]_udpVars PROVE PictureTypes'
    OBVIOUS
  <1> USE DEF PictureTypes
  <1>1. CASE StartClicked
    BY <1>1 DEF StartClicked, server
  <1>2. CASE ClientReceive
    <2> DEFINE d     == Head(toClient)
               img == Replaced(raw_image, d)
    <2>1. d \in Piece /\ Tail(toClient) \in Seq(Piece)
      BY <1>2 DEF ClientReceive
    <2>2. img \in Seq(Element)
      BY <2>1, ReplacedIsImage
    <2>3. raw_image' \in {img, <<>>} /\ toClient' = Tail(toClient) /\ UNCHANGED server
      BY <1>2 DEF ClientReceive
    <2> HIDE DEF d, img
    <2>4. CASE raw_image' = img
      BY <2>1, <2>2, <2>3, <2>4 DEF server
    <2>5. CASE raw_image' = <<>>
      BY <2>1, <2>3, <2>5 DEF server
    <2> QED BY <2>3, <2>4, <2>5
  <1>3. CASE ServerReceive
    <2>1. sending' \in Seq(Seq(Piece) \ {<<>>})
      BY <1>3, SplitIsPieces DEF ServerReceive
    <2> QED BY <1>3, <2>1 DEF ServerReceive, client
  <1>4. CASE WriteDatagram
    <2> DEFINE top == Len(sending)
    <2>1. top \in 1 .. Len(sending) /\ sending[top] \in Seq(Piece) \ {<<>>}
      BY <1>4 DEF WriteDatagram
    <2>2. toClient' \in Seq(Piece)
      BY <1>4, <2>1 DEF WriteDatagram
    <2>3. sending' \in Seq(Seq(Piece) \ {<<>>})
      <3>1. CASE Len(sending[top]) = 1
        BY <1>4, <2>1, <3>1 DEF WriteDatagram
      <3>2. CASE Len(sending[top]) # 1
        <4>1. Tail(sending[top]) \in Seq(Piece) \ {<<>>}
          <5> DEFINE call == sending[top]
          <5>1. call \in Seq(Piece) /\ call # <<>> /\ Len(call) # 1
            BY <2>1, <3>2
          <5> HIDE DEF call
          <5>2. Tail(call) \in Seq(Piece) /\ Len(Tail(call)) = Len(call) - 1 /\ Len(call) \in Nat
            BY <5>1
          <5>3. Len(Tail(call)) # 0
            BY <5>1, <5>2
          <5>4. Tail(call) # <<>>
            BY <5>3, EmptySeq
          <5> QED BY <5>2, <5>4 DEF call
        <4>2. sending' = [sending EXCEPT ![top] = Tail(sending[top])]
          BY <1>4, <3>2 DEF WriteDatagram
        <4> QED BY <2>1, <4>1, <4>2, ExceptSeq
      <3> QED BY <3>1, <3>2
    <2> QED BY <1>4, <2>2, <2>3 DEF WriteDatagram, client
  <1>5. CASE \E p \in Pictures \cup {NoFile} : ChangePicturePath(p)
    BY <1>5 DEF ChangePicturePath, client
  <1>6. CASE \E i \in DOMAIN toClient : DatagramLost(i) \/ DatagramOvertaken(i)
    <2>1. PICK i \in DOMAIN toClient : DatagramLost(i) \/ DatagramOvertaken(i)
      BY <1>6
    <2>2. toClient' \in Seq(Piece)
      <3>1. CASE DatagramLost(i)
        BY <2>1, <3>1 DEF DatagramLost, Without
      <3>2. CASE DatagramOvertaken(i)
        BY <3>2 DEF DatagramOvertaken
      <3> QED BY <2>1, <3>1, <3>2
    <2> QED BY <2>1, <2>2 DEF DatagramLost, DatagramOvertaken, server, client
  <1>7. CASE UNCHANGED udpVars
    BY <1>7 DEF udpVars
  <1> QED
    BY <1>1, <1>2, <1>3, <1>4, <1>5, <1>6, <1>7 DEF UdpNext

-----------------------------------------------------------------------------
\* The pieces from number n + 1 on are those of p.
Continues(s, p, n) == \A i \in 1 .. Len(s) : s[i] = Datagram(p, n + i)

\* The client has the first pieces of p, the next are under way, and the last are to be written.
OnTheWay(p) ==
  LET had == Len(raw_image)
      out == Len(raw_image) + Len(toClient)
  IN  /\ Continues(raw_image, p, 0) /\ Continues(toClient, p, had)
      /\ \/ sending = <<>> /\ out = Pieces[p]
         \/ Len(sending) = 1 /\ Continues(sending[1], p, out) /\ out + Len(sending[1]) = Pieces[p]

\* Without a fault there is one request at most, and one picture follows it.
OneRequest ==
  /\ ~image_recived
  /\ toClient = <<>> /\ sending = <<>> /\ raw_image = <<>>
  /\ toServer # 0 => toServer = 1 /\ ~start_enabled

OnePicture ==
  /\ ~start_enabled /\ toServer = 0
  /\ \E p \in Pictures :
       /\ OnTheWay(p)
       /\ image_recived => completed_image = Split(p) /\ toClient = <<>> /\ sending = <<>>

FaultlessInv == PictureTypes /\ faults \in Nat /\ (faults = 0 => OneRequest \/ OnePicture)

\* The next piece of a picture is put behind those that are there, none of which is the last one.
LEMMA NextPiece ==
  ASSUME NEW p \in Pictures, NEW img \in Seq(Element), Continues(img, p, 0), Len(img) < Pieces[p],
         NEW d \in Piece, d = Datagram(p, Len(img) + 1)
  PROVE  /\ Replaced(img, d) \in Seq(Piece) /\ Continues(Replaced(img, d), p, 0)
         /\ Len(Replaced(img, d)) = Len(img) + 1
  <1> DEFINE n == Len(img) + 1
  <1>1. n \in Nat /\ d.pos = n /\ d.pos > Len(img) /\ DOMAIN img = 1 .. Len(img) /\ Len(img) \in Nat
    BY DEF Datagram
  <1>2. Replaced(img, d) = [i \in 1 .. n |-> IF i = n THEN Put(img, d) ELSE Kept(img, d, i)]
    BY <1>1 DEF Replaced
  <1>3. Put(img, d) = Datagram(p, n)
    BY <1>1 DEF Put
  <1>4. ASSUME NEW i \in 1 .. n, i # n PROVE Kept(img, d, i) = Datagram(p, i)
    <2>1. i \in 1 .. Len(img) /\ i # Pieces[p]
      BY <1>1, <1>4, PiecesAssumption
    <2>2. img[i] = Datagram(p, i)
      BY <2>1 DEF Continues
    <2>3. img[i].length = DATAGRAM_SIZE /\ DATAGRAM_SIZE \in Nat
      BY <2>1, <2>2, PiecesAssumption DEF Datagram
    <2> QED BY <1>1, <2>1, <2>2, <2>3 DEF Kept
  <1>5. Replaced(img, d) = [i \in 1 .. n |-> Datagram(p, i)]
    BY <1>2, <1>3, <1>4
  <1>6. \A i \in 1 .. n : Datagram(p, i) \in Piece
    BY <1>1, PiecesAssumption DEF Piece, Datagram
  <1>7. [i \in 1 .. n |-> Datagram(p, i)] \in Seq(Piece)
    BY <1>1, <1>6, IsASeq
  <1>8. Len([i \in 1 .. n |-> Datagram(p, i)]) = n
    BY <1>1
  <1> QED
    BY <1>1, <1>5, <1>7, <1>8 DEF Continues

\* All the pieces of a picture are the picture.
LEMMA AllPieces ==
  ASSUME NEW p \in Pictures, NEW img \in Seq(Piece), Continues(img, p, 0), Len(img) = Pieces[p]
  PROVE  img = Split(p) /\ Decodes(img) = {TRUE}
  <1>0. /\ Pieces[p] \in Nat \ {0} /\ DOMAIN img = 1 .. Pieces[p]
        /\ \A i \in 1 .. Pieces[p] : img[i] = Datagram(p, i)
    BY SplitIsPieces DEF Continues
  <1>1. img = Split(p)
    <2>1. Split(p) \in Seq(Piece) /\ Len(Split(p)) = Len(img) /\ Len(img) = Pieces[p]
      BY SplitIsPieces
    <2>2. \A i \in 1 .. Len(img) : img[i] = Split(p)[i]
      BY <1>0, <2>1, SplitIsPieces
    <2> QED BY <2>1, <2>2, SeqEqual
  <1>2. ASSUME NEW i \in DOMAIN img PROVE img[i] # Blank
    <2>1. i \in 1 .. Pieces[p] /\ i # 0
      BY <1>0
    <2>2. img[i] = Datagram(p, i)
      BY <1>0, <2>1
    <2>3. img[i].pos # 0
      BY <2>1, <2>2 DEF Datagram
    <2> QED BY <2>3 DEF Blank, Mixed
  <1>3. Selected(img, {i \in DOMAIN img : img[i] # Blank}) = img
    BY <1>2, SelectedAll
  <1> QED
    BY <1>1, <1>3 DEF Decodes

LEMMA ReceivingKeepsPicture ==
  ASSUME PictureTypes, faults = 0, OnePicture, ClientReceive
  PROVE  OnePicture'
  <1>1. PICK p \in Pictures : /\ OnTheWay(p)
                              /\ image_recived => completed_image = Split(p) /\ toClient = <<>> /\ sending = <<>>
    BY DEF OnePicture
  <1> DEFINE d     == Head(toClient)
             img == Replaced(raw_image, d)
             n     == Len(raw_image)
  <1>2. toClient \in Seq(Piece) /\ toClient # <<>> /\ d \in Piece /\ Tail(toClient) \in Seq(Piece)
    BY DEF ClientReceive, PictureTypes
  <1>3. d = Datagram(p, n + 1)
    <2>1. d = toClient[1] /\ 1 \in 1 .. Len(toClient)
      BY <1>2
    <2> HIDE DEF d
    <2> QED BY <1>1, <2>1 DEF OnTheWay, Continues
  <1>4. raw_image \in Seq(Element) /\ Continues(raw_image, p, 0)
    BY <1>1 DEF PictureTypes, OnTheWay
  <1>0. n < Pieces[p]
    <2>1. n \in Nat /\ Len(toClient) \in Nat \ {0}
      BY <1>2, <1>4, EmptySeq
    <2>2. CASE sending = <<>>
      <3>1. n + Len(toClient) = Pieces[p]
        BY <1>1, <2>2 DEF OnTheWay
      <3> QED BY <2>1, <3>1
    <2>3. CASE sending # <<>>
      <3>1. Len(sending) = 1 /\ n + Len(toClient) + Len(sending[1]) = Pieces[p]
        BY <1>1, <2>3 DEF OnTheWay
      <3>2. sending[1] \in Seq(Piece)
        <4>1. sending \in Seq(Seq(Piece) \ {<<>>}) /\ 1 \in 1 .. Len(sending)
          BY <3>1 DEF PictureTypes
        <4> QED BY <4>1, ElementOfSeq
      <3>3. Len(sending[1]) \in Nat
        BY <3>2
      <3> QED BY <2>1, <3>1, <3>3
    <2> QED BY <2>2, <2>3
  <1>5. img \in Seq(Piece) /\ Continues(img, p, 0) /\ Len(img) = n + 1
    <2> HIDE DEF d
    <2> QED BY <1>0, <1>2, <1>3, <1>4, NextPiece
  <1>6. Continues(Tail(toClient), p, n + 1) /\ Len(Tail(toClient)) = Len(toClient) - 1
    <2>1. Len(Tail(toClient)) = Len(toClient) - 1 /\ n \in Nat /\ Len(toClient) \in Nat
      BY <1>2, <1>4
    <2>2. ASSUME NEW i \in 1 .. Len(Tail(toClient))
          PROVE  Tail(toClient)[i] = Datagram(p, (n + 1) + i)
      <3>1. Tail(toClient)[i] = toClient[i + 1] /\ i + 1 \in 1 .. Len(toClient)
        BY <1>2
      <3>2. toClient[i + 1] = Datagram(p, n + (i + 1))
        BY <1>1, <3>1 DEF OnTheWay, Continues
      <3>3. n + (i + 1) = (n + 1) + i
        BY <2>1
      <3> QED BY <3>1, <3>2, <3>3
    <2> QED BY <2>1, <2>2 DEF Continues
  <1>7. n \in Nat /\ Len(toClient) \in Nat /\ Pieces[p] \in Nat \ {0}
    BY <1>2, <1>4, PiecesAssumption
  <1>8. /\ ~image_recived /\ toClient' = Tail(toClient)
        /\ sending' = sending /\ toServer' = toServer
    BY <1>1, <1>2 DEF ClientReceive, server
  <1>9. ASSUME raw_image' = img PROVE OnTheWay(p)'
    <2>1. /\ Len(raw_image') = n + 1 /\ Len(toClient') = Len(toClient) - 1
          /\ Len(raw_image') + Len(toClient') = n + Len(toClient)
      <3> HIDE DEF d, img, n
      <3>1. Len(raw_image') = n + 1
        BY <1>5, <1>9
      <3>2. Len(toClient') = Len(toClient) - 1
        BY <1>6, <1>8
      <3> QED BY <1>7, <3>1, <3>2
    <2>2. Continues(raw_image', p, 0) /\ Continues(toClient', p, Len(raw_image'))
      BY <1>5, <1>6, <1>8, <1>9, <2>1
    <2> HIDE DEF d, img
    <2> QED BY <1>1, <1>8, <2>1, <2>2 DEF OnTheWay
  <1>10. CASE ~IsComplete(img, d)
    <2>1. raw_image' = img /\ UNCHANGED <<image_recived, completed_image, start_enabled>>
      BY <1>10 DEF ClientReceive
    <2> HIDE DEF d, img
    <2>2. OnTheWay(p)'
      BY <1>9, <2>1
    <2> QED BY <1>8, <2>1, <2>2 DEF OnePicture
  <1>11. CASE IsComplete(img, d)
    <2>1. Len(img) = Pieces[p]
      BY <1>3, <1>11 DEF IsComplete, Datagram
    <2>2. img = Split(p) /\ Decodes(img) = {TRUE}
      <3> HIDE DEF d, img
      <3> QED BY <1>5, <2>1, AllPieces
    <2>3. /\ raw_image' = img /\ completed_image' = img /\ start_enabled' = start_enabled
          /\ image_recived' = TRUE
      BY <1>11, <2>2 DEF ClientReceive
    <2> HIDE DEF d, img
    <2>4. OnTheWay(p)'
      BY <1>9, <2>3
    <2>5. sending = <<>>
      <3>1. SUFFICES ASSUME Len(sending) = 1, n + Len(toClient) + Len(sending[1]) = Pieces[p] PROVE FALSE
        BY <1>1 DEF OnTheWay
      <3>2. Len(sending[1]) \in Nat /\ Len(sending[1]) # 0
        <4>1. sending[1] \in Seq(Piece) /\ sending[1] # <<>>
          <5>1. sending \in Seq(Seq(Piece) \ {<<>>}) /\ 1 \in 1 .. Len(sending)
            BY <3>1 DEF PictureTypes
          <5> QED BY <5>1, ElementOfSeq
        <4> QED BY <4>1, EmptySeq
      <3>3. Len(toClient) # 0
        BY <1>2, EmptySeq
      <3> QED BY <1>5, <1>7, <2>1, <3>1, <3>2, <3>3
    <2>6. toClient' = <<>>
      <3>1. n + Len(toClient) = Pieces[p]
        BY <1>1, <2>5 DEF OnTheWay
      <3>2. Len(Tail(toClient)) = 0
        <4> HIDE DEF d, img, n
        <4>1. n + 1 = Pieces[p]
          BY <1>5, <2>1
        <4>2. Len(toClient) = 1
          <5>1. n + Len(toClient) = n + 1
            BY <3>1, <4>1
          <5>2. n \in Nat /\ Len(toClient) \in Nat
            BY <1>7
          <5>3. \A a, b \in Nat : a + b = a + 1 => b = 1
            OBVIOUS
          <5> QED BY <5>1, <5>2, <5>3
        <4> QED BY <1>6, <4>2
      <3> QED BY <1>2, <1>8, <3>2, EmptySeq
    <2> QED BY <1>8, <2>2, <2>3, <2>4, <2>5, <2>6 DEF OnePicture
  <1> QED
    BY <1>10, <1>11

LEMMA NextKeepsPicture == FaultlessInv /\ [UdpNext]_udpVars => FaultlessInv'
  <1> SUFFICES ASSUME FaultlessInv, [UdpNext]_udpVars PROVE FaultlessInv'
    OBVIOUS
  <1>1. PictureTypes /\ PictureTypes'
    BY NextKeepsTypes DEF FaultlessInv
  <1>2. faults \in Nat /\ faults' \in Nat /\ faults <= faults'
    <2>1. faults' = faults \/ faults' = faults + 1
      <3>1. ClientReceive => faults' = faults
        BY DEF ClientReceive
      <3>2. StartClicked \/ ServerReceive \/ WriteDatagram => faults' = faults
        BY DEF StartClicked, ServerReceive, WriteDatagram
      <3>3. \A q : ChangePicturePath(q) => faults' = faults
        BY DEF ChangePicturePath
      <3>4. \A i : DatagramLost(i) \/ DatagramOvertaken(i) => faults' = faults + 1
        BY DEF DatagramLost, DatagramOvertaken
      <3> QED BY <3>1, <3>2, <3>3, <3>4 DEF UdpNext, udpVars
    <2> QED BY <2>1 DEF FaultlessInv
  <1> SUFFICES ASSUME faults' = 0 PROVE (OneRequest \/ OnePicture)'
    BY <1>1, <1>2 DEF FaultlessInv
  <1>3. faults = 0 /\ (OneRequest \/ OnePicture)
    BY <1>2 DEF FaultlessInv
  <1>4. CASE StartClicked
    BY <1>3, <1>4 DEF StartClicked, server, OneRequest, OnePicture
  <1>5. CASE ClientReceive
    <2>1. OnePicture
      BY <1>3, <1>5 DEF OneRequest, ClientReceive
    <2> QED BY <1>1, <1>3, <1>5, <2>1, ReceivingKeepsPicture
  <1>6. CASE ServerReceive
    <2>1. OneRequest /\ toServer = 1 /\ ~start_enabled /\ toServer' = 0
      BY <1>3, <1>6 DEF ServerReceive, OneRequest, OnePicture
    <2>2. CASE picture_fileName = NoFile
      BY <1>6, <2>1, <2>2 DEF ServerReceive, OneRequest, client
    <2>3. CASE picture_fileName # NoFile
      <3>0. PICK p \in Pictures : p = picture_fileName
        BY <1>1, <2>3 DEF PictureTypes
      <3>1. sending' = <<Split(p)>> /\ UNCHANGED <<toClient, client>>
        BY <1>6, <2>1, <2>3, <3>0 DEF ServerReceive, OneRequest
      <3>2. /\ raw_image' = <<>> /\ toClient' = <<>> /\ ~image_recived' /\ ~start_enabled'
            /\ Len(sending') = 1 /\ sending'[1] = Split(p)
        BY <2>1, <3>1 DEF OneRequest, client
      <3>3. Pieces[p] \in Nat /\ Len(Split(p)) = Pieces[p] /\ Continues(Split(p), p, 0)
        BY SplitIsPieces DEF Continues
      <3>4. Continues(<<>>, p, 0)
        BY DEF Continues
      <3>5. Len(raw_image') = 0 /\ Len(raw_image') + Len(toClient') = 0
        BY <3>2
      <3>6. Len(raw_image') + Len(toClient') + Len(sending'[1]) = Pieces[p]
        BY <3>2, <3>3, <3>5
      <3>7. /\ Continues(raw_image', p, 0) /\ Continues(toClient', p, Len(raw_image'))
            /\ Continues(sending'[1], p, Len(raw_image') + Len(toClient'))
        BY <3>2, <3>3, <3>4, <3>5
      <3>8. OnTheWay(p)'
        BY <3>2, <3>6, <3>7 DEF OnTheWay
      <3> QED BY <2>1, <3>2, <3>8 DEF OnePicture
    <2> QED BY <2>2, <2>3
  <1>7. CASE WriteDatagram
    <2>1. OnePicture /\ sending # <<>>
      BY <1>3, <1>7 DEF OneRequest, WriteDatagram
    <2>2. PICK p \in Pictures : OnTheWay(p) /\ ~image_recived
      BY <2>1 DEF OnePicture
    <2> DEFINE call == sending[1]
               n    == Len(raw_image)
               m    == Len(toClient)
    <2>3. Len(sending) = 1 /\ Continues(call, p, n + m) /\ n + m + Len(call) = Pieces[p]
      BY <2>1, <2>2 DEF OnTheWay
    <2>4. /\ call \in Seq(Piece) /\ call # <<>> /\ toClient \in Seq(Piece)
          /\ n \in Nat /\ m \in Nat
      <3>1. sending \in Seq(Seq(Piece) \ {<<>>}) /\ 1 \in 1 .. Len(sending)
        BY <1>1, <2>3 DEF PictureTypes
      <3>2. toClient \in Seq(Piece) /\ raw_image \in Seq(Element)
        BY <1>1 DEF PictureTypes
      <3> QED BY <3>1, <3>2, ElementOfSeq
    <2>5. /\ toClient' = Append(toClient, Head(call))
          /\ sending' = IF Len(call) = 1 THEN <<>> ELSE <<Tail(call)>>
          /\ UNCHANGED <<picture_fileName, toServer, client, faults, changes>>
      <3>1. sending = <<call>>
        BY <1>1, <2>3 DEF PictureTypes
      <3>2. Tail(call) \in Seq(Piece)
        BY <2>4
      <3> HIDE DEF call
      <3>3. /\ Len(<<call>>) = 1 /\ <<call>>[1] = call /\ SubSeq(<<call>>, 1, 0) = <<>>
            /\ [<<call>> EXCEPT ![1] = Tail(call)] = <<Tail(call)>>
        <4>1. SubSeq(<<call>>, 1, 0) = <<>>
          BY SubSeqEmpty
        <4> QED BY <4>1
      <3>4. /\ toClient' = Append(toClient, Head(sending[Len(sending)]))
            /\ sending' = IF Len(sending[Len(sending)]) = 1 THEN SubSeq(sending, 1, Len(sending) - 1)
                          ELSE [sending EXCEPT ![Len(sending)] = Tail(@)]
            /\ UNCHANGED <<picture_fileName, toServer, client, faults, changes>>
        BY <1>7 DEF WriteDatagram
      <3>5. Len(sending) = 1 /\ sending[1] = call /\ 1 - 1 = 0
        BY <3>1, <3>3
      <3> QED BY <3>1, <3>3, <3>4, <3>5
    <2> HIDE DEF call
    <2>6. Len(call) \in Nat /\ Len(call) # 0 /\ Head(call) = Datagram(p, n + m + 1)
      <3>1. Len(call) \in Nat /\ Len(call) # 0
        BY <2>4, EmptySeq
      <3>2. Head(call) = call[1] /\ 1 \in 1 .. Len(call)
        BY <2>4, <3>1
      <3> QED BY <2>3, <3>1, <3>2 DEF Continues
    <2>7. Len(toClient') = m + 1 /\ Continues(toClient', p, n)
      <3>1. Len(toClient') = m + 1 /\ toClient'[m + 1] = Head(call)
        BY <2>4, <2>5, <2>6, AppendProperties
      <3>2. \A i \in 1 .. m : toClient'[i] = toClient[i]
        BY <2>4, <2>5, AppendProperties
      <3>3. Continues(toClient, p, n)
        BY <2>2 DEF OnTheWay
      <3>4. n + (m + 1) = n + m + 1
        BY <2>4
      <3> HIDE DEF n, m
      <3>5. ASSUME NEW i \in 1 .. m + 1 PROVE toClient'[i] = Datagram(p, n + i)
        <4>1. CASE i = m + 1
          BY <2>6, <3>1, <3>4, <4>1
        <4>2. CASE i # m + 1
          <5>1. i \in 1 .. m
            BY <2>4, <4>2
          <5> QED BY <3>2, <3>3, <5>1 DEF Continues, m
        <4> QED BY <4>1, <4>2
      <3> QED BY <3>1, <3>5 DEF Continues
    <2>8. raw_image' = raw_image /\ ~image_recived' /\ start_enabled' = start_enabled /\ toServer' = toServer
      BY <2>2, <2>5 DEF client
    <2>9. n + (m + 1) = n + m + 1 /\ n + m + Len(call) = Pieces[p]
      BY <2>3, <2>4
    <2>10. \/ sending' = <<>> /\ n + m + 1 = Pieces[p]
           \/ Len(sending') = 1 /\ Continues(sending'[1], p, n + m + 1) /\ n + m + 1 + Len(sending'[1]) = Pieces[p]
      <3>1. CASE Len(call) = 1
        <4> HIDE DEF n, m
        <4>1. n + m + 1 = Pieces[p]
          BY <2>9, <3>1
        <4>2. sending' = <<>>
          BY <2>5, <3>1
        <4> QED BY <4>1, <4>2
      <3>2. CASE Len(call) # 1
        <4> DEFINE rest == Tail(call)
        <4>1. /\ Len(rest) = Len(call) - 1
              /\ \A i \in 1 .. Len(rest) : rest[i] = call[i + 1] /\ i + 1 \in 1 .. Len(call)
          BY <2>4, <2>6
        <4>2. sending' = <<rest>>
          BY <2>5, <3>2
        <4> HIDE DEF rest, n, m
        <4>3. Len(sending') = 1 /\ sending'[1] = rest
          BY <4>2
        <4>4. ASSUME NEW i \in 1 .. Len(rest) PROVE rest[i] = Datagram(p, n + m + 1 + i)
          <5>1. rest[i] = Datagram(p, n + m + (i + 1))
            BY <2>3, <4>1 DEF Continues
          <5>2. n + m + (i + 1) = n + m + 1 + i
            BY <2>4
          <5> QED BY <5>1, <5>2
        <4>5. n + m + 1 + Len(rest) = n + m + Len(call)
          BY <2>4, <2>6, <4>1
        <4> QED BY <2>9, <4>3, <4>4, <4>5 DEF Continues
      <3> QED BY <3>1, <3>2
    <2>11. OnTheWay(p)'
      <3>1. Continues(raw_image, p, 0)
        BY <2>2 DEF OnTheWay
      <3>2. Len(raw_image') = n /\ Len(raw_image') + Len(toClient') = n + m + 1
        BY <2>7, <2>8, <2>9
      <3> HIDE DEF n, m
      <3> QED BY <2>7, <2>8, <2>10, <3>1, <3>2 DEF OnTheWay
    <2> QED BY <2>1, <2>8, <2>11 DEF OnePicture
  <1>8. CASE \E q \in Pictures \cup {NoFile} : ChangePicturePath(q)
    <2>1. UNCHANGED <<sending, toServer, toClient, client>>
      BY <1>8 DEF ChangePicturePath
    <2> QED BY <1>3, <2>1 DEF client, OneRequest, OnePicture, OnTheWay
  <1>9. CASE \E i \in DOMAIN toClient : DatagramLost(i) \/ DatagramOvertaken(i)
    BY <1>2, <1>3, <1>9 DEF DatagramLost, DatagramOvertaken
  <1>10. CASE UNCHANGED udpVars
    BY <1>3, <1>10 DEF udpVars, OneRequest, OnePicture, OnTheWay
  <1> QED
    BY <1>4, <1>5, <1>6, <1>7, <1>8, <1>9, <1>10 DEF UdpNext

\* Without a fault of the network what is shown is one whole picture, although the file may be
\* changed while it is sent (UDPserver::loadPicture, UDPclient::clientReceive).
THEOREM FaultlessPictures == UdpSpec => []FaultlessPictureIsWhole
  <1>1. UdpInit => FaultlessInv
    <2>1. UdpInit => PictureTypes
      BY DEF UdpInit, PictureTypes
    <2>2. UdpInit => OneRequest /\ faults \in Nat
      BY DEF UdpInit, OneRequest
    <2> QED BY <2>1, <2>2 DEF FaultlessInv
  <1>2. FaultlessInv => FaultlessPictureIsWhole
    BY DEF FaultlessInv, OneRequest, OnePicture, FaultlessPictureIsWhole
  <1> QED
    BY <1>1, <1>2, NextKeepsPicture, PTL DEF UdpSpec

-----------------------------------------------------------------------------
(* The trade engine *)

\* A side of the market: orders that are worth something and have arrived before.
Resting(s) == s \in Seq(Order) /\ \A i \in DOMAIN s : s[i].quantity > 0 /\ s[i].seq < arrived

\* The order in which each side is matched.
SellersInOrder(s) ==
  \A i, j \in DOMAIN s : i < j =>
    \/ s[i].price < s[j].price
    \/ s[i].price = s[j].price /\ s[i].seq < s[j].seq

BuyersInOrder(s) ==
  \A i, j \in DOMAIN s : i < j => s[i].price >= s[j].price

MarketInv ==
  /\ arrived \in Nat
  /\ Resting(sell) /\ Resting(buy)
  /\ MatchingOrder /\ NotCrossed

\* The records of a walk over n resting orders.
IsWalk(walk, resting, aggressor, n) ==
  walk = [i \in 0 .. n |->
            IF i = 0 THEN [given |-> <<>>, traded |-> 0, report |-> <<>>, over |-> FALSE]
            ELSE Visited(walk[i - 1], resting[i], aggressor)]

\* There is such a walk: one that ends at m is continued to m + 1.
LEMMA WalkExists ==
  ASSUME NEW resting, NEW aggressor, NEW n \in Nat
  PROVE  \E walk : IsWalk(walk, resting, aggressor, n)
  <1> DEFINE Ends == {m \in 0 .. n : \E walk : IsWalk(walk, resting, aggressor, m)}
             start == [given |-> <<>>, traded |-> 0, report |-> <<>>, over |-> FALSE]
  <1>1. 0 \in Ends
    <2> DEFINE walk == [i \in 0 .. 0 |-> start]
    <2>1. \A i \in 0 .. 0 : i = 0
      OBVIOUS
    <2>2. IsWalk(walk, resting, aggressor, 0)
      BY <2>1 DEF IsWalk
    <2> HIDE DEF walk
    <2> QED BY <2>2
  <1>2. ASSUME NEW m \in 0 .. n - 1, m \in Ends PROVE m + 1 \in Ends
    <2>1. PICK walk : IsWalk(walk, resting, aggressor, m)
      BY <1>2
    <2> DEFINE last == Visited(walk[m], resting[m + 1], aggressor)
               more == [i \in 0 .. m + 1 |-> IF i <= m THEN walk[i] ELSE last]
    <2> HIDE DEF last, start
    <2>2. ASSUME NEW i \in 0 .. m + 1
          PROVE  more[i] = IF i = 0 THEN start ELSE Visited(more[i - 1], resting[i], aggressor)
      <3>1. CASE i = 0
        BY <2>1, <3>1 DEF IsWalk, start
      <3>2. CASE i \in 1 .. m
        <4>1. i \in 0 .. m /\ i - 1 \in 0 .. m /\ i - 1 \in 0 .. m + 1 /\ i <= m /\ i - 1 <= m /\ i # 0
          BY <3>2
        <4>2. more[i] = walk[i] /\ more[i - 1] = walk[i - 1]
          BY <4>1
        <4>3. walk[i] = Visited(walk[i - 1], resting[i], aggressor)
          BY <2>1, <4>1 DEF IsWalk
        <4> HIDE DEF more
        <4> QED BY <4>1, <4>2, <4>3
      <3>3. CASE i = m + 1
        <4>1. more[i] = last /\ more[i - 1] = walk[m] /\ i # 0
          BY <3>3
        <4> HIDE DEF more
        <4> QED BY <3>3, <4>1 DEF last
      <3> QED BY <3>1, <3>2, <3>3
    <2>3. IsWalk(more, resting, aggressor, m + 1)
      BY <2>2 DEF IsWalk, start
    <2> HIDE DEF more
    <2> QED BY <2>3
  <1>3. 0 .. n \subseteq Ends
    <2> HIDE DEF Ends
    <2> QED BY <1>1, <1>2, UpTo
  <1> QED
    BY <1>3

\* What is known of the walk after i orders: nobody has given more than they have, nor all together
\* more than is wanted; and while something is still wanted, all that match have given everything.
Afterwards(w, resting, aggressor, i) ==
  /\ \E R : w \in [given : Seq(Nat), traded : Nat, report : R, over : BOOLEAN]
  /\ Len(w.given) = i
  /\ w.traded <= aggressor.quantity
  /\ \A j \in 1 .. i : w.given[j] <= resting[j].quantity
  /\ w.over => w.traded = aggressor.quantity
  /\ ~w.over => \A j \in 1 .. i : Matches(resting[j], aggressor) => w.given[j] = resting[j].quantity

LEMMA VisitedAfterwards ==
  ASSUME NEW resting \in Seq(Order), NEW aggressor \in Order, NEW i \in 0 .. Len(resting) - 1, NEW w,
         Afterwards(w, resting, aggressor, i)
  PROVE  Afterwards(Visited(w, resting[i + 1], aggressor), resting, aggressor, i + 1)
  <1> DEFINE order == resting[i + 1]
             left  == aggressor.quantity - w.traded
             count == Smaller(left, order.quantity)
             after == Visited(w, order, aggressor)
  <1>1. i + 1 \in 1 .. Len(resting) /\ order \in Order /\ order.quantity \in Nat /\ i \in Nat
    <2>1. i + 1 \in 1 .. Len(resting)
      OBVIOUS
    <2>2. order \in Order
      BY <2>1, ElementOfSeq
    <2> HIDE DEF order
    <2> QED BY <2>1, <2>2 DEF Order
  <1>2. aggressor.quantity \in Nat /\ left \in Nat
    BY DEF Order, Afterwards
  <1>3. count \in Nat /\ count <= left /\ count <= order.quantity /\ (count = left \/ count = order.quantity)
    <2> HIDE DEF order, left
    <2> QED BY <1>1, <1>2 DEF Smaller
  <1>4. PICK R : w \in [given : Seq(Nat), traded : Nat, report : R, over : BOOLEAN]
    BY DEF Afterwards
  <1>5. CASE w.over \/ ~Matches(order, aggressor)
    <2>1. after = [w EXCEPT !.given = Append(@, 0)]
      BY <1>5 DEF Visited
    <2>2. Append(w.given, 0) \in Seq(Nat)
      BY <1>4
    <2> HIDE DEF after
    <2>3. /\ after \in [given : Seq(Nat), traded : Nat, report : R, over : BOOLEAN]
          /\ after.given = Append(w.given, 0) /\ after.traded = w.traded /\ after.over = w.over
      BY <1>4, <2>1, <2>2
    <2> HIDE DEF order
    <2>4. /\ after.given \in Seq(Nat) /\ Len(after.given) = i + 1 /\ after.given[i + 1] = 0
          /\ \A j \in 1 .. i : after.given[j] = w.given[j]
      BY <1>4, <2>3, AppendProperties DEF Afterwards
    <2>5. ASSUME NEW j \in 1 .. i + 1
          PROVE  /\ after.given[j] <= resting[j].quantity
                 /\ ~w.over /\ Matches(resting[j], aggressor) => after.given[j] = resting[j].quantity
      <3>1. CASE j = i + 1
        BY <1>1, <1>5, <2>4, <3>1 DEF order
      <3>2. CASE j # i + 1
        <4>1. j \in 1 .. i
          BY <1>1, <3>2
        <4> QED BY <2>4, <4>1 DEF Afterwards
      <3> QED BY <3>1, <3>2
    <2>7. Afterwards(after, resting, aggressor, i + 1)
      BY <2>3, <2>4, <2>5 DEF Afterwards
    <2> QED BY <2>7 DEF after, order
  <1>6. CASE ~w.over /\ Matches(order, aggressor)
    <2>1. \E new : after = [given |-> Append(w.given, count), traded |-> w.traded + count,
                            report |-> new, over |-> count = left]
      BY <1>6 DEF Visited
    <2> HIDE DEF after, count
    <2>2. PICK new : after = [given |-> Append(w.given, count), traded |-> w.traded + count,
                              report |-> new, over |-> count = left]
      BY <2>1
    <2>3. /\ after.given = Append(w.given, count) /\ after.traded = w.traded + count
          /\ after.over = (count = left) /\ after.report = new
      BY <2>2
    <2>4. /\ after.given \in Seq(Nat) /\ Len(after.given) = i + 1 /\ after.given[i + 1] = count
          /\ \A j \in 1 .. i : after.given[j] = w.given[j]
      <3>1. w.given \in Seq(Nat) /\ Len(w.given) = i
        BY <1>4 DEF Afterwards
      <3> HIDE DEF order
      <3> QED BY <1>3, <2>3, <3>1, AppendProperties
    <2>5. /\ after.traded \in Nat /\ after.traded <= aggressor.quantity
          /\ after.over => after.traded = aggressor.quantity
      BY <1>2, <1>3, <1>4, <2>3 DEF Afterwards
    <2>6. ASSUME NEW j \in 1 .. i + 1
          PROVE  /\ after.given[j] <= resting[j].quantity
                 /\ ~after.over /\ Matches(resting[j], aggressor) => after.given[j] = resting[j].quantity
      <3>1. CASE j = i + 1
        BY <1>3, <2>3, <2>4, <3>1
      <3>2. CASE j # i + 1
        <4>1. j \in 1 .. i
          BY <1>1, <3>2
        <4> QED BY <1>6, <2>4, <4>1 DEF Afterwards
      <3> QED BY <3>1, <3>2
    <2>7. (count = left) \in BOOLEAN
      OBVIOUS
    <2>8. after \in [given : Seq(Nat), traded : Nat, report : {new}, over : BOOLEAN]
      BY <2>2, <2>3, <2>4, <2>5, <2>7
    <2>9. Afterwards(after, resting, aggressor, i + 1)
      <3> HIDE DEF order
      <3> QED BY <2>4, <2>5, <2>6, <2>8 DEF Afterwards
    <2> QED BY <2>9 DEF after, order
  <1> QED
    BY <1>5, <1>6 DEF Afterwards

\* The whole walk.
LEMMA WalkAfterwards ==
  ASSUME NEW resting \in Seq(Order), NEW aggressor \in Order
  PROVE  Afterwards(Walk(resting, aggressor), resting, aggressor, Len(resting))
  <1> DEFINE n == Len(resting)
  <1>0. n \in Nat
    OBVIOUS
  <1>1. PICK walk : IsWalk(walk, resting, aggressor, n) /\ Walk(resting, aggressor) = walk[n]
    <2> DEFINE F == CHOOSE F : IsWalk(F, resting, aggressor, n)
    <2>1. IsWalk(F, resting, aggressor, n)
      <3> HIDE DEF F
      <3>1. \E x : IsWalk(x, resting, aggressor, n)
        BY <1>0, WalkExists
      <3> QED BY <3>1 DEF F
    <2>2. Walk(resting, aggressor) = F[n]
      BY DEF Walk, IsWalk
    <2> QED BY <2>1, <2>2
  <1> DEFINE Good == {i \in 0 .. n : Afterwards(walk[i], resting, aggressor, i)}
  <1>2. 0 \in Good
    <2> DEFINE start == [given |-> <<>>, traded |-> 0, report |-> <<>>, over |-> FALSE]
    <2>1. walk[0] = start /\ 0 \in 0 .. n
      BY <1>0, <1>1 DEF IsWalk
    <2>2. start \in [given : Seq(Nat), traded : Nat, report : {<<>>}, over : BOOLEAN]
      OBVIOUS
    <2>3. start.given = <<>> /\ start.traded = 0 /\ ~start.over /\ aggressor.quantity \in Nat
      BY DEF Order
    <2> HIDE DEF start
    <2>4. Afterwards(start, resting, aggressor, 0)
      BY <2>2, <2>3 DEF Afterwards
    <2> QED BY <2>1, <2>4
  <1>3. ASSUME NEW i \in 0 .. n - 1, i \in Good PROVE i + 1 \in Good
    <2>1. i + 1 \in 0 .. n /\ i + 1 # 0 /\ (i + 1) - 1 = i
      BY <1>0
    <2>2. walk[i + 1] = Visited(walk[i], resting[i + 1], aggressor)
      <3> DEFINE j == i + 1
      <3>1. j \in 0 .. n /\ j # 0 /\ j - 1 = i
        BY <2>1
      <3> HIDE DEF j, n
      <3>2. walk[j] = Visited(walk[j - 1], resting[j], aggressor)
        BY <1>1, <3>1 DEF IsWalk
      <3> QED BY <3>1, <3>2 DEF j
    <2>3. Afterwards(Visited(walk[i], resting[i + 1], aggressor), resting, aggressor, i + 1)
      BY <1>3, VisitedAfterwards
    <2> QED BY <2>1, <2>2, <2>3
  <1>4. n \in Good
    <2>1. 0 .. n \subseteq Good
      <3> HIDE DEF Good, n
      <3> QED BY <1>0, <1>2, <1>3, UpTo
    <2> QED BY <1>0, <2>1
  <1> QED
    BY <1>1, <1>4

\* f says which of the resting orders those of s are; they had not given everything.
Remain(s, f, resting, given) ==
  /\ f \in [1 .. Len(s) -> 1 .. Len(resting)]
  /\ \A j \in 1 .. Len(s) :
       /\ s[j].price = resting[f[j]].price /\ s[j].seq = resting[f[j]].seq
       /\ s[j].quantity > 0 /\ given[f[j]] # resting[f[j]].quantity
  /\ \A i, j \in 1 .. Len(s) : i < j => f[i] < f[j]

\* The orders that are still there keep their order, their prices and their places in the sequence of
\* arrivals.
LEMMA StillRestingKeeps ==
  ASSUME NEW resting \in Seq(Order), NEW given \in Seq(Nat), Len(given) = Len(resting),
         \A j \in 1 .. Len(resting) : given[j] <= resting[j].quantity
  PROVE  /\ StillResting(resting, given) \in Seq(Order)
         /\ \E f : Remain(StillResting(resting, given), f, resting, given)
  <1> DEFINE n    == Len(resting)
             rest == [i \in DOMAIN resting |-> [resting[i] EXCEPT !.quantity = @ - given[i]]]
             T    == {i \in DOMAIN rest : rest[i].quantity > 0}
             s    == Selected(rest, T)
  <1>1. n \in Nat /\ DOMAIN resting = 1 .. n
    OBVIOUS
  <1>2. ASSUME NEW i \in 1 .. n
        PROVE  /\ [resting[i] EXCEPT !.quantity = @ - given[i]] \in Order
               /\ rest[i].price = resting[i].price /\ rest[i].seq = resting[i].seq
               /\ rest[i].quantity = resting[i].quantity - given[i]
               /\ resting[i].quantity \in Nat /\ given[i] \in Nat
    <2>1. resting[i] \in Order /\ given[i] \in Nat /\ given[i] <= resting[i].quantity
      OBVIOUS
    <2>2. resting[i].quantity \in Nat /\ resting[i].quantity - given[i] \in Nat
      BY <2>1 DEF Order
    <2>3. rest[i] = [resting[i] EXCEPT !.quantity = @ - given[i]]
      BY <1>1
    <2> HIDE DEF rest
    <2> QED BY <2>1, <2>2, <2>3 DEF Order
  <1>3. rest \in Seq(Order) /\ Len(rest) = n
    <2>1. rest = [i \in 1 .. n |-> [resting[i] EXCEPT !.quantity = @ - given[i]]]
      BY <1>1
    <2>2. \A i \in 1 .. n : [resting[i] EXCEPT !.quantity = @ - given[i]] \in Order
      BY <1>2
    <2>3. [i \in 1 .. n |-> [resting[i] EXCEPT !.quantity = @ - given[i]]] \in Seq(Order)
      BY <1>1, <2>2, IsASeq
    <2> HIDE DEF rest
    <2> QED BY <1>1, <2>1, <2>3
  <1>4. StillResting(resting, given) = s
    BY DEF StillResting
  <1> HIDE DEF rest
  <1>5. s \in Seq(Order) /\ \E f : Chooses(f, rest, T, s)
    BY <1>3, SelectedInOrder
  <1>6. PICK f : Chooses(f, rest, T, s)
    BY <1>5
  <1> HIDE DEF s
  <1>7. /\ f \in [1 .. Len(s) -> 1 .. n] /\ \A j \in 1 .. Len(s) : f[j] \in T
        /\ \A j \in 1 .. Len(s) : s[j] = rest[f[j]]
        /\ \A i, j \in 1 .. Len(s) : i < j => f[i] < f[j]
    <2> HIDE DEF T
    <2> QED BY <1>3, <1>6 DEF Chooses
  <1>8. ASSUME NEW j \in 1 .. Len(s)
        PROVE  /\ s[j].price = resting[f[j]].price /\ s[j].seq = resting[f[j]].seq
               /\ s[j].quantity > 0 /\ given[f[j]] # resting[f[j]].quantity
    <2>1. f[j] \in 1 .. n /\ s[j] = rest[f[j]] /\ rest[f[j]].quantity > 0
      BY <1>7
    <2>2. /\ rest[f[j]].price = resting[f[j]].price /\ rest[f[j]].seq = resting[f[j]].seq
          /\ rest[f[j]].quantity = resting[f[j]].quantity - given[f[j]]
          /\ resting[f[j]].quantity \in Nat /\ given[f[j]] \in Nat
      BY <1>2, <2>1
    <2> QED BY <2>1, <2>2
  <1>9. Remain(s, f, resting, given)
    BY <1>7, <1>8 DEF Remain
  <1> QED
    BY <1>4, <1>5, <1>9

LEMMA StillInOrder ==
  ASSUME NEW s \in Seq(Order), NEW t \in Seq(Order), NEW f \in [1 .. Len(t) -> 1 .. Len(s)],
         \A j \in 1 .. Len(t) : t[j].price = s[f[j]].price /\ t[j].seq = s[f[j]].seq,
         \A i, j \in 1 .. Len(t) : i < j => f[i] < f[j]
  PROVE  (SellersInOrder(s) => SellersInOrder(t)) /\ (BuyersInOrder(s) => BuyersInOrder(t))
  <1>1. DOMAIN s = 1 .. Len(s) /\ DOMAIN t = 1 .. Len(t)
    OBVIOUS
  <1>2. ASSUME NEW i \in 1 .. Len(t), NEW j \in 1 .. Len(t), i < j
        PROVE  /\ f[i] \in 1 .. Len(s) /\ f[j] \in 1 .. Len(s) /\ f[i] < f[j]
               /\ t[i].price = s[f[i]].price /\ t[i].seq = s[f[i]].seq
               /\ t[j].price = s[f[j]].price /\ t[j].seq = s[f[j]].seq
    BY <1>2
  <1>3. SellersInOrder(s) => SellersInOrder(t)
    BY <1>1, <1>2 DEF SellersInOrder
  <1>4. BuyersInOrder(s) => BuyersInOrder(t)
    BY <1>1, <1>2 DEF BuyersInOrder
  <1> QED
    BY <1>3, <1>4

-----------------------------------------------------------------------------
\* The resting orders in front of which saveOrder stops.
Stops(order, aggressor) ==
  IF aggressor.side = "S" THEN order.price > aggressor.price ELSE order.price <= aggressor.price

\* The place is that of the first of them, or the end.
LEMMA PlaceIsFirst ==
  ASSUME NEW s \in Seq(Order), NEW e \in Order
  PROVE  /\ PlaceOf(s, e) \in 1 .. Len(s) + 1
         /\ \A j \in 1 .. PlaceOf(s, e) - 1 : ~Stops(s[j], e)
         /\ PlaceOf(s, e) <= Len(s) => Stops(s[PlaceOf(s, e)], e)
  <1> DEFINE stops(i) == Stops(s[i], e)
             T == {i \in 1 .. Len(s) : stops(i)}
             first(i) == stops(i) /\ \A j \in 1 .. i - 1 : ~stops(j)
  <1>0. Len(s) \in Nat /\ DOMAIN s = 1 .. Len(s)
    OBVIOUS
  <1>1. PlaceOf(s, e) = IF \E i \in DOMAIN s : stops(i) THEN CHOOSE i \in DOMAIN s : first(i) ELSE Len(s) + 1
    BY DEF PlaceOf, Stops
  <1> HIDE DEF stops
  <1>2. CASE T # {}
    <2>1. PICK i \in T : \A j \in T : i <= j
      <3>1. T \subseteq Nat
        BY <1>0
      <3> HIDE DEF T
      <3> QED BY <1>2, <3>1, LeastElement
    <2>2. i \in DOMAIN s /\ first(i)
      BY <1>0, <2>1
    <2> DEFINE p == CHOOSE k \in DOMAIN s : first(k)
    <2>3. p \in DOMAIN s /\ first(p)
      <3> HIDE DEF first
      <3> QED BY <2>2
    <2>4. PlaceOf(s, e) = p
      BY <1>1, <2>2
    <2> HIDE DEF p
    <2> QED BY <1>0, <2>3, <2>4 DEF stops
  <1>3. CASE T = {}
    <2>1. \A j \in 1 .. Len(s) : ~stops(j)
      BY <1>3
    <2>2. PlaceOf(s, e) = Len(s) + 1
      BY <1>0, <1>1, <2>1
    <2> QED BY <1>0, <2>1, <2>2 DEF stops
  <1> QED
    BY <1>2, <1>3

LEMMA InsertedAt ==
  ASSUME NEW s \in Seq(Order), NEW e \in Order, NEW p \in 1 .. Len(s) + 1
  PROVE  LET t == InsertAt(s, p, e)
         IN  /\ t \in Seq(Order) /\ Len(t) = Len(s) + 1 /\ t[p] = e
             /\ \A j \in 1 .. p - 1 : t[j] = s[j]
             /\ \A j \in p + 1 .. Len(s) + 1 : t[j] = s[j - 1]
  <1> DEFINE a == SubSeq(s, 1, p - 1)
             b == SubSeq(s, p, Len(s))
             t == a \o <<e>> \o b
  <1>0. InsertAt(s, p, e) = t /\ Len(s) \in Nat /\ p \in Nat
    BY DEF InsertAt
  <1>1. a \in Seq(Order) /\ Len(a) = p - 1 /\ \A j \in 1 .. p - 1 : a[j] = s[j]
    <2>1. 1 \in 1 .. Len(s) + 1 /\ p - 1 \in 0 .. Len(s)
      BY <1>0
    <2> QED BY <2>1, <1>0
  <1>2. b \in Seq(Order) /\ Len(b) = Len(s) - p + 1 /\ \A j \in 1 .. Len(b) : b[j] = s[p + j - 1]
    BY <1>0
  <1> HIDE DEF a, b
  <1> DEFINE c == a \o <<e>>
  <1>3. c \in Seq(Order) /\ Len(c) = p /\ c[p] = e /\ \A j \in 1 .. p - 1 : c[j] = s[j]
    <2>1. c = Append(a, e)
      BY <1>1, AppendIsConcat
    <2> HIDE DEF c
    <2>2. c \in Seq(Order) /\ Len(c) = Len(a) + 1 /\ c[Len(a) + 1] = e /\ \A j \in 1 .. Len(a) : c[j] = a[j]
      BY <1>1, <2>1, AppendProperties
    <2> QED BY <1>0, <1>1, <2>2
  <1>4. t = c \o b
    OBVIOUS
  <1> HIDE DEF c, t
  <1>5. t \in Seq(Order) /\ Len(t) = Len(s) + 1
    <2>1. t \in Seq(Order) /\ Len(t) = Len(c) + Len(b)
      BY <1>2, <1>3, <1>4, ConcatProperties
    <2> QED BY <1>0, <1>2, <1>3, <2>1
  <1>6. \A j \in 1 .. p : t[j] = c[j]
    BY <1>0, <1>2, <1>3, <1>4, ConcatProperties
  <1>7. ASSUME NEW j \in p + 1 .. Len(s) + 1 PROVE t[j] = s[j - 1]
    <2>1. j \in Nat /\ j > Len(c) /\ j - p \in 1 .. Len(b) /\ j \in 1 .. Len(c) + Len(b)
      BY <1>0, <1>2, <1>3
    <2>2. t[j] = b[j - p]
      BY <1>2, <1>3, <1>4, <2>1, ConcatProperties
    <2>3. b[j - p] = s[p + (j - p) - 1] /\ p + (j - p) - 1 = j - 1
      BY <1>0, <1>2, <2>1
    <2> QED BY <2>2, <2>3
  <1>8. t[p] = e /\ \A j \in 1 .. p - 1 : t[j] = s[j]
    BY <1>0, <1>3, <1>6
  <1> QED
    BY <1>0, <1>5, <1>7, <1>8

\* An order of a seller or of a buyer is saved where it belongs, between orders that all have
\* arrived before it.
LEMMA SavedInPlace ==
  ASSUME NEW s \in Seq(Order), NEW e \in Order, e.quantity # 0,
         \A i \in DOMAIN s : s[i].seq < e.seq
  PROVE  /\ Saved(s, e) \in Seq(Order)
         /\ \A i \in DOMAIN Saved(s, e) : Saved(s, e)[i] = e \/ \E j \in DOMAIN s : Saved(s, e)[i] = s[j]
         /\ e.side = "S" /\ SellersInOrder(s) => SellersInOrder(Saved(s, e))
         /\ e.side = "B" /\ BuyersInOrder(s) => BuyersInOrder(Saved(s, e))
  <1> DEFINE p == PlaceOf(s, e)
             t == InsertAt(s, p, e)
             n == Len(s)
  <1>1. Saved(s, e) = t
    BY DEF Saved
  <1>2. p \in 1 .. n + 1 /\ (\A j \in 1 .. p - 1 : ~Stops(s[j], e)) /\ (p <= n => Stops(s[p], e))
    BY PlaceIsFirst
  <1> HIDE DEF p
  <1>3. /\ t \in Seq(Order) /\ Len(t) = n + 1 /\ t[p] = e
        /\ \A j \in 1 .. p - 1 : t[j] = s[j]
        /\ \A j \in p + 1 .. n + 1 : t[j] = s[j - 1]
    BY <1>2, InsertedAt
  <1> HIDE DEF t
  <1>4. n \in Nat /\ p \in Nat /\ DOMAIN s = 1 .. n /\ DOMAIN t = 1 .. n + 1
    BY <1>2, <1>3
  <1>5. \A i \in 1 .. n : s[i].price \in Nat /\ s[i].seq \in Nat /\ s[i].seq < e.seq
    <2>1. \A i \in 1 .. n : s[i] \in Order
      OBVIOUS
    <2> QED BY <1>4, <2>1, MarketAssumption DEF Order
  <1>6. e.price \in Nat /\ e.seq \in Nat
    BY MarketAssumption DEF Order
  <1> HIDE DEF n
  <1>7. ASSUME NEW i \in 1 .. n + 1
        PROVE  \/ i < p /\ i \in 1 .. n /\ t[i] = s[i]
               \/ i = p /\ t[i] = e
               \/ i > p /\ i - 1 \in 1 .. n /\ i - 1 >= p /\ t[i] = s[i - 1]
    BY <1>2, <1>3, <1>4
  <1>8. \A i \in DOMAIN t : t[i] = e \/ \E j \in DOMAIN s : t[i] = s[j]
    BY <1>4, <1>7
  <1>9. ASSUME e.side = "S", SellersInOrder(s) PROVE SellersInOrder(t)
    <2>1. \A j \in 1 .. p - 1 : s[j].price <= e.price
      BY <1>2, <1>4, <1>5, <1>6, <1>9 DEF Stops
    <2>2. \A j \in 1 .. n : j >= p => s[j].price > e.price
      <3>1. p <= n => s[p].price > e.price
        BY <1>2, <1>9 DEF Stops
      <3>2. \A j \in 1 .. n : j > p => s[p].price <= s[j].price
        <4> SUFFICES ASSUME NEW j \in 1 .. n, j > p PROVE s[p].price <= s[j].price
          OBVIOUS
        <4>1. p \in DOMAIN s /\ j \in DOMAIN s /\ p < j
          BY <1>2, <1>4
        <4>2. s[p].price < s[j].price \/ s[p].price = s[j].price
          BY <1>9, <4>1 DEF SellersInOrder
        <4> QED BY <1>4, <1>5, <4>1, <4>2
      <3>3. \A j \in 1 .. n : j >= p => j = p \/ j > p
        BY <1>4
      <3> QED BY <1>2, <1>4, <1>5, <1>6, <3>1, <3>2, <3>3
    <2>3. ASSUME NEW i \in 1 .. n + 1, NEW j \in 1 .. n + 1, i < j
          PROVE  t[i].price < t[j].price \/ (t[i].price = t[j].price /\ t[i].seq < t[j].seq)
      <3>1. CASE j = p
        <4>1. i \in 1 .. p - 1 /\ i \in 1 .. n /\ t[i] = s[i] /\ t[j] = e
          BY <1>4, <1>7, <2>3, <3>1
        <4> QED BY <1>5, <1>6, <2>1, <4>1
      <3>2. CASE i = p
        <4>1. j - 1 \in 1 .. n /\ j - 1 >= p /\ t[j] = s[j - 1] /\ t[i] = e
          BY <1>4, <1>7, <2>3, <3>2
        <4> QED BY <1>5, <1>6, <2>2, <4>1
      <3>3. CASE i # p /\ j # p
        <4>1. \E k, l \in 1 .. n : k < l /\ t[i] = s[k] /\ t[j] = s[l]
          BY <1>4, <1>7, <2>3, <3>3
        <4> QED BY <1>4, <1>9, <4>1 DEF SellersInOrder
      <3> QED BY <3>1, <3>2, <3>3
    <2> QED BY <1>4, <2>3 DEF SellersInOrder
  <1>10. ASSUME e.side = "B", BuyersInOrder(s) PROVE BuyersInOrder(t)
    <2>1. \A j \in 1 .. p - 1 : s[j].price > e.price
      BY <1>2, <1>4, <1>5, <1>6, <1>10 DEF Stops
    <2>2. \A j \in 1 .. n : j >= p => s[j].price <= e.price
      <3>1. p <= n => s[p].price <= e.price
        BY <1>2, <1>10 DEF Stops
      <3>2. \A j \in 1 .. n : j > p => s[p].price >= s[j].price
        <4> SUFFICES ASSUME NEW j \in 1 .. n, j > p PROVE s[p].price >= s[j].price
          OBVIOUS
        <4>1. p \in DOMAIN s /\ j \in DOMAIN s /\ p < j
          BY <1>2, <1>4
        <4> QED BY <1>10, <4>1 DEF BuyersInOrder
      <3>3. \A j \in 1 .. n : j >= p => j = p \/ j > p
        BY <1>4
      <3> QED BY <1>2, <1>4, <1>5, <1>6, <3>1, <3>2, <3>3
    <2>3. ASSUME NEW i \in 1 .. n + 1, NEW j \in 1 .. n + 1, i < j
          PROVE  t[i].price >= t[j].price
      <3>1. CASE j = p
        <4>1. i \in 1 .. p - 1 /\ i \in 1 .. n /\ t[i] = s[i] /\ t[j] = e
          BY <1>4, <1>7, <2>3, <3>1
        <4> QED BY <1>5, <1>6, <2>1, <4>1
      <3>2. CASE i = p
        <4>1. j - 1 \in 1 .. n /\ j - 1 >= p /\ t[j] = s[j - 1] /\ t[i] = e
          BY <1>4, <1>7, <2>3, <3>2
        <4> QED BY <1>5, <1>6, <2>2, <4>1
      <3>3. CASE i # p /\ j # p
        <4>1. \E k, l \in 1 .. n : k < l /\ t[i] = s[k] /\ t[j] = s[l]
          BY <1>4, <1>7, <2>3, <3>3
        <4> QED BY <1>4, <1>10, <4>1 DEF BuyersInOrder
      <3> QED BY <3>1, <3>2, <3>3
    <2> QED BY <1>4, <2>3 DEF BuyersInOrder
  <1> QED
    BY <1>1, <1>3, <1>8, <1>9, <1>10

Remains(kept, traded, other, a, n) ==
  /\ kept \in Seq(Order) /\ traded \in Nat /\ traded <= a.quantity
  /\ \A i \in DOMAIN kept :
       /\ kept[i].quantity > 0 /\ kept[i].seq < n
       /\ \E j \in DOMAIN other : kept[i].price = other[j].price
       /\ traded # a.quantity => ~Matches(kept[i], a)
  /\ SellersInOrder(other) => SellersInOrder(kept)
  /\ BuyersInOrder(other) => BuyersInOrder(kept)

\* What the other side keeps: orders of the price and the arrival of some it had, in their order, and
\* while the aggressor wants more none that match.
LEMMA OtherSide ==
  ASSUME NEW other \in Seq(Order), NEW a \in Order, NEW n \in Nat,
         \A i \in DOMAIN other : other[i].seq < n,
         NEW walk, walk = Walk(other, a), NEW kept, kept = StillResting(other, walk.given)
  PROVE  Remains(kept, walk.traded, other, a, n)
  <1> DEFINE m == Len(other)
  <1>1. Afterwards(walk, other, a, m)
    BY WalkAfterwards
  <1>2. /\ walk.given \in Seq(Nat) /\ Len(walk.given) = m
        /\ \A j \in 1 .. m : walk.given[j] <= other[j].quantity
    BY <1>1 DEF Afterwards
  <1>3. walk.traded \in Nat /\ walk.traded <= a.quantity
    BY <1>1 DEF Afterwards
  <1>4. walk.traded # a.quantity => \A j \in 1 .. m : Matches(other[j], a) => walk.given[j] = other[j].quantity
    BY <1>1 DEF Afterwards
  <1>5. kept \in Seq(Order)
    BY <1>2, StillRestingKeeps
  <1>6. PICK f : Remain(kept, f, other, walk.given)
    BY <1>2, StillRestingKeeps
  <1>7. ASSUME NEW i \in DOMAIN kept
        PROVE  /\ kept[i].quantity > 0 /\ kept[i].seq < n
               /\ \E j \in DOMAIN other : kept[i].price = other[j].price
               /\ walk.traded # a.quantity => ~Matches(kept[i], a)
    <2>1. i \in 1 .. Len(kept) /\ f[i] \in 1 .. m /\ f[i] \in DOMAIN other
      BY <1>5, <1>6 DEF Remain
    <2>2. /\ kept[i].price = other[f[i]].price /\ kept[i].seq = other[f[i]].seq
          /\ kept[i].quantity > 0 /\ walk.given[f[i]] # other[f[i]].quantity
      BY <1>6, <2>1 DEF Remain
    <2>3. Matches(kept[i], a) <=> Matches(other[f[i]], a)
      BY <2>2 DEF Matches
    <2> QED BY <1>4, <2>1, <2>2, <2>3
  <1>8. (SellersInOrder(other) => SellersInOrder(kept)) /\ (BuyersInOrder(other) => BuyersInOrder(kept))
    <2>1. /\ f \in [1 .. Len(kept) -> 1 .. m]
          /\ \A j \in 1 .. Len(kept) : kept[j].price = other[f[j]].price /\ kept[j].seq = other[f[j]].seq
          /\ \A i, j \in 1 .. Len(kept) : i < j => f[i] < f[j]
      BY <1>6 DEF Remain
    <2> QED BY <1>5, <2>1, StillInOrder
  <1> QED
    BY <1>3, <1>5, <1>7, <1>8 DEF Remains

\* A step of the market when a buyer, or a seller, arrives.
LEMMA BuyerKeepsMarket ==
  ASSUME MarketInv, NEW a \in Order, a.side = "B", a.seq = arrived, ProcessAggressor(a), arrived' = arrived + 1
  PROVE  MarketInv'
  <1> DEFINE walk == Walk(sell, a)
             left == [a EXCEPT !.quantity = @ - walk.traded]
  <1>1. /\ sell \in Seq(Order) /\ buy \in Seq(Order) /\ arrived \in Nat
        /\ SellersInOrder(sell) /\ BuyersInOrder(buy) /\ NotCrossed
        /\ \A i \in DOMAIN sell : sell[i].quantity > 0 /\ sell[i].seq < arrived
        /\ \A i \in DOMAIN buy : buy[i].quantity > 0 /\ buy[i].seq < arrived
    BY DEF MarketInv, Resting, MatchingOrder, SellersInOrder, BuyersInOrder
  <1>2. sell' = StillResting(sell, walk.given) /\ buy' = Saved(buy, left)
    BY DEF ProcessAggressor
  <1>3. /\ sell' \in Seq(Order) /\ walk.traded \in Nat /\ walk.traded <= a.quantity
        /\ \A i \in DOMAIN sell' :
             /\ sell'[i].quantity > 0 /\ sell'[i].seq < arrived
             /\ \E j \in DOMAIN sell : sell'[i].price = sell[j].price
             /\ walk.traded # a.quantity => ~Matches(sell'[i], a)
        /\ SellersInOrder(sell')
    <2> HIDE DEF walk
    <2> DEFINE kept == StillResting(sell, walk.given)
    <2>1. walk = Walk(sell, a) /\ kept = StillResting(sell, walk.given) /\ sell' = kept
      BY <1>2 DEF walk
    <2> HIDE DEF kept
    <2>2. \A i \in DOMAIN sell : sell[i].seq < arrived
      BY <1>1
    <2>3. sell \in Seq(Order) /\ arrived \in Nat
      BY <1>1
    <2>4. Remains(kept, walk.traded, sell, a, arrived)
      BY <2>1, <2>2, <2>3, OtherSide
    <2> QED BY <1>1, <2>1, <2>4 DEF Remains
  <1> HIDE DEF walk
  <1>4. /\ left \in Order /\ left.side = "B" /\ left.price = a.price /\ left.seq = arrived
        /\ left.quantity = a.quantity - walk.traded /\ a.quantity \in Nat
    BY <1>3 DEF Order
  <1> HIDE DEF left
  <1>5. /\ buy' \in Seq(Order)
        /\ \A i \in DOMAIN buy' : \/ left.quantity # 0 /\ buy'[i] = left
                                  \/ \E j \in DOMAIN buy : buy'[i] = buy[j]
        /\ BuyersInOrder(buy')
    <2>1. CASE left.quantity = 0
      BY <1>1, <1>2, <2>1 DEF Saved
    <2>2. CASE left.quantity # 0
      <3>1. \A i \in DOMAIN buy : buy[i].seq < left.seq
        BY <1>1, <1>4
      <3>2. /\ Saved(buy, left) \in Seq(Order)
            /\ \A i \in DOMAIN Saved(buy, left) :
                 Saved(buy, left)[i] = left \/ \E j \in DOMAIN buy : Saved(buy, left)[i] = buy[j]
            /\ BuyersInOrder(Saved(buy, left))
        BY <1>1, <1>4, <2>2, <3>1, SavedInPlace
      <3> QED BY <1>2, <2>2, <3>2
    <2> QED BY <2>1, <2>2
  <1>6. \A i \in DOMAIN sell' : sell'[i].seq \in Nat /\ sell'[i].price \in Nat
    <2>1. \A i \in DOMAIN sell' : sell'[i] \in Order
      BY <1>3
    <2> QED BY <2>1, MarketAssumption DEF Order
  <1>7. \A i \in DOMAIN buy' : buy'[i].quantity > 0 /\ buy'[i].seq < arrived + 1
    <2>1. left.quantity # 0 => left.quantity > 0
      BY <1>3, <1>4
    <2>2. \A i \in DOMAIN buy : buy[i].seq < arrived + 1
      <3>1. \A i \in DOMAIN buy : buy[i].seq \in Nat
        <4>1. \A i \in DOMAIN buy : buy[i] \in Order
          BY <1>1
        <4> QED BY <4>1 DEF Order
      <3> QED BY <1>1, <3>1
    <2> QED BY <1>1, <1>4, <1>5, <2>1, <2>2
  <1>8. ASSUME NEW i \in DOMAIN buy', NEW j \in DOMAIN sell' PROVE buy'[i].price < sell'[j].price
    <2>1. PICK k \in DOMAIN sell : sell'[j].price = sell[k].price
      BY <1>3
    <2>2. CASE \E l \in DOMAIN buy : buy'[i] = buy[l]
      BY <1>1, <2>1, <2>2 DEF NotCrossed
    <2>3. CASE left.quantity # 0 /\ buy'[i] = left
      <3>1. walk.traded # a.quantity
        BY <1>3, <1>4, <2>3
      <3>2. ~Matches(sell'[j], a)
        BY <1>3, <3>1
      <3>3. a.price \in Nat
        BY MarketAssumption DEF Order
      <3> QED BY <1>4, <1>6, <2>3, <3>2, <3>3 DEF Matches
    <2> QED BY <1>5, <2>2, <2>3
  <1>9. Resting(sell)'
    BY <1>1, <1>3, <1>6 DEF Resting
  <1>10. Resting(buy)'
    BY <1>5, <1>7 DEF Resting
  <1>11. MatchingOrder'
    BY <1>3, <1>5 DEF MatchingOrder, SellersInOrder, BuyersInOrder
  <1>12. NotCrossed'
    BY <1>8 DEF NotCrossed
  <1> QED
    BY <1>1, <1>9, <1>10, <1>11, <1>12 DEF MarketInv

LEMMA SellerKeepsMarket ==
  ASSUME MarketInv, NEW a \in Order, a.side = "S", a.seq = arrived, ProcessAggressor(a), arrived' = arrived + 1
  PROVE  MarketInv'
  <1> DEFINE walk == Walk(buy, a)
             left == [a EXCEPT !.quantity = @ - walk.traded]
  <1>1. /\ buy \in Seq(Order) /\ sell \in Seq(Order) /\ arrived \in Nat
        /\ BuyersInOrder(buy) /\ SellersInOrder(sell) /\ NotCrossed
        /\ \A i \in DOMAIN buy : buy[i].quantity > 0 /\ buy[i].seq < arrived
        /\ \A i \in DOMAIN sell : sell[i].quantity > 0 /\ sell[i].seq < arrived
    BY DEF MarketInv, Resting, MatchingOrder, BuyersInOrder, SellersInOrder
  <1>2. buy' = StillResting(buy, walk.given) /\ sell' = Saved(sell, left)
    BY DEF ProcessAggressor
  <1>3. /\ buy' \in Seq(Order) /\ walk.traded \in Nat /\ walk.traded <= a.quantity
        /\ \A i \in DOMAIN buy' :
             /\ buy'[i].quantity > 0 /\ buy'[i].seq < arrived
             /\ \E j \in DOMAIN buy : buy'[i].price = buy[j].price
             /\ walk.traded # a.quantity => ~Matches(buy'[i], a)
        /\ BuyersInOrder(buy')
    <2> HIDE DEF walk
    <2> DEFINE kept == StillResting(buy, walk.given)
    <2>1. walk = Walk(buy, a) /\ kept = StillResting(buy, walk.given) /\ buy' = kept
      BY <1>2 DEF walk
    <2> HIDE DEF kept
    <2>2. \A i \in DOMAIN buy : buy[i].seq < arrived
      BY <1>1
    <2>3. buy \in Seq(Order) /\ arrived \in Nat
      BY <1>1
    <2>4. Remains(kept, walk.traded, buy, a, arrived)
      BY <2>1, <2>2, <2>3, OtherSide
    <2> QED BY <1>1, <2>1, <2>4 DEF Remains
  <1> HIDE DEF walk
  <1>4. /\ left \in Order /\ left.side = "S" /\ left.price = a.price /\ left.seq = arrived
        /\ left.quantity = a.quantity - walk.traded /\ a.quantity \in Nat
    BY <1>3 DEF Order
  <1> HIDE DEF left
  <1>5. /\ sell' \in Seq(Order)
        /\ \A i \in DOMAIN sell' : \/ left.quantity # 0 /\ sell'[i] = left
                                  \/ \E j \in DOMAIN sell : sell'[i] = sell[j]
        /\ SellersInOrder(sell')
    <2>1. CASE left.quantity = 0
      BY <1>1, <1>2, <2>1 DEF Saved
    <2>2. CASE left.quantity # 0
      <3>1. \A i \in DOMAIN sell : sell[i].seq < left.seq
        BY <1>1, <1>4
      <3>2. /\ Saved(sell, left) \in Seq(Order)
            /\ \A i \in DOMAIN Saved(sell, left) :
                 Saved(sell, left)[i] = left \/ \E j \in DOMAIN sell : Saved(sell, left)[i] = sell[j]
            /\ SellersInOrder(Saved(sell, left))
        BY <1>1, <1>4, <2>2, <3>1, SavedInPlace
      <3> QED BY <1>2, <2>2, <3>2
    <2> QED BY <2>1, <2>2
  <1>6. \A i \in DOMAIN buy' : buy'[i].seq \in Nat /\ buy'[i].price \in Nat
    <2>1. \A i \in DOMAIN buy' : buy'[i] \in Order
      BY <1>3
    <2> QED BY <2>1, MarketAssumption DEF Order
  <1>7. \A i \in DOMAIN sell' : sell'[i].quantity > 0 /\ sell'[i].seq < arrived + 1
    <2>1. left.quantity # 0 => left.quantity > 0
      BY <1>3, <1>4
    <2>2. \A i \in DOMAIN sell : sell[i].seq < arrived + 1
      <3>1. \A i \in DOMAIN sell : sell[i].seq \in Nat
        <4>1. \A i \in DOMAIN sell : sell[i] \in Order
          BY <1>1
        <4> QED BY <4>1 DEF Order
      <3> QED BY <1>1, <3>1
    <2> QED BY <1>1, <1>4, <1>5, <2>1, <2>2
  <1>8. ASSUME NEW i \in DOMAIN sell', NEW j \in DOMAIN buy' PROVE buy'[j].price < sell'[i].price
    <2>1. PICK k \in DOMAIN buy : buy'[j].price = buy[k].price
      BY <1>3
    <2>2. CASE \E l \in DOMAIN sell : sell'[i] = sell[l]
      BY <1>1, <2>1, <2>2 DEF NotCrossed
    <2>3. CASE left.quantity # 0 /\ sell'[i] = left
      <3>1. walk.traded # a.quantity
        BY <1>3, <1>4, <2>3
      <3>2. ~Matches(buy'[j], a)
        BY <1>3, <3>1
      <3>3. a.price \in Nat
        BY MarketAssumption DEF Order
      <3> QED BY <1>4, <1>6, <2>3, <3>2, <3>3 DEF Matches
    <2> QED BY <1>5, <2>2, <2>3
  <1>9. Resting(buy)'
    BY <1>1, <1>3, <1>6 DEF Resting
  <1>10. Resting(sell)'
    BY <1>5, <1>7 DEF Resting
  <1>11. MatchingOrder'
    BY <1>3, <1>5 DEF MatchingOrder, BuyersInOrder, SellersInOrder
  <1>12. NotCrossed'
    BY <1>8 DEF NotCrossed
  <1> QED
    BY <1>1, <1>9, <1>10, <1>11, <1>12 DEF MarketInv

LEMMA NextKeepsMarket == MarketInv /\ [OrderArrives]_marketVars => MarketInv'
  <1> SUFFICES ASSUME MarketInv, [OrderArrives]_marketVars PROVE MarketInv'
    OBVIOUS
  <1>1. CASE OrderArrives
    <2>1. PICK t \in Traders, d \in Sides, q \in Quantities, p \in Prices :
            ProcessAggressor([trader |-> t, side |-> d, quantity |-> q, price |-> p, seq |-> arrived])
      BY <1>1 DEF OrderArrives
    <2>2. PICK a \in Order : a = [trader |-> t, side |-> d, quantity |-> q, price |-> p, seq |-> arrived]
      BY MarketAssumption DEF MarketInv, Order
    <2>3. ProcessAggressor(a) /\ a.seq = arrived /\ (a.side = "B" \/ a.side = "S")
      BY <2>1, <2>2 DEF Sides
    <2>4. arrived' = arrived + 1
      BY <1>1 DEF OrderArrives
    <2> QED BY <2>3, <2>4, BuyerKeepsMarket, SellerKeepsMarket
  <1>2. CASE UNCHANGED marketVars
    BY <1>2 DEF marketVars, MarketInv, Resting, MatchingOrder, NotCrossed
  <1> QED
    BY <1>1, <1>2

\* What is resting is in order and cannot be matched, and every resting order is worth something,
\* for any traders, prices and quantities and any number of orders (processAgressor, saveOrder).
THEOREM MarketInvariant == MarketSpec => []MarketInv
  <1>1. MarketInit => MarketInv
    BY DEF MarketInit, MarketInv, Resting, MatchingOrder, NotCrossed
  <1> QED
    BY <1>1, NextKeepsMarket, PTL DEF MarketSpec

\* No resting buyer offers what a resting seller asks: what can be matched has been
\* (processAgressor).
THEOREM MarketIsNotCrossed == MarketSpec => []NotCrossed
  <1>1. MarketInv => NotCrossed
    BY DEF MarketInv
  <1> QED
    BY <1>1, MarketInvariant, PTL

\* The resting orders of both sides are in the order of their prices, the best one first, and sellers
\* of one price in the order of their arrival, whatever came, was used up or was put between
\* (saveOrder, processAgressor).
THEOREM MatchedInOrder == MarketSpec => []MatchingOrder
  <1>1. MarketInv => MatchingOrder
    BY DEF MarketInv
  <1> QED
    BY <1>1, MarketInvariant, PTL

-----------------------------------------------------------------------------
(* The equalisation of an image *)

LEMMA Division ==
  ASSUME NEW a \in Nat, NEW b \in Nat \ {0}
  PROVE  a \div b \in Nat /\ a % b \in 0 .. b - 1 /\ a = b * (a \div b) + (a % b)
  <1>1. a % b \in 0 .. b - 1 /\ a = b * (a \div b) + (a % b) /\ a \div b \in Int
    BY Z3
  <1>2. a \div b >= 0
    BY Z3
  <1> QED BY <1>1, <1>2

LEMMA ProductGrows ==
  ASSUME NEW a \in Nat, NEW m \in Nat, NEW n \in Nat, m <= n
  PROVE  a * m \in Nat /\ a * n \in Nat /\ a * m <= a * n
  OBVIOUS

\* One quotient and one remainder belong to a number.
LEMMA OneQuotient ==
  ASSUME NEW b \in Nat \ {0}, NEW q \in Nat, NEW r \in 0 .. b - 1, NEW u \in Nat, NEW v \in 0 .. b - 1,
         b * q + r = b * u + v
  PROVE  q = u /\ r = v
  <1>1. ASSUME NEW m \in Nat, NEW n \in Nat, m < n PROVE b * m + b <= b * n
    <2>1. b * (m + 1) <= b * n
      BY <1>1, ProductGrows
    <2>2. b * (m + 1) = b * m + b
      OBVIOUS
    <2> QED BY <2>1, <2>2
  <1>2. ~(q < u)
    <2>1. q < u => b * q + b <= b * u
      BY <1>1
    <2>2. b * q \in Int /\ b * u \in Int
      OBVIOUS
    <2> QED BY <2>1, <2>2
  <1>3. ~(u < q)
    <2>1. u < q => b * u + b <= b * q
      BY <1>1
    <2>2. b * q \in Int /\ b * u \in Int
      OBVIOUS
    <2> QED BY <2>1, <2>2
  <1>4. q = u
    BY <1>2, <1>3
  <1>5. b * q \in Int
    OBVIOUS
  <1> QED BY <1>4, <1>5

LEMMA Quotient ==
  ASSUME NEW b \in Nat \ {0}, NEW q \in Nat, NEW r \in 0 .. b - 1
  PROVE  (b * q + r) \div b = q /\ (b * q + r) % b = r
  <1>1. b * q + r \in Nat
    BY ProductGrows
  <1> DEFINE a == b * q + r
  <1>2. a \div b \in Nat /\ a % b \in 0 .. b - 1 /\ b * q + r = b * (a \div b) + (a % b)
    BY <1>1, Division
  <1>3. q = a \div b /\ r = a % b
    <2> DEFINE u == a \div b
               v == a % b
    <2>1. u \in Nat /\ v \in 0 .. b - 1 /\ b * q + r = b * u + v
      BY <1>2
    <2> HIDE DEF u, v
    <2> QED BY <2>1, OneQuotient
  <1> QED BY <1>3


\* How wide the strips are: all but the last have W columns.
W       == Width \div IMAGE_THREADS
Area(s) == StripWidth(s) * Height
Depth   == Cardinality(Channels)

LEMMA ChannelRange == Depth \in Nat /\ Channels = 0 .. Depth - 1
  BY ImageAssumption, FS_CardinalityType DEF Depth

LEMMA Widths ==
  /\ Width \in Nat /\ Height \in Nat /\ IMAGE_THREADS \in Nat \ {0} /\ W \in Nat
  /\ W * (IMAGE_THREADS - 1) \in Nat
  /\ W * (IMAGE_THREADS - 1) + W <= Width
  /\ \A s \in Strips : s < IMAGE_THREADS - 1 => StripWidth(s) = W
  /\ StripWidth(IMAGE_THREADS - 1) = Width - W * (IMAGE_THREADS - 1)
  <1>1. Width \in Nat /\ Height \in Nat /\ IMAGE_THREADS \in Nat \ {0}
    BY ImageAssumption
  <1>2. W \in Nat /\ Width % IMAGE_THREADS >= 0 /\ Width = IMAGE_THREADS * W + (Width % IMAGE_THREADS)
    BY <1>1, Division DEF W
  <1>3. IMAGE_THREADS * W = W * (IMAGE_THREADS - 1) + W /\ W * (IMAGE_THREADS - 1) \in Nat
    BY <1>1, <1>2, Z3
  <1>4. Width % IMAGE_THREADS \in Int
    BY <1>1, Division
  <1>5. W * (IMAGE_THREADS - 1) + W <= Width
    <2> DEFINE m == W * (IMAGE_THREADS - 1)
               r == Width % IMAGE_THREADS
    <2>1. m \in Nat /\ r \in Int /\ r >= 0 /\ Width = m + W + r
      BY <1>2, <1>3, <1>4
    <2> HIDE DEF m, r
    <2>2. m + W <= Width
      BY <1>1, <1>2, <2>1
    <2> QED BY <2>2 DEF m
  <1>6. \A s \in Strips : s < IMAGE_THREADS - 1 => StripWidth(s) = W
    BY <1>1 DEF StripWidth, Strips, W
  <1>7. StripWidth(IMAGE_THREADS - 1) = Width - W * (IMAGE_THREADS - 1)
    BY <1>1 DEF StripWidth, Strips, W
  <1> QED BY <1>1, <1>2, <1>3, <1>5, <1>6, <1>7

\* A strip ends where the next one begins, or at the end of the image.
LEMMA StripEnds ==
  ASSUME NEW s \in Strips
  PROVE  /\ W * s \in Nat /\ StripWidth(s) \in Nat
         /\ W * s + StripWidth(s) <= Width
         /\ \A t \in Strips : s < t => W * s + StripWidth(s) <= W * t
  <1>1. s \in Nat /\ s <= IMAGE_THREADS - 1
    BY Widths DEF Strips
  <1>2. CASE s < IMAGE_THREADS - 1
    <2>1. StripWidth(s) = W
      BY <1>2, Widths
    <2>2. W * s \in Nat /\ W * (s + 1) = W * s + W
      BY <1>1, Widths, Z3
    <2>3. ASSUME NEW t \in Nat, s < t PROVE W * s + W <= W * t
      <3>1. W * (s + 1) <= W * t
        BY <1>1, <2>3, Widths, ProductGrows
      <3> QED BY <2>2, <3>1
    <2>4. W * s + W <= W * (IMAGE_THREADS - 1)
      BY <1>2, <2>3, Widths
    <2>5. W * s + W <= Width
      <3> DEFINE m == W * (IMAGE_THREADS - 1)
                 n == W * s
      <3>1. m \in Nat /\ n \in Nat /\ n + W <= m /\ m + W <= Width
        BY <2>2, <2>4, Widths
      <3> HIDE DEF m, n
      <3>2. n + W <= Width
        BY <3>1, Widths
      <3> QED BY <3>2 DEF n
    <2>6. \A t \in Strips : s < t => W * s + W <= W * t
      BY <2>3 DEF Strips
    <2> QED BY <2>1, <2>2, <2>5, <2>6, Widths
  <1>3. CASE s = IMAGE_THREADS - 1
    <2> DEFINE m == W * (IMAGE_THREADS - 1)
    <2>1. m \in Nat /\ W * s = m /\ StripWidth(s) = Width - m /\ m + W <= Width
      BY <1>3, Widths
    <2> HIDE DEF m
    <2>2. StripWidth(s) \in Nat /\ m + StripWidth(s) <= Width
      BY <2>1, Widths
    <2>3. \A t \in Strips : ~(s < t)
      BY <1>3, Widths DEF Strips
    <2> QED BY <2>1, <2>2, <2>3
  <1> QED BY <1>1, <1>2, <1>3, Widths


\* What the k-th cell of a strip is, by channel, column and row.
Steps(s)           == Depth * StripWidth(s) * Height
Step(s, ch, x, y)  == Area(s) * ch + (Height * x + y)
Place(s, ch, x, y) == [channel |-> ch, pixel |-> <<W * s + x, y>>]

LEMMA StepInStrip ==
  ASSUME NEW s \in Strips, NEW x \in Nat, x < StripWidth(s), NEW y \in 0 .. Height - 1
  PROVE  /\ Height \in Nat \ {0} /\ Area(s) \in Nat \ {0}
         /\ Height * x + y \in 0 .. Area(s) - 1
  <1>1. Height \in Nat \ {0}
    BY Widths
  <1>2. StripWidth(s) \in Nat
    BY StripEnds
  <1>3. Height * (x + 1) <= Height * StripWidth(s) /\ Height * StripWidth(s) \in Nat
    BY <1>1, <1>2, ProductGrows
  <1>4. Height * (x + 1) = Height * x + Height /\ Height * x \in Nat
    BY <1>1, ProductGrows
  <1>5. Area(s) = Height * StripWidth(s)
    BY <1>1, <1>2 DEF Area
  <1> DEFINE m == Height * x
  <1>6. m \in Nat /\ m + Height <= Area(s) /\ Area(s) \in Nat
    BY <1>3, <1>4, <1>5
  <1> HIDE DEF m
  <1>7. m + y \in 0 .. Area(s) - 1 /\ Area(s) # 0
    BY <1>1, <1>6
  <1> QED BY <1>1, <1>6, <1>7 DEF m

LEMMA CellIsPlace ==
  ASSUME NEW s \in Strips, NEW ch \in Nat, NEW x \in Nat, x < StripWidth(s), NEW y \in 0 .. Height - 1
  PROVE  Cell(s, Step(s, ch, x, y)) = Place(s, ch, x, y)
  <1> DEFINE i == Height * x + y
             k == Step(s, ch, x, y)
  <1>1. Height \in Nat \ {0} /\ Area(s) \in Nat \ {0} /\ i \in 0 .. Area(s) - 1
    BY StepInStrip
  <1>2. k \div Area(s) = ch /\ k % Area(s) = i
    BY <1>1, Quotient DEF Step
  <1>3. i \div Height = x /\ i % Height = y
    BY <1>1, Quotient
  <1> HIDE DEF i, k
  <1>4. Cell(s, k) = [channel |-> k \div Area(s),
                      pixel |-> <<W * s + (k % Area(s)) \div Height, (k % Area(s)) % Height>>]
    BY DEF Cell, Area, W
  <1>5. Cell(s, k) = Place(s, ch, x, y)
    BY <1>2, <1>3, <1>4 DEF Place
  <1> QED BY <1>5 DEF k

\* Every step of a strip concerns one of its places ...
LEMMA StepOfPlace ==
  ASSUME NEW s \in Strips, NEW k \in Nat, k < Steps(s)
  PROVE  \E ch \in Channels, x \in 0 .. StripWidth(s) - 1, y \in 0 .. Height - 1 : k = Step(s, ch, x, y)
  <1>1. Height \in Nat /\ StripWidth(s) \in Nat /\ Depth \in Nat
    BY Widths, StripEnds, ChannelRange
  <1>2. Steps(s) = Area(s) * Depth /\ Area(s) = Height * StripWidth(s) /\ Area(s) \in Nat
    BY <1>1, Z3 DEF Steps, Area
  <1>3. Area(s) # 0 /\ Height # 0
    <2>1. Area(s) = 0 => Steps(s) = 0
      BY <1>1, <1>2
    <2>2. Height = 0 => Area(s) = 0
      BY <1>1, <1>2
    <2> QED BY <2>1, <2>2
  <1> DEFINE ch == k \div Area(s)
             i  == k % Area(s)
             x  == i \div Height
             y  == i % Height
  <1>4. ch \in Nat /\ i \in 0 .. Area(s) - 1 /\ k = Area(s) * ch + i
    BY <1>2, <1>3, Division
  <1>5. i \in Nat /\ x \in Nat /\ y \in 0 .. Height - 1 /\ i = Height * x + y
    <2>1. i \in Nat
      BY <1>2, <1>4
    <2> HIDE DEF i
    <2> QED BY <1>1, <1>3, <2>1, Division
  <1> HIDE DEF ch, i, x, y
  <1>6. ch < Depth
    <2>1. Depth <= ch => Area(s) * Depth <= Area(s) * ch
      BY <1>1, <1>2, <1>4, ProductGrows
    <2> DEFINE m == Area(s) * ch
               n == Area(s) * Depth
    <2>2. m \in Nat /\ n \in Nat
      BY <1>1, <1>2, <1>4, ProductGrows
    <2>3. k = m + i /\ k < n /\ (Depth <= ch => n <= m)
      BY <1>2, <1>4, <2>1
    <2> HIDE DEF m, n
    <2> QED BY <1>1, <1>2, <1>4, <2>2, <2>3
  <1>7. x < StripWidth(s)
    <2>1. StripWidth(s) <= x => Height * StripWidth(s) <= Height * x
      BY <1>1, <1>5, ProductGrows
    <2> DEFINE m == Height * x
    <2>2. m \in Nat
      BY <1>1, <1>5, ProductGrows
    <2>3. i = m + y /\ (StripWidth(s) <= x => Area(s) <= m)
      BY <1>2, <1>5, <2>1
    <2> HIDE DEF m
    <2> QED BY <1>1, <1>2, <1>4, <1>5, <2>2, <2>3
  <1>8. ch \in Channels /\ x \in 0 .. StripWidth(s) - 1
    BY <1>1, <1>4, <1>5, <1>6, <1>7, ChannelRange
  <1>9. k = Step(s, ch, x, y)
    BY <1>4, <1>5 DEF Step
  <1> QED BY <1>5, <1>8, <1>9

\* ... and every place has a step.
LEMMA PlaceHasStep ==
  ASSUME NEW s \in Strips, NEW ch \in Channels, NEW x \in 0 .. StripWidth(s) - 1, NEW y \in 0 .. Height - 1
  PROVE  Step(s, ch, x, y) \in Nat /\ Step(s, ch, x, y) < Steps(s)
  <1>1. Height \in Nat /\ StripWidth(s) \in Nat /\ Depth \in Nat /\ ch \in Nat /\ ch < Depth /\ x \in Nat
    BY Widths, StripEnds, ChannelRange
  <1>2. Steps(s) = Area(s) * Depth
    BY <1>1, Z3 DEF Steps, Area
  <1> DEFINE i == Height * x + y
             m == Area(s) * ch
             n == Area(s) * Depth
  <1>3. Area(s) \in Nat \ {0} /\ i \in 0 .. Area(s) - 1
    BY <1>1, StepInStrip
  <1>4. m \in Nat /\ n \in Nat /\ Area(s) * (ch + 1) <= n
    BY <1>1, <1>3, ProductGrows
  <1>5. Area(s) * (ch + 1) = m + Area(s)
    BY <1>1, <1>3
  <1> HIDE DEF i, m, n
  <1>6. m + i \in Nat /\ m + i < n
    BY <1>3, <1>4, <1>5
  <1> QED BY <1>2, <1>6 DEF Step, i, m, n


\* The places of a strip are pixels of the image, ...
LEMMA PlaceInImage ==
  ASSUME NEW s \in Strips, NEW x \in 0 .. StripWidth(s) - 1, NEW y \in 0 .. Height - 1
  PROVE  <<W * s + x, y>> \in Pixels
  <1> DEFINE m == W * s
  <1>1. m \in Nat /\ StripWidth(s) \in Nat /\ m + StripWidth(s) <= Width
    BY StripEnds
  <1> HIDE DEF m
  <1>2. m + x \in 0 .. Width - 1
    BY <1>1, Widths
  <1> QED BY <1>2 DEF Pixels, m

\* ... no two of them are the same, ...
LEMMA PlacesDiffer ==
  ASSUME NEW s \in Strips, NEW ch, NEW x \in 0 .. StripWidth(s) - 1, NEW y,
         NEW t \in Strips, NEW d, NEW u \in 0 .. StripWidth(t) - 1, NEW v,
         Place(s, ch, x, y) = Place(t, d, u, v)
  PROVE  s = t /\ ch = d /\ x = u /\ y = v
  <1>1. ch = d /\ W * s + x = W * t + u /\ y = v
    BY DEF Place
  <1>2. s \in Nat /\ t \in Nat
    BY DEF Strips
  <1> DEFINE m == W * s
             n == W * t
  <1>3. /\ m \in Nat /\ StripWidth(s) \in Nat /\ (s < t => m + StripWidth(s) <= n)
        /\ n \in Nat /\ StripWidth(t) \in Nat /\ (t < s => n + StripWidth(t) <= m)
    BY StripEnds
  <1>4. m + x = n + u /\ (s = t => m = n)
    BY <1>1
  <1> HIDE DEF m, n
  <1>5. ~(s < t) /\ ~(t < s)
    BY <1>3, <1>4
  <1>6. s = t
    BY <1>2, <1>5
  <1> QED BY <1>1, <1>3, <1>4, <1>6

\* ... and every pixel is one of them, also when there are more strips than columns.
LEMMA PixelHasPlace ==
  ASSUME NEW p \in Pixels
  PROVE  \E s \in Strips : \E x \in 0 .. StripWidth(s) - 1, y \in 0 .. Height - 1 : p = <<W * s + x, y>>
  <1>1. PICK a \in 0 .. Width - 1, y \in 0 .. Height - 1 : p = <<a, y>>
    BY DEF Pixels
  <1> DEFINE m == W * (IMAGE_THREADS - 1)
  <1>2. m \in Nat /\ W \in Nat /\ a \in Nat /\ IMAGE_THREADS \in Nat \ {0} /\ Width \in Nat /\ a < Width
    BY <1>1, Widths
  <1> HIDE DEF m
  <1>3. CASE a >= m
    <2> DEFINE s == IMAGE_THREADS - 1
    <2>1. s \in Strips /\ StripWidth(s) = Width - m
      BY <1>2, Widths DEF Strips, m
    <2>2. a - m \in 0 .. StripWidth(s) - 1 /\ m + (a - m) = a
      BY <1>2, <1>3, <2>1
    <2>3. W * s = m
      BY DEF m
    <2> HIDE DEF s
    <2> QED BY <1>1, <2>1, <2>2, <2>3
  <1>4. CASE a < m
    <2>1. W # 0
      BY <1>2, <1>4, Widths DEF m
    <2> DEFINE s == a \div W
               x == a % W
    <2>2. s \in Nat /\ x \in 0 .. W - 1 /\ a = W * s + x
      BY <1>2, <2>1, Division
    <2> HIDE DEF s, x
    <2>3. s < IMAGE_THREADS - 1
      <3>1. IMAGE_THREADS - 1 <= s => m <= W * s
        BY <1>2, <2>2, ProductGrows DEF m
      <3> DEFINE n == W * s
      <3>2. n \in Nat /\ a = n + x /\ (IMAGE_THREADS - 1 <= s => m <= n)
        BY <1>2, <2>2, <3>1, ProductGrows
      <3> HIDE DEF n
      <3> QED BY <1>2, <1>4, <2>2, <3>2
    <2>4. s \in Strips /\ StripWidth(s) = W
      BY <1>2, <2>2, <2>3, Widths DEF Strips
    <2> QED BY <1>1, <2>2, <2>4
  <1> QED BY <1>2, <1>3, <1>4

-----------------------------------------------------------------------------
\* A channel of a pixel has been equalized when a strip has done the step of that place.
Done(p, ch) == \E s \in Strips, k \in Nat : k < work[s] /\ Cell(s, k) = [channel |-> ch, pixel |-> p]

\* A cfh is there, or its thread has not come to it.
CfhInv ==
  /\ DOMAIN cfh = Channels /\ DOMAIN counted = Channels
  /\ \A ch \in Channels : cfh[ch] = <<>> \/ (DOMAIN cfh[ch] = Bins /\ cfh[ch] # <<>>)
  /\ \A ch \in Channels : counted[ch] < Width * Height => cfh[ch] = <<>>

\* The image where every place that is done has been equalized with the cfh there is.
Equalizing == [p \in Pixels |-> [ch \in Channels |->
                 IF Done(p, ch) THEN Equalized(original[p][ch], cfh[ch]) ELSE original[p][ch]]]

\* The second threads begin when the first have ended, and what they have done is in the image.
ImageInv ==
  /\ original \in Images
  /\ CfhInv
  /\ work \in [Strips -> Nat] /\ \A s \in Strips : work[s] <= Steps(s)
  /\ (\E ch \in Channels : cfh[ch] = <<>>) => \A s \in Strips : work[s] = 0
  /\ image = Equalizing

LEMMA CumulatedIsThere == \A histogram : DOMAIN Cumulated(histogram) = Bins /\ Cumulated(histogram) # <<>>
  <1> TAKE histogram
  <1>1. 0 \in DOMAIN Cumulated(histogram)
    BY ImageAssumption DEF Cumulated, Bins
  <1>2. 0 \notin DOMAIN <<>>
    OBVIOUS
  <1>3. DOMAIN Cumulated(histogram) = Bins
    BY DEF Cumulated
  <1> QED BY <1>1, <1>2, <1>3

\* A step of a strip concerns a place that has not been touched.
LEMMA CellIsNew ==
  ASSUME ImageInv, NEW s \in Strips, work[s] < Steps(s)
  PROVE  LET c == Cell(s, work[s])
         IN  /\ c.pixel \in Pixels /\ c.channel \in Channels /\ ~Done(c.pixel, c.channel)
             /\ c = [channel |-> c.channel, pixel |-> c.pixel]
  <1>1. work[s] \in Nat
    BY DEF ImageInv
  <1>2. PICK ch \in Channels, x \in 0 .. StripWidth(s) - 1, y \in 0 .. Height - 1 :
          work[s] = Step(s, ch, x, y)
    BY <1>1, StepOfPlace
  <1>3. x \in Nat /\ x < StripWidth(s) /\ ch \in Nat
    BY StripEnds, ChannelRange
  <1>4. Cell(s, work[s]) = Place(s, ch, x, y)
    BY <1>2, <1>3, CellIsPlace
  <1>5. ASSUME Done(<<W * s + x, y>>, ch) PROVE FALSE
    <2>1. PICK t \in Strips, k \in Nat : k < work[t] /\ Cell(t, k) = Place(s, ch, x, y)
      BY <1>5 DEF Done, Place
    <2>2. work[t] \in Nat /\ work[t] <= Steps(t) /\ Steps(t) \in Int
      <3>1. Depth \in Nat /\ StripWidth(t) \in Nat /\ Height \in Nat
        BY Widths, StripEnds, ChannelRange
      <3>2. Steps(t) \in Int
        BY <3>1 DEF Steps
      <3> QED BY <3>2 DEF ImageInv
    <2>3. k < Steps(t)
      BY <2>1, <2>2
    <2>4. PICK d \in Channels, u \in 0 .. StripWidth(t) - 1, v \in 0 .. Height - 1 : k = Step(t, d, u, v)
      BY <2>3, StepOfPlace
    <2>5. u \in Nat /\ u < StripWidth(t) /\ d \in Nat
      BY StripEnds, ChannelRange
    <2>6. Place(t, d, u, v) = Place(s, ch, x, y)
      BY <2>1, <2>4, <2>5, CellIsPlace
    <2>7. t = s /\ d = ch /\ u = x /\ v = y
      BY <2>6, PlacesDiffer
    <2> QED BY <1>1, <1>2, <2>1, <2>4, <2>7
  <1>6. <<W * s + x, y>> \in Pixels
    BY PlaceInImage
  <1> QED BY <1>4, <1>5, <1>6 DEF Place


LEMMA InitIsImage == EqualizationInit => ImageInv
  <1> SUFFICES ASSUME EqualizationInit PROVE ImageInv
    OBVIOUS
  <1>1. original \in [Pixels -> [Channels -> Intensities]] /\ original \in Images
    BY ImageAssumption DEF EqualizationInit
  <1>2. \A s \in Strips : Steps(s) \in Nat
    <2> TAKE s \in Strips
    <2>1. Depth \in Nat /\ StripWidth(s) \in Nat /\ Height \in Nat
      BY Widths, StripEnds, ChannelRange
    <2>2. Depth * StripWidth(s) \in Nat
      BY <2>1, ProductGrows
    <2> HIDE DEF Depth
    <2>3. Depth * StripWidth(s) * Height \in Nat
      BY <2>1, <2>2, ProductGrows
    <2> QED BY <2>3 DEF Steps
  <1>3. \A p, ch : ~Done(p, ch)
    BY DEF Done, EqualizationInit
  <1>4. image = Equalizing
    BY <1>1, <1>3 DEF EqualizationInit, Equalizing
  <1>5. work \in [Strips -> Nat] /\ \A s \in Strips : work[s] = 0
    BY DEF EqualizationInit
  <1>6. CfhInv
    BY DEF EqualizationInit, CfhInv
  <1> QED BY <1>1, <1>2, <1>4, <1>5, <1>6 DEF ImageInv

\* While a channel has no cfh the image is as it was, whatever the cfhs of the others become.
LEMMA BeforeTheStrips ==
  ASSUME ImageInv, NEW ch \in Channels, cfh[ch] = <<>>, CfhInv', UNCHANGED <<image, work, original>>
  PROVE  ImageInv'
  <1>1. original \in [Pixels -> [Channels -> Intensities]]
    BY ImageAssumption DEF ImageInv
  <1>2. \A s \in Strips : work[s] = 0
    BY DEF ImageInv
  <1>3. \A p, c : ~Done(p, c) /\ ~Done(p, c)'
    BY <1>2 DEF Done
  <1>4. image = original
    BY <1>1, <1>3 DEF ImageInv, Equalizing
  <1>5. image' = Equalizing'
    BY <1>1, <1>3, <1>4 DEF Equalizing
  <1> QED BY <1>2, <1>5 DEF ImageInv

\* A count behind the last histogram changes no cfh but one that is there.
LEMMA CountKeeps ==
  ASSUME ImageInv, NEW ch \in Channels, CountPixel(ch)
  PROVE  ImageInv'
  <1>1. /\ counted[ch] < Width * Height /\ counted' = [counted EXCEPT ![ch] = @ + 1]
        /\ UNCHANGED <<image, work, original>>
        /\ cfh' = cfh \/ (cfh[0] # <<>> /\ cfh' = [cfh EXCEPT ![0][0] = @ + 1])
    BY DEF CountPixel, Increments
  <1>2. cfh[ch] = <<>> /\ CfhInv
    BY <1>1 DEF ImageInv, CfhInv
  <1>3. 0 \in Channels /\ 0 \in Bins
    BY ImageAssumption, ChannelRange DEF Bins
  <1>4. DOMAIN cfh' = Channels /\ DOMAIN counted' = Channels
    BY <1>1, <1>2 DEF CfhInv
  <1>5. \A c \in Channels : cfh[c] = <<>> => cfh'[c] = <<>>
    BY <1>1, <1>2, <1>3 DEF CfhInv
  <1>6. \A c \in Channels : cfh'[c] = <<>> \/ (DOMAIN cfh'[c] = Bins /\ cfh'[c] # <<>>)
    <2> TAKE c \in Channels
    <2>1. CASE cfh'[c] = cfh[c]
      BY <1>2, <2>1 DEF CfhInv
    <2>2. CASE cfh'[c] # cfh[c]
      <3>1. c = 0 /\ cfh[0] # <<>> /\ cfh'[0] = [cfh[0] EXCEPT ![0] = @ + 1]
        BY <1>1, <1>2, <1>3, <2>2 DEF CfhInv
      <3>2. DOMAIN cfh'[0] = Bins
        BY <1>2, <1>3, <3>1 DEF CfhInv
      <3>3. DOMAIN <<>> # Bins
        <4>1. 0 \notin DOMAIN <<>>
          OBVIOUS
        <4> QED BY <1>3, <4>1
      <3> QED BY <3>1, <3>2, <3>3
    <2> QED BY <2>1, <2>2
  <1>7. \A c \in Channels : counted'[c] < Width * Height => cfh'[c] = <<>>
    <2> TAKE c \in Channels
    <2>1. CASE c = ch
      BY <1>2, <1>5, <2>1
    <2>2. CASE c # ch
      BY <1>1, <1>2, <1>5, <2>2 DEF CfhInv
    <2> QED BY <2>1, <2>2
  <1>8. CfhInv'
    BY <1>4, <1>6, <1>7 DEF CfhInv
  <1> QED BY <1>1, <1>2, <1>8, BeforeTheStrips

LEMMA CumulateKeeps ==
  ASSUME ImageInv, NEW ch \in Channels, CumulateHistogram(ch)
  PROVE  ImageInv'
  <1>1. /\ counted[ch] = Width * Height /\ cfh[ch] = <<>> /\ cfh' = [cfh EXCEPT ![ch] = Cumulated(hist[ch])]
        /\ UNCHANGED <<image, counted, work, original>>
    BY DEF CumulateHistogram
  <1>2. CfhInv
    BY DEF ImageInv
  <1>3. Width * Height \in Int
    BY ImageAssumption
  <1>4. /\ DOMAIN cfh' = Channels /\ cfh'[ch] = Cumulated(hist[ch])
        /\ \A c \in Channels \ {ch} : cfh'[c] = cfh[c]
    BY <1>1, <1>2 DEF CfhInv
  <1>5. DOMAIN cfh'[ch] = Bins /\ cfh'[ch] # <<>>
    BY <1>4, CumulatedIsThere
  <1>6. ~(counted[ch] < Width * Height)
    BY <1>1, <1>3
  <1>7. CfhInv'
    BY <1>1, <1>2, <1>4, <1>5, <1>6 DEF CfhInv
  <1> QED BY <1>1, <1>7, BeforeTheStrips

\* A strip equalizes one channel of one pixel.
LEMMA StripKeeps ==
  ASSUME ImageInv, NEW s \in Strips, StripThread(s)
  PROVE  ImageInv'
  <1> DEFINE c == Cell(s, work[s])
  <1>1. /\ \A ch \in Channels : cfh[ch] # <<>>
        /\ work[s] < Steps(s)
        /\ image' = [image EXCEPT ![c.pixel][c.channel] = Equalized(@, cfh[c.channel])]
        /\ work' = [work EXCEPT ![s] = @ + 1]
        /\ UNCHANGED <<counted, cfh, original>>
    BY DEF StripThread, Steps, Depth
  <1>2. c.pixel \in Pixels /\ c.channel \in Channels /\ ~Done(c.pixel, c.channel)
        /\ c = [channel |-> c.channel, pixel |-> c.pixel]
    BY <1>1, CellIsNew
  <1>3. work \in [Strips -> Nat] /\ original \in [Pixels -> [Channels -> Intensities]]
    BY ImageAssumption DEF ImageInv
  <1>4. \A p, ch : Done(p, ch)' <=> Done(p, ch) \/ (p = c.pixel /\ ch = c.channel)
    <2> TAKE p, ch
    <2> DEFINE here == [channel |-> ch, pixel |-> p]
    <2>1. ASSUME NEW t \in Strips, NEW k \in Nat
          PROVE  k < work'[t] <=> k < work[t] \/ (t = s /\ k = work[s])
      BY <1>1, <1>3
    <2>2. Cell(s, work[s]) = here <=> p = c.pixel /\ ch = c.channel
      BY <1>2
    <2> HIDE DEF c
    <2>3. work[s] \in Nat
      BY <1>3
    <2> HIDE DEF here
    <2>4. (\E t \in Strips, k \in Nat : k < work'[t] /\ Cell(t, k) = here)
          <=> \/ \E t \in Strips, k \in Nat : k < work[t] /\ Cell(t, k) = here
              \/ Cell(s, work[s]) = here
      BY <2>1, <2>3
    <2> QED BY <2>2, <2>4 DEF Done, here
  <1> HIDE DEF c
  <1>5. image' = Equalizing'
    <2> DEFINE Value(p, ch) == IF Done(p, ch) THEN Equalized(original[p][ch], cfh[ch]) ELSE original[p][ch]
    <2>1. image = [p \in Pixels |-> [ch \in Channels |-> Value(p, ch)]]
      BY DEF ImageInv, Equalizing
    <2>2. Value(c.pixel, c.channel) = original[c.pixel][c.channel]
      BY <1>2
    <2> HIDE DEF Value
    <2>3. image' = [p \in Pixels |-> [ch \in Channels |->
                     IF p = c.pixel /\ ch = c.channel THEN Equalized(original[p][ch], cfh[ch]) ELSE Value(p, ch)]]
      BY <1>1, <1>2, <2>1, <2>2
    <2>4. \A p \in Pixels, ch \in Channels :
            (IF p = c.pixel /\ ch = c.channel THEN Equalized(original[p][ch], cfh[ch]) ELSE Value(p, ch))
            = IF Done(p, ch)' THEN Equalized(original'[p][ch], cfh'[ch]) ELSE original'[p][ch]
      BY <1>1, <1>4 DEF Value
    <2> QED BY <2>3, <2>4 DEF Equalizing
  <1>6. work' \in [Strips -> Nat] /\ \A t \in Strips : work'[t] <= Steps(t)
    <2>1. Steps(s) \in Int
      <3>1. Depth \in Nat /\ StripWidth(s) \in Nat /\ Height \in Nat
        BY Widths, StripEnds, ChannelRange
      <3> QED BY <3>1 DEF Steps
    <2> QED BY <1>1, <1>3, <2>1 DEF ImageInv
  <1>7. CfhInv'
    BY <1>1 DEF ImageInv, CfhInv
  <1> QED BY <1>1, <1>5, <1>6, <1>7 DEF ImageInv

\* The image is the original with every channel equalized that a strip has been at, for any size
\* of the image, any number of threads and channels, any intensities and whatever the memory of
\* the histograms held (doHistogramEqualizationMultithread).
THEOREM ImageInvariant == EqualizationSpec => []ImageInv
  <1>1. ASSUME ImageInv, [EqualizationNext]_imageVars PROVE ImageInv'
    <2>1. CASE UNCHANGED imageVars
      <3>1. /\ original' = original /\ counted' = counted /\ cfh' = cfh /\ work' = work /\ image' = image
            /\ \A p, ch : Done(p, ch)' <=> Done(p, ch)
        BY <2>1 DEF imageVars, Done
      <3>2. CfhInv' /\ Equalizing' = Equalizing
        BY <1>1, <3>1 DEF ImageInv, CfhInv, Equalizing
      <3> QED BY <1>1, <3>1, <3>2 DEF ImageInv
    <2> QED BY <1>1, <2>1, CountKeeps, CumulateKeeps, StripKeeps DEF EqualizationNext
  <1> QED BY <1>1, InitIsImage, PTL DEF EqualizationSpec

\* When the threads have ended every pixel has been equalized exactly once, and no cfh has changed
\* between two pixels.
THEOREM PixelsEqualizedOnce == EqualizationSpec => []EqualizedOnce
  <1>1. ASSUME ImageInv, Joined
        PROVE  image = [p \in Pixels |-> [ch \in Channels |-> Equalized(original[p][ch], cfh[ch])]]
    <2>1. ASSUME NEW p \in Pixels, NEW ch \in Channels PROVE Done(p, ch)
      <3>1. PICK s \in Strips : \E x \in 0 .. StripWidth(s) - 1, y \in 0 .. Height - 1 : p = <<W * s + x, y>>
        BY PixelHasPlace
      <3>2. PICK x \in 0 .. StripWidth(s) - 1, y \in 0 .. Height - 1 : p = <<W * s + x, y>>
        BY <3>1
      <3>3. x \in Nat /\ x < StripWidth(s) /\ ch \in Nat
        BY StripEnds, ChannelRange
      <3>4. Step(s, ch, x, y) \in Nat /\ Step(s, ch, x, y) < work[s]
        BY <1>1, PlaceHasStep DEF Joined, Steps, Depth
      <3>5. Cell(s, Step(s, ch, x, y)) = [channel |-> ch, pixel |-> p]
        BY <3>2, <3>3, CellIsPlace DEF Place
      <3> QED BY <3>4, <3>5 DEF Done
    <2> QED BY <1>1, <2>1 DEF ImageInv, Equalizing
  <1>2. ImageInv => EqualizedOnce
    BY <1>1 DEF EqualizedOnce
  <1> QED BY <1>2, ImageInvariant, PTL

-----------------------------------------------------------------------------
(* The words of a file: letters *)

\* The elements whose positions are in T, told from what the elements are.
PickedStep(S) == [p \in Seq(S) \X S |-> IF IsLetter(p[2]) THEN Append(p[1], p[2]) ELSE p[1]]

IsPicked(w, s, S) == RunsOver(w, s, Seq(S), <<>>, PickedStep(S))

LEMMA LettersPicked ==
  ASSUME NEW S, NEW s \in Seq(S)
  PROVE  \E w : IsPicked(w, s, S) /\ Letters(s) = w[Len(s)]
  <1> DEFINE T == {i \in DOMAIN s : IsLetter(s[i])}
             n == Len(s)
             F == CHOOSE f : IsKept(f, s, T, n)
  <1>1. n \in Nat /\ DOMAIN s = 1 .. n /\ (\A i \in 1 .. n : s[i] \in S) /\ <<>> \in Seq(S)
    OBVIOUS
  <1>2. Letters(s) = F[n]
    BY DEF Letters, Selected, IsKept
  <1>3. IsKept(F, s, T, n)
    <2> HIDE DEF T
    <2>1. \E f : IsKept(f, s, T, n)
      BY <1>1, KeptExists
    <2> HIDE DEF n
    <2> QED BY <2>1
  <1> HIDE DEF F
  <1>4. F[0] = <<>> /\ \A i \in 1 .. n : F[i] = IF IsLetter(s[i]) THEN Append(F[i - 1], s[i]) ELSE F[i - 1]
    <2>1. F[0] = <<>>
      BY <1>1, <1>3 DEF IsKept
    <2>2. ASSUME NEW i \in 1 .. n PROVE F[i] = IF IsLetter(s[i]) THEN Append(F[i - 1], s[i]) ELSE F[i - 1]
      <3>1. i \in 0 .. n /\ i # 0 /\ (i \in T <=> IsLetter(s[i]))
        BY <1>1
      <3> HIDE DEF T, n
      <3> QED BY <1>3, <3>1 DEF IsKept
    <2> QED BY <2>1, <2>2
  <1>5. PickedStep(S) \in [Seq(S) \X S -> Seq(S)]
    <2>1. \A t \in Seq(S), c \in S : Append(t, c) \in Seq(S)
      OBVIOUS
    <2> QED BY <2>1 DEF PickedStep
  <1>6. FollowsIn(F, s, Seq(S), PickedStep(S))
    <2> SUFFICES ASSUME NEW i \in 1 .. n, F[i - 1] \in Seq(S) PROVE F[i] = PickedStep(S)[<<F[i - 1], s[i]>>]
      BY DEF FollowsIn
    <2> QED BY <1>1, <1>4 DEF PickedStep
  <1>7. F = [i \in 0 .. n |-> F[i]]
    BY <1>3 DEF IsKept
  <1>8. IsPicked(F, s, S)
    BY <1>1, <1>4, <1>5, <1>6, <1>7, RunTyped DEF IsPicked
  <1> QED BY <1>2, <1>8

\* One more character is one more letter, or none.
LEMMA LettersAppended ==
  ASSUME NEW S, NEW s \in Seq(S), NEW c \in S
  PROVE  /\ Letters(s) \in Seq(S)
         /\ Letters(Append(s, c)) = IF IsLetter(c) THEN Append(Letters(s), c) ELSE Letters(s)
  <1> DEFINE more == Append(s, c)
  <1>1. more \in Seq(S) /\ Len(s) \in Nat
    OBVIOUS
  <1>2. PICK w : IsPicked(w, s, S) /\ Letters(s) = w[Len(s)]
    BY LettersPicked
  <1>3. PICK v : IsPicked(v, more, S) /\ Letters(more) = v[Len(more)]
    <2> HIDE DEF more
    <2> QED BY <1>1, LettersPicked
  <1>4. Letters(s) \in Seq(S)
    BY <1>1, <1>2 DEF IsPicked, RunsOver
  <1>5. v[Len(more)] = PickedStep(S)[<<w[Len(s)], c>>]
    BY <1>2, <1>3, RunAppended DEF IsPicked
  <1> QED BY <1>2, <1>3, <1>4, <1>5 DEF PickedStep

LEMMA NoLetters == Letters(<<>>) = <<>>
  <1>1. PICK w : IsPicked(w, <<>>, {}) /\ Letters(<<>>) = w[Len(<<>>)]
    <2>1. <<>> \in Seq({})
      BY EmptySeq
    <2> QED BY <2>1, LettersPicked
  <1> QED BY <1>1 DEF IsPicked, RunsOver

\* The letters of several words.
JoinStep(S) == [p \in Seq(S) \X Seq(S) |-> p[1] \o Letters(p[2])]

IsJoin(f, words) == f = [i \in 0 .. Len(words) |-> IF i = 0 THEN <<>> ELSE f[i - 1] \o Letters(words[i])]

LEMMA AllLettersJoined ==
  ASSUME NEW S, NEW words \in Seq(Seq(S))
  PROVE  \E w : RunsOver(w, words, Seq(S), <<>>, JoinStep(S)) /\ AllLetters(words) = w[Len(words)]
  <1> DEFINE n == Len(words)
             F == CHOOSE f : IsJoin(f, words)
  <1>1. n \in Nat /\ (\A i \in 1 .. n : words[i] \in Seq(S)) /\ <<>> \in Seq(S)
    OBVIOUS
  <1>2. \A t, u \in Seq(S) : JoinStep(S)[<<t, u>>] = t \o Letters(u) /\ t \o Letters(u) \in Seq(S)
    <2> TAKE t, u \in Seq(S)
    <2>1. Letters(u) \in Seq(S)
      <3>1. PICK w : IsPicked(w, u, S) /\ Letters(u) = w[Len(u)]
        BY LettersPicked
      <3>2. Len(u) \in 0 .. Len(u)
        OBVIOUS
      <3> QED BY <3>1, <3>2 DEF IsPicked, RunsOver
    <2>2. t \o Letters(u) \in Seq(S)
      BY <2>1
    <2>3. JoinStep(S)[<<t, u>>] = t \o Letters(u)
      BY DEF JoinStep
    <2> QED BY <2>2, <2>3
  <1>3. JoinStep(S) \in [Seq(S) \X Seq(S) -> Seq(S)]
    BY <1>2 DEF JoinStep
  <1>4. PICK w : RunsOver(w, words, Seq(S), <<>>, JoinStep(S))
    BY <1>1, <1>3, RunExists
  <1>5. IsJoin(w, words)
    <2>1. ASSUME NEW i \in 0 .. n PROVE w[i] = IF i = 0 THEN <<>> ELSE w[i - 1] \o Letters(words[i])
      <3>1. CASE i = 0
        BY <1>4, <3>1 DEF RunsOver
      <3>2. CASE i # 0
        <4>1. i \in 1 .. n /\ i - 1 \in 0 .. n
          BY <1>1, <3>2
        <4>2. w[i - 1] \in Seq(S) /\ words[i] \in Seq(S) /\ w[i] = JoinStep(S)[<<w[i - 1], words[i]>>]
          BY <1>1, <1>4, <4>1 DEF RunsOver
        <4> QED BY <1>2, <3>2, <4>2
      <3> QED BY <3>1, <3>2
    <2>2. w \in [0 .. n -> Seq(S)]
      BY <1>4 DEF RunsOver
    <2> QED BY <2>1, <2>2 DEF IsJoin
  <1>6. IsJoin(F, words)
    BY <1>5
  <1>7. AllLetters(words) = F[n]
    BY DEF AllLetters, IsJoin
  <1> HIDE DEF F
  <1>8. F = [i \in 0 .. n |-> F[i]] /\ F[0] = <<>> /\ \A i \in 1 .. n : F[i] = F[i - 1] \o Letters(words[i])
    <2>1. F[0] = <<>>
      BY <1>1, <1>6 DEF IsJoin
    <2>2. ASSUME NEW i \in 1 .. n PROVE F[i] = F[i - 1] \o Letters(words[i])
      <3>1. i \in 0 .. n /\ i # 0
        BY <1>1
      <3> HIDE DEF n
      <3> QED BY <1>6, <3>1 DEF IsJoin, n
    <2> QED BY <1>6, <2>1, <2>2 DEF IsJoin
  <1>9. FollowsIn(F, words, Seq(S), JoinStep(S))
    <2> SUFFICES ASSUME NEW i \in 1 .. n, F[i - 1] \in Seq(S) PROVE F[i] = JoinStep(S)[<<F[i - 1], words[i]>>]
      BY DEF FollowsIn
    <2> QED BY <1>1, <1>2, <1>8
  <1>10. RunsOver(F, words, Seq(S), <<>>, JoinStep(S))
    BY <1>1, <1>3, <1>8, <1>9, RunTyped
  <1> QED BY <1>7, <1>10

LEMMA AllLettersAppended ==
  ASSUME NEW S, NEW words \in Seq(Seq(S)), NEW word \in Seq(S)
  PROVE  /\ AllLetters(words) \in Seq(S)
         /\ AllLetters(Append(words, word)) = AllLetters(words) \o Letters(word)
  <1> DEFINE more == Append(words, word)
  <1>1. more \in Seq(Seq(S)) /\ Len(words) \in Nat
    OBVIOUS
  <1>2. PICK w : RunsOver(w, words, Seq(S), <<>>, JoinStep(S)) /\ AllLetters(words) = w[Len(words)]
    BY AllLettersJoined
  <1>3. PICK v : RunsOver(v, more, Seq(S), <<>>, JoinStep(S)) /\ AllLetters(more) = v[Len(more)]
    <2> HIDE DEF more
    <2> QED BY <1>1, AllLettersJoined
  <1>4. AllLetters(words) \in Seq(S)
    BY <1>1, <1>2 DEF RunsOver
  <1>5. v[Len(more)] = JoinStep(S)[<<w[Len(words)], word>>]
    <2> DEFINE step == JoinStep(S)
               E    == Seq(S)
    <2>1. RunsOver(w, words, E, <<>>, step) /\ RunsOver(v, Append(words, word), E, <<>>, step)
      BY <1>2, <1>3
    <2>2. words \in Seq(E) /\ word \in E
      OBVIOUS
    <2> HIDE DEF step, E
    <2>3. v[Len(Append(words, word))] = step[<<w[Len(words)], word>>]
      BY <2>1, <2>2, RunAppended
    <2> QED BY <2>3 DEF step
  <1> QED BY <1>2, <1>3, <1>4, <1>5 DEF JoinStep

LEMMA NoWordsNoLetters == AllLetters(<<>>) = <<>>
  <1>1. PICK w : RunsOver(w, <<>>, Seq({}), <<>>, JoinStep({})) /\ AllLetters(<<>>) = w[Len(<<>>)]
    <2>1. <<>> \in Seq(Seq({}))
      BY EmptySeq
    <2> QED BY <2>1, AllLettersJoined
  <1> QED BY <1>1 DEF RunsOver

-----------------------------------------------------------------------------
(* The words of a file: the words of a line *)

\* A word that is being read: it does not begin with a dash and has no two in a row.
IsBegun(word) ==
  /\ word # <<>> => word[1] # "-"
  /\ \A j \in 1 .. Len(word) - 1 : ~(word[j] = "-" /\ word[j + 1] = "-")

\* Characters of a line, and those of its words.
Lowers(S, Small) ==
  ")" \in S /\ "-" \in Small /\ \A c \in S : IsLetter(c) => Lower[c] \in Small /\ IsLetter(Lower[c])

Found(Small) == [words : Seq(Seq(Small)), word : Seq(Small)]

\* What is known when the characters of read have been read.
ScanInv(s, read, Small) ==
  /\ s \in Found(Small)
  /\ \A k \in 1 .. Len(s.words) : IsCleanWord(s.words[k])
  /\ IsBegun(s.word)
  /\ s.word # <<>> /\ s.word[Len(s.word)] = "-" => read # <<>> /\ read[Len(read)] = "-"
  /\ AllLetters(s.words) \o Letters(s.word) = InSmall(Letters(read))

LEMMA FinishedWord ==
  ASSUME NEW Small, "-" \in Small, NEW word \in Seq(Small), word # <<>>, IsBegun(word)
  PROVE  Finished(word) \in Seq(Small) /\ IsCleanWord(Finished(word)) /\ Letters(Finished(word)) = Letters(word)
  <1> DEFINE n     == Len(word)
             front == SubSeq(word, 1, n - 1)
  <1>1. n \in Nat /\ n > 0 /\ word[1] # "-"
    BY EmptySeq DEF IsBegun
  <1>2. CASE word[n] # "-"
    BY <1>1, <1>2 DEF Finished, IsCleanWord, IsBegun
  <1>3. CASE word[n] = "-"
    <2>1. n > 1 /\ word[n - 1] # "-"
      <3>1. n # 1
        BY <1>1, <1>3
      <3> HIDE DEF n
      <3>2. n - 1 \in 1 .. n - 1 /\ (n - 1) + 1 = n
        BY <1>1, <3>1
      <3> USE DEF n
      <3>3. ~(word[n - 1] = "-" /\ word[(n - 1) + 1] = "-")
        BY <3>2 DEF IsBegun
      <3> QED BY <1>1, <1>3, <3>1, <3>2, <3>3
    <2>2. front \in Seq(Small) /\ Len(front) = n - 1 /\ \A i \in 1 .. n - 1 : front[i] = word[i]
      BY <2>1
    <2>3. word = Append(front, "-")
      <3> DEFINE more == Append(front, "-")
      <3>1. more \in Seq(Small) /\ Len(more) = n /\ \A i \in 1 .. n : more[i] = word[i]
        <4> HIDE DEF front
        <4>1. Len(more) = n /\ more[n] = "-" /\ \A i \in 1 .. n - 1 : more[i] = word[i]
          BY <1>1, <2>2, AppendProperties
        <4>2. more \in Seq(Small)
          BY <2>2, AppendProperties
        <4> QED BY <1>1, <1>3, <4>1, <4>2
      <3> HIDE DEF more
      <3>2. word = more
        BY <3>1, SeqEqual
      <3> QED BY <3>2 DEF more
    <2>4. IsCleanWord(front)
      <3> HIDE DEF front, n
      <3>1. front # <<>>
        BY <1>1, <2>1, <2>2, EmptySeq
      <3>2. front[1] # "-" /\ front[Len(front)] # "-"
        <4>1. 1 \in 1 .. n - 1 /\ n - 1 \in 1 .. n - 1
          BY <1>1, <2>1
        <4> QED BY <1>1, <2>1, <2>2, <4>1
      <3>3. \A j \in 1 .. Len(front) - 1 : ~(front[j] = "-" /\ front[j + 1] = "-")
        <4> TAKE j \in 1 .. Len(front) - 1
        <4>1. j \in 1 .. n - 1 /\ j + 1 \in 1 .. n - 1
          BY <1>1, <2>2
        <4> QED BY <2>2, <4>1 DEF IsBegun, n
      <3> QED BY <3>1, <3>2, <3>3 DEF IsCleanWord
    <2> HIDE DEF front
    <2>5. Letters(Append(front, "-")) = Letters(front)
      <3>1. ~IsLetter("-")
        BY DEF IsLetter
      <3> QED BY <2>2, <3>1, LettersAppended
    <2>6. Finished(word) = front
      BY <1>3 DEF Finished, front
    <2> QED BY <2>2, <2>3, <2>4, <2>5, <2>6
  <1> QED BY <1>2, <1>3

LEMMA SmallAppended ==
  ASSUME NEW S, NEW t \in Seq(S), NEW c \in S
  PROVE  InSmall(Append(t, c)) = Append(InSmall(t), Lower[c])
  <1> DEFINE n == Len(t)
             a == InSmall(Append(t, c))
             b == Append(InSmall(t), Lower[c])
  <1>1. n \in Nat /\ Len(Append(t, c)) = n + 1 /\ Append(t, c)[n + 1] = c /\ \A i \in 1 .. n : Append(t, c)[i] = t[i]
    OBVIOUS
  <1>2. a = [i \in 1 .. n + 1 |-> Lower[Append(t, c)[i]]]
    BY <1>1 DEF InSmall
  <1>3. InSmall(t) \in Seq({Lower[t[i]] : i \in 1 .. n}) /\ Len(InSmall(t)) = n /\ \A i \in 1 .. n : InSmall(t)[i] = Lower[t[i]]
    <2>1. InSmall(t) = [i \in 1 .. n |-> Lower[t[i]]]
      BY DEF InSmall
    <2> QED BY <1>1, <2>1
  <1> HIDE DEF a
  <1>4. b = [i \in 1 .. n + 1 |-> IF i <= n THEN Lower[t[i]] ELSE Lower[c]]
    BY <1>1, <1>3
  <1>5. \A i \in 1 .. n + 1 : Lower[Append(t, c)[i]] = IF i <= n THEN Lower[t[i]] ELSE Lower[c]
    BY <1>1
  <1> HIDE DEF b, n
  <1>6. a = b
    BY <1>2, <1>4, <1>5
  <1> QED BY <1>6 DEF a, b

LEMMA NothingSmall == InSmall(<<>>) = <<>>
  BY DEF InSmall

\* A separator ends the word that is being read.
LEMMA SeparatorRead ==
  ASSUME NEW S, NEW Small, Lowers(S, Small), NEW read \in Seq(S), NEW c \in S, c \in Separators,
         NEW previous, NEW s,
         ScanInv(s, read, Small)
  PROVE  ScanInv(Scanned(s, c, previous), Append(read, c), Small)
  <1> DEFINE more == IF s.word = <<>> THEN s.words ELSE Append(s.words, Finished(s.word))
             new  == [words |-> more, word |-> <<>>]
  <1>1. Scanned(s, c, previous) = new
    BY DEF Scanned
  <1>2. s.words \in Seq(Seq(Small)) /\ s.word \in Seq(Small) /\ "-" \in Small
    BY DEF ScanInv, Found, Lowers
  <1>3. Letters(Append(read, c)) = Letters(read)
    BY LettersAppended DEF IsLetter
  <1>4. /\ more \in Seq(Seq(Small)) /\ \A k \in 1 .. Len(more) : IsCleanWord(more[k])
        /\ AllLetters(more) = AllLetters(s.words) \o Letters(s.word)
    <2>1. AllLetters(s.words) \in Seq(Small)
      BY <1>2, AllLettersAppended, EmptySeq
    <2>2. CASE s.word = <<>>
      <3>1. AllLetters(s.words) \o <<>> = AllLetters(s.words)
        BY <2>1, ConcatEmptySeq
      <3> QED BY <1>2, <2>2, <3>1, NoLetters DEF ScanInv
    <2>3. CASE s.word # <<>>
      <3> DEFINE word == Finished(s.word)
      <3>1. word \in Seq(Small) /\ IsCleanWord(word) /\ Letters(word) = Letters(s.word)
        BY <1>2, <2>3, FinishedWord DEF ScanInv
      <3> HIDE DEF word
      <3>2. /\ Append(s.words, word) \in Seq(Seq(Small)) /\ Len(Append(s.words, word)) = Len(s.words) + 1
            /\ \A k \in 1 .. Len(s.words) : Append(s.words, word)[k] = s.words[k]
            /\ Append(s.words, word)[Len(s.words) + 1] = word
        BY <1>2, <3>1, AppendProperties
      <3>3. \A k \in 1 .. Len(s.words) + 1 : IsCleanWord(Append(s.words, word)[k])
        <4> TAKE k \in 1 .. Len(s.words) + 1
        <4>1. Len(s.words) \in Nat
          BY <1>2
        <4>2. k \in 1 .. Len(s.words) \/ k = Len(s.words) + 1
          BY <4>1
        <4> QED BY <3>1, <3>2, <4>2 DEF ScanInv
      <3>4. AllLetters(Append(s.words, word)) = AllLetters(s.words) \o Letters(s.word)
        BY <1>2, <3>1, AllLettersAppended
      <3> QED BY <2>3, <3>2, <3>3, <3>4 DEF word
    <2> QED BY <2>2, <2>3
  <1> HIDE DEF more
  <1>5. AllLetters(more) \o Letters(<<>>) = InSmall(Letters(read))
    <2>1. AllLetters(more) \in Seq(Small)
      BY <1>2, <1>4, AllLettersAppended, EmptySeq
    <2>2. AllLetters(more) \o <<>> = AllLetters(more)
      BY <2>1, ConcatEmptySeq
    <2> QED BY <1>4, <2>2, NoLetters DEF ScanInv
  <1>6. new \in Found(Small) /\ IsBegun(<<>>)
    BY <1>4, EmptySeq DEF Found, IsBegun
  <1> QED BY <1>1, <1>3, <1>4, <1>5, <1>6 DEF ScanInv

\* A letter is added in small to the word that is being read.
LEMMA LetterRead ==
  ASSUME NEW S, NEW Small, Lowers(S, Small), NEW read \in Seq(S), NEW c \in S, IsLetter(c),
         NEW previous, NEW s,
         ScanInv(s, read, Small)
  PROVE  ScanInv(Scanned(s, c, previous), Append(read, c), Small)
  <1> DEFINE l    == Lower[c]
             word == Append(s.word, l)
             new  == [s EXCEPT !.word = word]
  <1>1. Scanned(s, c, previous) = new
    BY DEF Scanned, IsLetter
  <1>2. s \in Found(Small) /\ s.words \in Seq(Seq(Small)) /\ s.word \in Seq(Small) /\ l \in Small /\ IsLetter(l) /\ l # "-"
    BY DEF ScanInv, Found, Lowers, IsLetter
  <1> HIDE DEF l
  <1>3. /\ word \in Seq(Small) /\ word # <<>> /\ Len(word) = Len(s.word) + 1 /\ Len(s.word) \in Nat
        /\ \A i \in 1 .. Len(s.word) : word[i] = s.word[i]
        /\ word[Len(s.word) + 1] = l
    BY <1>2, AppendProperties
  <1>4. Letters(word) = Append(Letters(s.word), l) /\ Letters(s.word) \in Seq(Small)
    BY <1>2, LettersAppended
  <1> HIDE DEF word
  <1>5. new \in Found(Small) /\ new.words = s.words /\ new.word = word
    BY <1>2, <1>3 DEF Found
  <1> HIDE DEF new
  <1>6. IsBegun(word)
    <2>1. word[1] # "-"
      <3>1. CASE Len(s.word) = 0
        BY <1>2, <1>3, <3>1
      <3>2. CASE Len(s.word) # 0
        <4>1. 1 \in 1 .. Len(s.word) /\ s.word # <<>>
          BY <1>3, <3>2, EmptySeq
        <4> QED BY <1>3, <4>1 DEF ScanInv, IsBegun
      <3> QED BY <3>1, <3>2
    <2>2. ASSUME NEW j \in 1 .. Len(word) - 1 PROVE ~(word[j] = "-" /\ word[j + 1] = "-")
      <3>1. CASE j + 1 = Len(s.word) + 1
        BY <1>2, <1>3, <3>1
      <3>2. CASE j + 1 # Len(s.word) + 1
        <4>1. j \in 1 .. Len(s.word) - 1 /\ j \in 1 .. Len(s.word) /\ j + 1 \in 1 .. Len(s.word)
          BY <1>3, <3>2
        <4> QED BY <1>3, <4>1 DEF ScanInv, IsBegun
      <3> QED BY <3>1, <3>2
    <2> QED BY <2>1, <2>2 DEF IsBegun
  <1>7. AllLetters(s.words) \o Letters(word) = InSmall(Letters(Append(read, c)))
    <2>1. Letters(read) \in Seq(S) /\ Letters(Append(read, c)) = Append(Letters(read), c)
      BY LettersAppended
    <2>2. InSmall(Append(Letters(read), c)) = Append(InSmall(Letters(read)), l)
      BY <2>1, SmallAppended DEF l
    <2>3. AllLetters(s.words) \in Seq(Small)
      BY <1>2, AllLettersAppended, EmptySeq
    <2>4. \A a, b \in Seq(Small) : a \o Append(b, l) = Append(a \o b, l)
      BY <1>2
    <2> QED BY <1>4, <2>1, <2>2, <2>3, <2>4 DEF ScanInv
  <1>8. word[Len(word)] # "-"
    BY <1>2, <1>3
  <1> QED BY <1>1, <1>5, <1>6, <1>7, <1>8 DEF ScanInv

\* A dash is added when the word has begun and the character before is none.
LEMMA DashRead ==
  ASSUME NEW S, NEW Small, Lowers(S, Small), NEW read \in Seq(S), "-" \in S, "-" \notin Separators,
         NEW previous, NEW s,
         ScanInv(s, read, Small), read # <<>> => previous = read[Len(read)]
  PROVE  ScanInv(Scanned(s, "-", previous), Append(read, "-"), Small)
  <1> DEFINE word == Append(s.word, "-")
             new  == [s EXCEPT !.word = word]
             more == Append(read, "-")
  <1>1. s \in Found(Small) /\ s.words \in Seq(Seq(Small)) /\ s.word \in Seq(Small) /\ "-" \in Small /\ ~IsLetter("-")
    BY DEF ScanInv, Found, Lowers, IsLetter
  <1>2. Letters(more) = Letters(read)
    BY <1>1, LettersAppended
  <1>3. more # <<>> /\ more[Len(more)] = "-"
    BY AppendProperties
  <1> HIDE DEF more
  <1>4. CASE ~DashKept(s.word, previous)
    <2>1. Scanned(s, "-", previous) = s
      BY <1>4 DEF Scanned
    <2> QED BY <1>2, <1>3, <2>1 DEF ScanInv, more
  <1>5. CASE DashKept(s.word, previous)
    <2>1. Scanned(s, "-", previous) = new
      BY <1>5 DEF Scanned
    <2>2. s.word # <<>> /\ s.word[Len(s.word)] # "-"
      BY <1>5 DEF DashKept, ScanInv
    <2>3. /\ word \in Seq(Small) /\ word # <<>> /\ Len(word) = Len(s.word) + 1 /\ Len(s.word) \in Nat
          /\ \A i \in 1 .. Len(s.word) : word[i] = s.word[i]
      BY <1>1, AppendProperties
    <2>4. Letters(word) = Letters(s.word)
      BY <1>1, LettersAppended
    <2> HIDE DEF word
    <2>5. new \in Found(Small) /\ new.words = s.words /\ new.word = word
      BY <1>1, <2>3 DEF Found
    <2> HIDE DEF new
    <2>6. IsBegun(word)
      <3>1. Len(s.word) # 0
        BY <1>1, <2>2, EmptySeq
      <3>2. word[1] # "-"
        <4>1. 1 \in 1 .. Len(s.word)
          BY <2>3, <3>1
        <4> QED BY <2>2, <2>3, <4>1 DEF ScanInv, IsBegun
      <3>3. ASSUME NEW j \in 1 .. Len(word) - 1 PROVE ~(word[j] = "-" /\ word[j + 1] = "-")
        <4>1. CASE j = Len(s.word)
          BY <2>2, <2>3, <3>1, <4>1
        <4>2. CASE j # Len(s.word)
          <5>1. j \in 1 .. Len(s.word) - 1 /\ j \in 1 .. Len(s.word) /\ j + 1 \in 1 .. Len(s.word)
            BY <2>3, <4>2
          <5> QED BY <2>3, <5>1 DEF ScanInv, IsBegun
        <4> QED BY <4>1, <4>2
      <3> QED BY <3>2, <3>3 DEF IsBegun
    <2> QED BY <1>2, <1>3, <2>1, <2>4, <2>5, <2>6 DEF ScanInv, more
  <1> QED BY <1>4, <1>5

\* Whatever is read next, the words found are clean and have the letters read.
LEMMA ScannedInv ==
  ASSUME NEW S, NEW Small, Lowers(S, Small), NEW read \in Seq(S), NEW c \in S, "-" \notin Separators,
         NEW previous, NEW s,
         ScanInv(s, read, Small), read # <<>> => previous = read[Len(read)]
  PROVE  ScanInv(Scanned(s, c, previous), Append(read, c), Small)
  <1>1. CASE c \in Separators
    BY <1>1, SeparatorRead
  <1>2. CASE c = "-"
    BY <1>2, DashRead
  <1>3. CASE c \notin Separators /\ c # "-"
    BY <1>3, LetterRead DEF IsLetter
  <1> QED BY <1>1, <1>2, <1>3

LEMMA ScannedType ==
  ASSUME NEW S, NEW Small, Lowers(S, Small), NEW c \in S, NEW previous, NEW s \in Found(Small)
  PROVE  Scanned(s, c, previous) \in Found(Small)
  <1>1. s.words \in Seq(Seq(Small)) /\ s.word \in Seq(Small) /\ "-" \in Small /\ Len(s.word) \in Nat /\ <<>> \in Seq(Small)
    BY EmptySeq DEF Found, Lowers
  <1>2. CASE c \in Separators
    <2>1. s.word # <<>> => Finished(s.word) \in Seq(Small)
      BY <1>1, EmptySeq DEF Finished
    <2>2. s.word # <<>> => Append(s.words, Finished(s.word)) \in Seq(Seq(Small))
      BY <1>1, <2>1, AppendProperties
    <2> QED BY <1>1, <1>2, <2>2 DEF Scanned, Found
  <1>3. CASE c \notin Separators /\ c # "-"
    <2>1. Append(s.word, Lower[c]) \in Seq(Small)
      BY <1>1, <1>3 DEF Lowers, IsLetter
    <2> HIDE DEF Found
    <2>2. Scanned(s, c, previous) = [s EXCEPT !.word = Append(@, Lower[c])]
      BY <1>3 DEF Scanned
    <2> QED BY <1>1, <2>1, <2>2 DEF Found
  <1>4. CASE c \notin Separators /\ c = "-"
    <2>1. Append(s.word, "-") \in Seq(Small)
      BY <1>1
    <2>2. Scanned(s, c, previous) = s \/ Scanned(s, c, previous) = [s EXCEPT !.word = Append(@, "-")]
      BY <1>4 DEF Scanned
    <2> QED BY <1>1, <2>1, <2>2 DEF Found
  <1> QED BY <1>2, <1>3, <1>4

Nothing == [words |-> <<>>, word |-> <<>>]

Before(text, i) == IF i = 1 THEN ")" ELSE text[i - 1]

IsScan(f, text) ==
  f = [i \in 0 .. Len(text) |-> IF i = 0 THEN Nothing ELSE Scanned(f[i - 1], text[i], Before(text, i))]

LEMMA ScanExists ==
  ASSUME NEW S, NEW Small, Lowers(S, Small), NEW text \in Seq(S)
  PROVE  \E f : IsScan(f, text)
  <1> DEFINE n    == Len(text)
             step == [p \in (1 .. n) \X Found(Small) |-> Scanned(p[2], text[p[1]], Before(text, p[1]))]
  <1>1. n \in Nat /\ (\A i \in 1 .. n : text[i] \in S) /\ Nothing \in Found(Small)
    BY EmptySeq DEF Nothing, Found
  <1>2. \A i \in 1 .. n, v \in Found(Small) :
          step[<<i, v>>] = Scanned(v, text[i], Before(text, i)) /\ step[<<i, v>>] \in Found(Small)
    <2> TAKE i \in 1 .. n, v \in Found(Small)
    <2>1. step[<<i, v>>] = Scanned(v, text[i], Before(text, i))
      OBVIOUS
    <2>2. Scanned(v, text[i], Before(text, i)) \in Found(Small)
      BY <1>1, ScannedType
    <2> HIDE DEF step
    <2> QED BY <2>1, <2>2
  <1> HIDE DEF n, step
  <1>3. StaysIn(n, Found(Small), step)
    BY <1>2 DEF StaysIn
  <1>4. PICK w : RunsFrom(w, n, Found(Small), Nothing, step)
    BY <1>1, <1>3, RecursionExists
  <1>5. ASSUME NEW i \in 0 .. n PROVE w[i] = IF i = 0 THEN Nothing ELSE Scanned(w[i - 1], text[i], Before(text, i))
    <2>1. CASE i = 0
      BY <1>4, <2>1 DEF RunsFrom
    <2>2. CASE i # 0
      <3>1. i \in 1 .. n /\ i - 1 \in 0 .. n
        BY <1>1, <2>2
      <3>2. w[i - 1] \in Found(Small) /\ w[i] = step[<<i, w[i - 1]>>]
        BY <1>4, <3>1 DEF RunsFrom
      <3> QED BY <1>2, <2>2, <3>1, <3>2
    <2> QED BY <2>1, <2>2
  <1> QED BY <1>4, <1>5 DEF RunsFrom, IsScan, n

\* The words of a line are clean and have its letters.
LEMMA WordsAreClean ==
  ASSUME NEW S, NEW Small, Lowers(S, Small), ")" \in Separators, "-" \notin Separators, NEW line \in Seq(S)
  PROVE  FindWords(line) \in Seq(Seq(Small)) /\ CleanWords(line)
  <1> DEFINE text == Append(line, ")")
             n    == Len(text)
             F    == CHOOSE f : IsScan(f, text)
             G    == {i \in 0 .. n : ScanInv(F[i], SubSeq(text, 1, i), Small)}
  <1>1. /\ text \in Seq(S) /\ n \in Nat /\ n = Len(line) + 1 /\ text[n] = ")" /\ ")" \in S
        /\ \A i \in 1 .. n : text[i] \in S
    BY DEF Lowers
  <1>2. FindWords(line) = F[n].words
    BY DEF FindWords, IsScan, Nothing, Before
  <1>3. IsScan(F, text)
    <2>1. \E f : IsScan(f, text)
      BY <1>1, ScanExists
    <2> HIDE DEF text
    <2> QED BY <2>1
  <1> HIDE DEF F, text
  <1>4. F[0] = Nothing /\ \A i \in 1 .. n : F[i] = Scanned(F[i - 1], text[i], Before(text, i))
    BY <1>1, <1>3 DEF IsScan
  <1>5. 0 \in G
    <2>1. SubSeq(text, 1, 0) = <<>>
      BY <1>1, SubSeqProperties, EmptySeq
    <2>2. <<>> \o <<>> = <<>>
      OBVIOUS
    <2>3. <<>> \in Seq(Seq(Small)) /\ <<>> \in Seq(Small) /\ Len(<<>>) = 0
      BY EmptySeq
    <2>4. ScanInv(Nothing, <<>>, Small)
      <3> DEFINE s == Nothing
      <3>1. s \in Found(Small) /\ s.words = <<>> /\ s.word = <<>>
        BY <2>3 DEF Nothing, Found
      <3> HIDE DEF s
      <3>2. IsBegun(<<>>) /\ \A k \in 1 .. Len(<<>>) : IsCleanWord(<<>>[k])
        BY <2>3 DEF IsBegun
      <3>3. AllLetters(<<>>) \o Letters(<<>>) = InSmall(Letters(<<>>))
        BY <2>2, NoWordsNoLetters, NoLetters, NothingSmall
      <3>4. ScanInv(s, <<>>, Small)
        BY <3>1, <3>2, <3>3 DEF ScanInv
      <3> QED BY <3>4 DEF s
    <2>5. 0 \in 0 .. n
      BY <1>1
    <2>6. ScanInv(F[0], SubSeq(text, 1, 0), Small)
      <3> HIDE DEF n
      <3> QED BY <1>4, <2>1, <2>4
    <2> QED BY <2>5, <2>6
  <1>6. ASSUME NEW i \in 0 .. n - 1, i \in G PROVE i + 1 \in G
    <2> DEFINE read == SubSeq(text, 1, i)
    <2>1. i + 1 \in 1 .. n /\ (i + 1) - 1 = i /\ i + 1 \in 0 .. n
      BY <1>1
    <2>2. /\ read \in Seq(S) /\ Len(read) = i /\ (\A j \in 1 .. i : read[j] = text[j])
          /\ Append(read, text[i + 1]) = SubSeq(text, 1, i + 1)
      BY <1>1, <2>1
    <2>3. ScanInv(F[i], read, Small) /\ F[i + 1] = Scanned(F[i], text[i + 1], Before(text, i + 1))
      BY <1>4, <1>6, <2>1
    <2> HIDE DEF read
    <2>4. read # <<>> => Before(text, i + 1) = read[Len(read)]
      <3> SUFFICES ASSUME read # <<>> PROVE Before(text, i + 1) = read[Len(read)]
        OBVIOUS
      <3>1. i # 0
        BY <2>2, EmptySeq
      <3>2. i + 1 # 1 /\ i \in 1 .. i
        BY <1>1, <2>1, <3>1
      <3> QED BY <2>1, <2>2, <3>2 DEF Before
    <2>5. text[i + 1] \in S
      BY <1>1, <2>1
    <2>6. ScanInv(F[i + 1], SubSeq(text, 1, i + 1), Small)
      BY <2>2, <2>3, <2>4, <2>5, ScannedInv
    <2> QED BY <2>1, <2>6
  <1>7. ScanInv(F[n], SubSeq(text, 1, n), Small)
    <2>1. 0 .. n \subseteq G
      <3> HIDE DEF G, n
      <3> QED BY <1>1, <1>5, <1>6, UpTo
    <2> QED BY <1>1, <2>1
  <1>8. SubSeq(text, 1, n) = text
    BY <1>1
  <1>9. F[n].word = <<>>
    <2>1. F[n] = Scanned(F[n - 1], ")", Before(text, n))
      BY <1>1, <1>4
    <2> HIDE DEF n
    <2> QED BY <2>1 DEF Scanned
  <1>10. Letters(text) = Letters(line)
    BY <1>1, LettersAppended DEF text, IsLetter
  <1> DEFINE words == FindWords(line)
  <1> HIDE DEF n, G, words
  <1>11. words \in Seq(Seq(Small)) /\ \A k \in 1 .. Len(words) : IsCleanWord(words[k])
    BY <1>2, <1>7 DEF ScanInv, Found, words
  <1>12. AllLetters(words) = InSmall(Letters(line))
    <2>1. AllLetters(words) \in Seq(Small)
      BY <1>11, AllLettersAppended, EmptySeq
    <2>2. AllLetters(words) \o <<>> = AllLetters(words)
      BY <2>1, ConcatEmptySeq
    <2> QED BY <1>2, <1>7, <1>8, <1>9, <1>10, <2>2, NoLetters DEF ScanInv, words
  <1>13. DOMAIN words = 1 .. Len(words)
    BY <1>11
  <1> QED BY <1>11, <1>12, <1>13 DEF CleanWords, words

\* A line of which the words can be counted, and are what they should be.
IsRead(line) == Len(FindWords(line)) \in Nat /\ CleanWords(line)

AreRead(lines) == lines \in Seq(Range(lines)) /\ Len(lines) \in Nat /\ \A i \in 1 .. Len(lines) : IsRead(lines[i])

LEMMA FilesAreRead == \A f \in Files : AreRead(f)
  <1> SUFFICES ASSUME NEW f \in Files PROVE AreRead(f)
    OBVIOUS
  <1>1. f \in Seq(Range(f)) /\ Len(f) \in Nat /\ DOMAIN f = 1 .. Len(f)
    BY TextAssumption
  <1>2. ASSUME NEW i \in 1 .. Len(f) PROVE IsRead(f[i])
    <2> DEFINE line == f[i]
               S    == Range(line) \cup {")"}
               Small    == {Lower[c] : c \in S} \cup {"-"}
    <2>1. line \in Seq(Range(line)) /\ \A c \in Range(line) : IsLetter(c) => IsLetter(Lower[c])
      BY <1>1, TextAssumption
    <2> HIDE DEF line
    <2>2. line \in Seq(S)
      BY <2>1
    <2>3. Lowers(S, Small)
      <3>1. ")" \in S /\ "-" \in Small /\ ~IsLetter(")")
        BY TextAssumption DEF IsLetter
      <3>2. \A c \in S : IsLetter(c) => Lower[c] \in Small /\ IsLetter(Lower[c])
        BY <2>1, <3>1
      <3> QED BY <3>1, <3>2 DEF Lowers
    <2>4. FindWords(line) \in Seq(Seq(Small)) /\ CleanWords(line)
      <3> HIDE DEF S, Small
      <3> QED BY <2>2, <2>3, TextAssumption, WordsAreClean
    <2>5. Len(FindWords(line)) \in Nat
      BY <2>4
    <2> QED BY <2>4, <2>5 DEF IsRead, line
  <1> QED BY <1>1, <1>2 DEF AreRead

\* The number of words of the first lines grows by those of the next one.
IsNumber(f, lines) ==
  f = [i \in 0 .. Len(lines) |-> IF i = 0 THEN 0 ELSE f[i - 1] + Len(FindWords(lines[i]))]

LEMMA NumberGrows ==
  ASSUME NEW lines, AreRead(lines)
  PROVE  /\ NumberOfWords(lines)[0] = 0
         /\ \A i \in 0 .. Len(lines) : NumberOfWords(lines)[i] \in Nat
         /\ \A i \in 1 .. Len(lines) :
              NumberOfWords(lines)[i] = NumberOfWords(lines)[i - 1] + Len(FindWords(lines[i]))
  <1> DEFINE n    == Len(lines)
             F    == CHOOSE f : IsNumber(f, lines)
             step == [p \in (1 .. n) \X Nat |-> p[2] + Len(FindWords(lines[p[1]]))]
             G    == {i \in 0 .. n : F[i] \in Nat}
  <1>1. n \in Nat /\ \A i \in 1 .. n : Len(FindWords(lines[i])) \in Nat
    BY DEF AreRead, IsRead
  <1>2. \A i \in 1 .. n, v \in Nat : step[<<i, v>>] = v + Len(FindWords(lines[i])) /\ step[<<i, v>>] \in Nat
    BY <1>1
  <1>3. NumberOfWords(lines) = F
    BY DEF NumberOfWords, IsNumber
  <1>4. IsNumber(F, lines)
    <2> HIDE DEF n, step
    <2>1. StaysIn(n, Nat, step)
      BY <1>2 DEF StaysIn
    <2>2. PICK w : RunsFrom(w, n, Nat, 0, step)
      BY <1>1, <2>1, RecursionExists
    <2>3. ASSUME NEW i \in 0 .. n PROVE w[i] = IF i = 0 THEN 0 ELSE w[i - 1] + Len(FindWords(lines[i]))
      <3>1. CASE i = 0
        BY <2>2, <3>1 DEF RunsFrom
      <3>2. CASE i # 0
        <4>1. i \in 1 .. n /\ i - 1 \in 0 .. n
          BY <1>1, <3>2
        <4>2. w[i - 1] \in Nat /\ w[i] = step[<<i, w[i - 1]>>]
          BY <2>2, <4>1 DEF RunsFrom
        <4> QED BY <1>2, <3>2, <4>1, <4>2
      <3> QED BY <3>1, <3>2
    <2>4. IsNumber(w, lines)
      BY <2>2, <2>3 DEF RunsFrom, IsNumber, n
    <2> QED BY <2>4
  <1> HIDE DEF F, n, step
  <1>5. F[0] = 0 /\ \A i \in 1 .. n : F[i] = F[i - 1] + Len(FindWords(lines[i]))
    <2>1. \A i \in 0 .. n : F[i] = IF i = 0 THEN 0 ELSE F[i - 1] + Len(FindWords(lines[i]))
      BY <1>4 DEF IsNumber, n
    <2>2. \A i \in 1 .. n : i \in 0 .. n /\ i # 0
      BY <1>1
    <2>3. 0 \in 0 .. n
      BY <1>1
    <2> QED BY <2>1, <2>2, <2>3
  <1>6. 0 .. n \subseteq G
    <2>1. 0 \in G
      BY <1>1, <1>5
    <2>2. ASSUME NEW i \in 0 .. n - 1, i \in G PROVE i + 1 \in G
      <3>1. i + 1 \in 1 .. n /\ (i + 1) - 1 = i /\ i + 1 \in 0 .. n /\ F[i] \in Nat
        BY <1>1, <2>2
      <3>2. F[i + 1] = F[i] + Len(FindWords(lines[i + 1])) /\ Len(FindWords(lines[i + 1])) \in Nat
        BY <1>1, <1>5, <3>1
      <3> HIDE DEF G
      <3>3. F[i + 1] \in Nat
        BY <3>1, <3>2
      <3> QED BY <3>1, <3>3 DEF G
    <2> HIDE DEF G
    <2> QED BY <1>1, <2>1, <2>2, UpTo
  <1> QED BY <1>3, <1>5, <1>6 DEF n

-----------------------------------------------------------------------------
(* The words of a file: a number for each thread, and all together *)

IsTotal(w, f, n) == w = [i \in 0 .. n |-> IF i = 0 THEN 0 ELSE w[i - 1] + f[i - 1]]

SumOf(f, n) == (CHOOSE w : IsTotal(w, f, n))[n]

LEMMA TotalExists ==
  ASSUME NEW n \in Nat, NEW f \in [0 .. n - 1 -> Nat]
  PROVE  \E w : /\ SumOf(f, n) = w[n] /\ w \in [0 .. n -> Nat] /\ w[0] = 0
                /\ \A i \in 0 .. n - 1 : w[i + 1] = w[i] + f[i]
  <1> DEFINE step == [p \in (1 .. n) \X Nat |-> p[2] + f[p[1] - 1]]
             F == CHOOSE w : IsTotal(w, f, n)
             G == {i \in 0 .. n : F[i] \in Nat}
  <1>1. \A i \in 1 .. n, v \in Nat : step[<<i, v>>] = v + f[i - 1] /\ step[<<i, v>>] \in Nat
    <2> TAKE i \in 1 .. n, v \in Nat
    <2>1. i - 1 \in 0 .. n - 1
      OBVIOUS
    <2>2. f[i - 1] \in Nat
      BY <2>1
    <2> QED BY <2>2
  <1>2. IsTotal(F, f, n)
    <2> HIDE DEF step
    <2>1. StaysIn(n, Nat, step)
      BY <1>1 DEF StaysIn
    <2>2. PICK w : RunsFrom(w, n, Nat, 0, step)
      BY <2>1, RecursionExists
    <2>3. ASSUME NEW i \in 0 .. n PROVE w[i] = IF i = 0 THEN 0 ELSE w[i - 1] + f[i - 1]
      <3>1. CASE i = 0
        BY <2>2, <3>1 DEF RunsFrom
      <3>2. CASE i # 0
        <4>1. i \in 1 .. n /\ i - 1 \in 0 .. n
          BY <3>2
        <4>2. w[i - 1] \in Nat /\ w[i] = step[<<i, w[i - 1]>>]
          BY <2>2, <4>1 DEF RunsFrom
        <4> QED BY <1>1, <3>2, <4>1, <4>2
      <3> QED BY <3>1, <3>2
    <2>4. IsTotal(w, f, n)
      BY <2>2, <2>3 DEF RunsFrom, IsTotal
    <2> QED BY <2>4
  <1> HIDE DEF F, step
  <1>3. F[0] = 0
    BY <1>2 DEF IsTotal
  <1>4. ASSUME NEW i \in 0 .. n - 1 PROVE F[i + 1] = F[i] + f[i]
    <2>1. i + 1 \in 0 .. n /\ i + 1 # 0 /\ (i + 1) - 1 = i
      OBVIOUS
    <2>2. F[i + 1] = F[(i + 1) - 1] + f[(i + 1) - 1]
      BY <1>2, <2>1 DEF IsTotal
    <2> QED BY <2>1, <2>2
  <1>5. 0 .. n \subseteq G
    <2>1. 0 \in G
      BY <1>3
    <2>2. ASSUME NEW i \in 0 .. n - 1, i \in G PROVE i + 1 \in G
      <3>1. F[i] \in Nat /\ f[i] \in Nat /\ i + 1 \in 0 .. n
        BY <2>2
      <3> QED BY <1>4, <3>1
    <2> HIDE DEF G
    <2> QED BY <2>1, <2>2, UpTo
  <1>6. F \in [0 .. n -> Nat]
    BY <1>2, <1>5 DEF IsTotal
  <1> QED BY <1>3, <1>4, <1>6 DEF SumOf, F

LEMMA SumOfNone ==
  ASSUME NEW n \in Nat, NEW f \in [0 .. n - 1 -> Nat], \A i \in 0 .. n - 1 : f[i] = 0
  PROVE  SumOf(f, n) = 0
  <1>1. PICK w : /\ SumOf(f, n) = w[n] /\ w \in [0 .. n -> Nat] /\ w[0] = 0
                 /\ \A i \in 0 .. n - 1 : w[i + 1] = w[i] + f[i]
    BY TotalExists
  <1> DEFINE G == {i \in 0 .. n : w[i] = 0}
  <1>2. 0 \in G
    BY <1>1
  <1>3. ASSUME NEW i \in 0 .. n - 1, i \in G PROVE i + 1 \in G
    BY <1>1, <1>3
  <1>4. 0 .. n \subseteq G
    <2> HIDE DEF G
    <2> QED BY <1>2, <1>3, UpTo
  <1> QED BY <1>1, <1>4

\* When one number changes, all together change by as much.
LEMMA SumChanges ==
  ASSUME NEW n \in Nat, NEW f \in [0 .. n - 1 -> Nat], NEW g \in [0 .. n - 1 -> Nat], NEW t \in 0 .. n - 1,
         \A i \in 0 .. n - 1 : i # t => g[i] = f[i]
  PROVE  SumOf(f, n) \in Nat /\ SumOf(g, n) \in Nat /\ SumOf(g, n) + f[t] = SumOf(f, n) + g[t]
  <1>1. PICK w : /\ SumOf(f, n) = w[n] /\ w \in [0 .. n -> Nat] /\ w[0] = 0
                 /\ \A i \in 0 .. n - 1 : w[i + 1] = w[i] + f[i]
    BY TotalExists
  <1>2. PICK v : /\ SumOf(g, n) = v[n] /\ v \in [0 .. n -> Nat] /\ v[0] = 0
                 /\ \A i \in 0 .. n - 1 : v[i + 1] = v[i] + g[i]
    BY TotalExists
  <1> DEFINE G == {i \in 0 .. n : IF i <= t THEN v[i] = w[i] ELSE v[i] + f[t] = w[i] + g[t]}
  <1>3. 0 \in G
    BY <1>1, <1>2
  <1>4. ASSUME NEW i \in 0 .. n - 1, i \in G PROVE i + 1 \in G
    <2>1. /\ w[i + 1] = w[i] + f[i] /\ v[i + 1] = v[i] + g[i] /\ i \in 0 .. n /\ i + 1 \in 0 .. n
          /\ w[i] \in Nat /\ v[i] \in Nat /\ f[i] \in Nat /\ g[i] \in Nat /\ f[t] \in Nat /\ g[t] \in Nat
      BY <1>1, <1>2
    <2>2. CASE i < t
      BY <1>4, <2>1, <2>2
    <2>3. CASE i = t
      BY <1>4, <2>1, <2>3
    <2>4. CASE i > t
      <3>1. g[i] = f[i] /\ ~(i <= t) /\ ~(i + 1 <= t)
        BY <2>4
      <3>2. v[i] + f[t] = w[i] + g[t]
        BY <1>4, <3>1
      <3>3. v[i + 1] + f[t] = w[i + 1] + g[t]
        <4>2. v[i + 1] + f[t] = (v[i] + f[i]) + f[t]
          BY <2>1, <3>1
        <4>3. w[i + 1] + g[t] = (w[i] + f[i]) + g[t]
          BY <2>1
        <4>4. (v[i] + f[i]) + f[t] = (w[i] + f[i]) + g[t]
          <5> DEFINE a == v[i]
                     b == w[i]
                     c == f[t]
                     d == g[t]
                     e == f[i]
          <5>1. a \in Nat /\ b \in Nat /\ c \in Nat /\ d \in Nat /\ e \in Nat /\ a + c = b + d
            BY <2>1, <3>2
          <5> HIDE DEF a, b, c, d, e
          <5>2. (a + e) + c = (b + e) + d
            BY <5>1
          <5> QED BY <5>2 DEF a, b, c, d, e
        <4> QED BY <4>2, <4>3, <4>4
      <3> QED BY <2>1, <3>1, <3>3
    <2> QED BY <2>1, <2>2, <2>3, <2>4
  <1>5. 0 .. n \subseteq G
    <2> HIDE DEF G
    <2> QED BY <1>3, <1>4, UpTo
  <1>6. n \in G /\ ~(n <= t)
    BY <1>5
  <1> QED BY <1>1, <1>2, <1>6

-----------------------------------------------------------------------------
(* The words of a file: the invariant *)

\* A thread with a line of which the words are not yet counted.
Pending(t) == thread[t] \in {"waiting", "woken"}

CountOf(t) == IF Pending(t) THEN Len(FindWords(held[t])) ELSE 0

OwnWords(t) == IF Pending(t) THEN Range(FindWords(held[t])) ELSE {}

Counts == [t \in Threads |-> CountOf(t)]

\* How many lines have been read.
Taken == Len(content) - Len(inFile)

WordsOfFirst(k) == UNION {Range(FindWords(content[i])) : i \in 1 .. k}

WordsOfThreads == UNION {storage[t] \cup OwnWords(t) : t \in Threads}

WordTypes ==
  /\ t_num \in 2 .. MAX_THREADS - 1 /\ t_num \in Nat /\ content \in Files
  /\ thread \in [Threads -> {"start", "waiting", "woken", "done"}]
  /\ DOMAIN held = Threads /\ DOMAIN storage = Threads
  /\ counter \in Nat /\ printed \in BOOLEAN

\* What is left is the end of the file, and a thread ends when nothing is left.
LeftInv ==
  /\ inFile \in Seq(Range(content)) /\ Len(inFile) <= Len(content)
  /\ \A i \in 1 .. Len(inFile) : inFile[i] = content[Taken + i]
  /\ (\E t \in Threads : thread[t] = "done") => inFile = <<>>

\* What is counted and what the threads hold are the lines that were read.
CountInv ==
  /\ \A t \in Threads : Pending(t) => IsRead(held[t])
  /\ counter + SumOf(Counts, t_num) = NumberOfWords(content)[Taken]
  /\ WordsOfThreads = WordsOfFirst(Taken)
  /\ printed => unique_words = UNION Range(storage) /\ \A t \in Threads : thread[t] = "done"

WordInv == WordTypes /\ LeftInv /\ CountInv

LEMMA CountsType ==
  ASSUME WordInv
  PROVE  Counts \in [0 .. t_num - 1 -> Nat] /\ t_num \in Nat /\ \A t \in Threads : CountOf(t) \in Nat
  <1>1. \A t \in Threads : CountOf(t) \in Nat
    BY DEF WordInv, CountInv, CountOf, IsRead
  <1> QED BY <1>1 DEF WordInv, WordTypes, Counts, Threads

\* The next line is the next of the file.
LEMMA NextLine ==
  ASSUME WordInv, inFile # <<>>
  PROVE  /\ Taken + 1 \in 1 .. Len(content) /\ Taken \in 0 .. Len(content) /\ Len(inFile) \in Nat /\ Len(inFile) > 0
         /\ Head(inFile) = content[Taken + 1] /\ IsRead(Head(inFile))
         /\ Tail(inFile) \in Seq(Range(content)) /\ Len(Tail(inFile)) = Len(inFile) - 1
         /\ \A i \in 1 .. Len(inFile) - 1 : Tail(inFile)[i] = inFile[i + 1]
  <1>1. AreRead(content)
    BY FilesAreRead DEF WordInv, WordTypes
  <1>2. inFile \in Seq(Range(content)) /\ Len(inFile) <= Len(content) /\ Len(content) \in Nat
    BY <1>1 DEF WordInv, LeftInv, AreRead
  <1>3. Len(inFile) \in Nat /\ Len(inFile) # 0
    BY <1>2, EmptySeq
  <1>4. Taken + 1 \in 1 .. Len(content) /\ Taken \in 0 .. Len(content)
    BY <1>2, <1>3 DEF Taken
  <1>5. Head(inFile) = inFile[1] /\ 1 \in 1 .. Len(inFile)
    BY <1>2, <1>3
  <1>6. Head(inFile) = content[Taken + 1]
    BY <1>5 DEF WordInv, LeftInv
  <1>7. IsRead(content[Taken + 1])
    BY <1>1, <1>4 DEF AreRead
  <1>8. /\ Tail(inFile) \in Seq(Range(content)) /\ Len(Tail(inFile)) = Len(inFile) - 1
        /\ \A i \in 1 .. Len(inFile) - 1 : Tail(inFile)[i] = inFile[i + 1]
    BY <1>2, <1>3, HeadTailProperties
  <1> QED BY <1>3, <1>4, <1>6, <1>7, <1>8

\* What a thread does to the states of the others when it reads on, and to its own.
LEMMA ThreadsAfter ==
  ASSUME WordTypes, NEW t \in Threads, thread[t] \in {"start", "woken"}, ReadOn(t)
  PROVE  /\ thread' \in [Threads -> {"start", "waiting", "woken", "done"}]
         /\ thread'[t] = IF inFile = <<>> THEN "done" ELSE "waiting"
         /\ \A u \in Threads : u # t => thread'[u] = thread[u] \/ (thread[u] = "waiting" /\ thread'[u] = "woken")
  BY DEF WordTypes, ReadOn, Notified

\* A thread gives what it holds and reads on.
Gives(t) ==
  /\ ReadOn(t) /\ thread[t] \in {"start", "woken"}
  /\ UNCHANGED <<t_num, printed, content>>
  /\ counter' = counter + CountOf(t)
  /\ DOMAIN storage' = Threads
  /\ \A u \in Threads : storage'[u] = IF u = t THEN storage[t] \cup OwnWords(t) ELSE storage[u]

NewCount == IF inFile = <<>> THEN 0 ELSE Len(FindWords(Head(inFile)))

NewWords == IF inFile = <<>> THEN {} ELSE Range(FindWords(Head(inFile)))

LEMMA LineGiven ==
  ASSUME WordInv, NEW t \in Threads, Gives(t)
  PROVE  WordInv'
  <1>1. Threads' = Threads /\ content' = content /\ t_num' = t_num /\ printed' = printed
    BY DEF Gives, Threads
  <1>2. /\ thread' \in [Threads -> {"start", "waiting", "woken", "done"}]
        /\ thread'[t] = IF inFile = <<>> THEN "done" ELSE "waiting"
        /\ \A u \in Threads : u # t => thread'[u] = thread[u] \/ (thread[u] = "waiting" /\ thread'[u] = "woken")
    BY ThreadsAfter DEF WordInv, Gives
  <1>3. NewCount \in Nat
    BY NextLine DEF NewCount, IsRead
  <1>4. DOMAIN held' = Threads /\ (\A u \in Threads : u # t => held'[u] = held[u])
        /\ (inFile # <<>> => held'[t] = Head(inFile) /\ inFile' = Tail(inFile)) /\ (inFile = <<>> => inFile' = inFile)
    BY DEF Gives, ReadOn, WordInv, WordTypes
  <1>5. WordTypes'
    <2>1. counter' \in Nat
      BY CountsType DEF Gives, WordInv, WordTypes
    <2> QED BY <1>1, <1>2, <1>4, <2>1 DEF WordInv, WordTypes, Gives
  <1>6. LeftInv'
    <2>1. CASE inFile = <<>>
      <3>1. inFile' = inFile /\ Taken' = Taken
        BY <1>1, <1>4, <2>1 DEF Taken
      <3>2. inFile' \in Seq(Range(content')) /\ Len(inFile') <= Len(content')
        BY <1>1, <3>1 DEF WordInv, LeftInv
      <3>3. \A i \in 1 .. Len(inFile') : inFile'[i] = content'[Taken' + i]
        BY <1>1, <3>1 DEF WordInv, LeftInv
      <3> QED BY <2>1, <3>1, <3>2, <3>3 DEF LeftInv
    <2>2. CASE inFile # <<>>
      <3>1. inFile' = Tail(inFile)
        BY <1>4, <2>2
      <3>2. /\ Taken \in 0 .. Len(content) /\ Len(inFile) \in Nat /\ Len(inFile) > 0 /\ Len(inFile) <= Len(content)
            /\ inFile' \in Seq(Range(content)) /\ Len(inFile') = Len(inFile) - 1
            /\ Len(content) \in Nat
            /\ \A i \in 1 .. Len(inFile) - 1 : inFile'[i] = inFile[i + 1]
        <4>1. Len(content) \in Nat
          BY FilesAreRead DEF WordInv, WordTypes, AreRead
        <4> QED BY <2>2, <3>1, <4>1, NextLine DEF WordInv, LeftInv
      <3>3. Taken' = Taken + 1
        BY <1>1, <3>2 DEF Taken
      <3>4. \A i \in 1 .. Len(inFile') : inFile'[i] = content'[Taken' + i]
        <4> TAKE i \in 1 .. Len(inFile')
        <4>1. i \in 1 .. Len(inFile) - 1 /\ i + 1 \in 1 .. Len(inFile)
          BY <3>2
        <4>2. inFile'[i] = inFile[i + 1] /\ inFile[i + 1] = content[Taken + (i + 1)]
          BY <3>2, <4>1 DEF WordInv, LeftInv
        <4>3. Taken' + i = Taken + (i + 1)
          BY <3>2, <3>3
        <4> QED BY <1>1, <4>2, <4>3
      <3>5. \A u \in Threads : thread'[u] # "done"
        BY <1>2, <2>2 DEF WordInv, LeftInv
      <3>6. Len(inFile') <= Len(content)
        BY <3>2
      <3> QED BY <1>1, <3>2, <3>4, <3>5, <3>6 DEF LeftInv
    <2> QED BY <2>1, <2>2
  <1>7. \A u \in Threads : u # t => Pending(u)' = Pending(u) /\ CountOf(u)' = CountOf(u) /\ OwnWords(u)' = OwnWords(u)
    <2> TAKE u \in Threads
    <2> SUFFICES ASSUME u # t PROVE Pending(u)' = Pending(u) /\ CountOf(u)' = CountOf(u) /\ OwnWords(u)' = OwnWords(u)
      OBVIOUS
    <2>1. Pending(u)' = Pending(u) /\ held'[u] = held[u]
      BY <1>2, <1>4 DEF Pending
    <2> QED BY <2>1 DEF CountOf, OwnWords
  <1>8. CountOf(t)' = NewCount /\ OwnWords(t)' = NewWords /\ (Pending(t)' => IsRead(held[t])')
    <2>1. CASE inFile = <<>>
      <3>1. ~Pending(t)'
        BY <1>2, <2>1 DEF Pending
      <3> QED BY <2>1, <3>1 DEF CountOf, OwnWords, NewCount, NewWords
    <2>2. CASE inFile # <<>>
      <3>1. Pending(t)' /\ held'[t] = Head(inFile) /\ IsRead(Head(inFile))
        BY <1>2, <1>4, <2>2, NextLine DEF Pending
      <3> QED BY <2>2, <3>1 DEF CountOf, OwnWords, NewCount, NewWords
    <2> QED BY <2>1, <2>2
  <1>9. NumberOfWords(content)[Taken'] = NumberOfWords(content)[Taken] + NewCount /\ NumberOfWords(content)[Taken] \in Nat
        /\ WordsOfFirst(Taken') = WordsOfFirst(Taken) \cup NewWords
    <2>1. AreRead(content)
      BY FilesAreRead DEF WordInv, WordTypes
    <2>2. CASE inFile = <<>>
      <3>1. Taken' = Taken /\ Taken \in 0 .. Len(content)
        BY <1>1, <1>4, <2>1, <2>2 DEF Taken, AreRead
      <3> HIDE DEF Taken
      <3>2. NumberOfWords(content)[Taken] \in Nat
        BY <2>1, <3>1, NumberGrows
      <3> HIDE DEF NumberOfWords
      <3> QED BY <2>2, <3>1, <3>2 DEF NewCount, NewWords
    <2>3. CASE inFile # <<>>
      <3> DEFINE k == Taken + 1
      <3>1. /\ k \in 1 .. Len(content) /\ Taken \in 0 .. Len(content) /\ k - 1 = Taken /\ Head(inFile) = content[k]
            /\ Taken' = k
        <4>1. Taken + 1 \in 1 .. Len(content) /\ Taken \in 0 .. Len(content) /\ Head(inFile) = content[Taken + 1]
              /\ Len(inFile) \in Nat /\ Len(Tail(inFile)) = Len(inFile) - 1
          BY <2>3, NextLine
        <4>2. Len(content) \in Nat
          BY <2>1 DEF AreRead
        <4>3. Taken' = Taken + 1
          BY <1>1, <1>4, <2>3, <4>1, <4>2 DEF Taken
        <4>4. (Taken + 1) - 1 = Taken
          BY <4>1
        <4> QED BY <4>1, <4>3, <4>4
      <3> HIDE DEF k
      <3>2. NumberOfWords(content)[k] = NumberOfWords(content)[k - 1] + Len(FindWords(content[k]))
            /\ NumberOfWords(content)[k - 1] \in Nat
        BY <2>1, <3>1, NumberGrows
      <3>3. WordsOfFirst(k) = WordsOfFirst(k - 1) \cup Range(FindWords(content[k]))
        <4>1. k \in Nat /\ k > 0
          BY <2>1, <3>1 DEF AreRead
        <4>2. 1 .. k = (1 .. k - 1) \cup {k}
          BY <4>1
        <4> QED BY <4>2 DEF WordsOfFirst
      <3> QED BY <2>3, <3>1, <3>2, <3>3 DEF NewCount, NewWords
    <2> QED BY <2>2, <2>3
  <1>10. SumOf(Counts, t_num)' + CountOf(t) = SumOf(Counts, t_num) + NewCount
         /\ SumOf(Counts, t_num) \in Nat /\ SumOf(Counts, t_num)' \in Nat
    <2> DEFINE n == t_num
               f == Counts
               g == [u \in Threads |-> IF u = t THEN NewCount ELSE CountOf(u)]
    <2>1. Counts' = g
      BY <1>1, <1>7, <1>8 DEF Counts
    <2>2. /\ n \in Nat /\ f \in [0 .. n - 1 -> Nat] /\ g \in [0 .. n - 1 -> Nat] /\ t \in 0 .. n - 1
          /\ (\A i \in 0 .. n - 1 : i # t => g[i] = f[i]) /\ f[t] = CountOf(t) /\ g[t] = NewCount
      <3>1. Threads = 0 .. n - 1
        BY DEF Threads
      <3>2. \A u \in Threads : CountOf(u) \in Nat
        BY CountsType
      <3> HIDE DEF n
      <3>3. g \in [Threads -> Nat] /\ f \in [Threads -> Nat]
        BY <1>3, <3>2 DEF Counts
      <3>4. n \in Nat
        BY CountsType DEF n
      <3> QED BY <3>1, <3>3, <3>4 DEF Counts
    <2>3. SumOf(Counts, t_num)' = SumOf(g, n)
      BY <1>1, <2>1
    <2> HIDE DEF n, f, g
    <2>4. SumOf(f, n) \in Nat /\ SumOf(g, n) \in Nat /\ SumOf(g, n) + f[t] = SumOf(f, n) + g[t]
      BY <2>2, SumChanges
    <2> QED BY <2>2, <2>3, <2>4 DEF f, n
  <1>11. counter' + SumOf(Counts, t_num)' = NumberOfWords(content)[Taken']
    <2> DEFINE a == counter
               b == SumOf(Counts, t_num)
               c == SumOf(Counts, t_num)'
               d == CountOf(t)
               e == NewCount
               m == NumberOfWords(content)[Taken]
    <2>1. a \in Nat /\ b \in Nat /\ c \in Nat /\ d \in Nat /\ e \in Nat /\ m \in Nat
      BY <1>3, <1>9, <1>10, CountsType DEF WordInv, WordTypes
    <2>2. a + b = m /\ c + d = b + e /\ counter' = a + d /\ NumberOfWords(content)[Taken'] = m + e
      BY <1>9, <1>10 DEF WordInv, CountInv, Gives
    <2> HIDE DEF a, b, d, e, m
    <2>3. counter' + c = NumberOfWords(content)[Taken']
      <3> HIDE DEF c
      <3> QED BY <2>1, <2>2
    <2> QED BY <2>3
  <1>12. WordsOfThreads' = WordsOfFirst(Taken')
    <2>1. \A u \in Threads : storage'[u] \cup OwnWords(u)' = IF u = t THEN storage[t] \cup OwnWords(t) \cup NewWords
                                                            ELSE storage[u] \cup OwnWords(u)
      BY <1>7, <1>8 DEF Gives
    <2>2. WordsOfThreads' = UNION {storage'[u] \cup OwnWords(u)' : u \in Threads}
      BY <1>1 DEF WordsOfThreads
    <2>3. WordsOfThreads' = WordsOfThreads \cup NewWords
      BY <2>1, <2>2 DEF WordsOfThreads
    <2> QED BY <1>9, <2>3 DEF WordInv, CountInv
  <1>13. ~printed
    BY DEF WordInv, CountInv, Gives
  <1>14. CountInv'
    <2>1. \A u \in Threads : Pending(u)' => IsRead(held'[u])
      BY <1>4, <1>7, <1>8 DEF WordInv, CountInv
    <2>2. WordsOfFirst(Taken)' = WordsOfFirst(Taken') /\ NumberOfWords(content)' = NumberOfWords(content)
      BY <1>1 DEF WordsOfFirst
    <2> QED BY <1>1, <1>11, <1>12, <1>13, <2>1, <2>2 DEF CountInv
  <1> QED BY <1>5, <1>6, <1>14 DEF WordInv

LEMMA WordInitInv == WordInit => WordInv
  <1> SUFFICES ASSUME WordInit PROVE WordInv
    OBVIOUS
  <1>1. t_num \in 2 .. MAX_THREADS - 1 /\ t_num \in Nat
    <2>1. PICK cores \in Cores : t_num = cores % MAX_THREADS
      BY DEF WordInit
    <2>2. cores \in Nat /\ MAX_THREADS \in Nat \ {0} /\ cores % MAX_THREADS >= 2
      BY CoresAssumption
    <2>3. \A a \in Nat, b \in Nat \ {0} : a % b \in 0 .. b - 1
      OBVIOUS
    <2>4. t_num \in 0 .. MAX_THREADS - 1 /\ t_num >= 2
      BY <2>1, <2>2, <2>3
    <2> QED BY <2>2, <2>4
  <1>2. AreRead(content) /\ inFile = content
    BY FilesAreRead DEF WordInit
  <1>3. \A t \in Threads : thread[t] = "start" /\ storage[t] = {} /\ ~Pending(t) /\ CountOf(t) = 0 /\ OwnWords(t) = {}
    BY DEF WordInit, Pending, CountOf, OwnWords
  <1>4. WordTypes
    BY <1>1 DEF WordInit, WordTypes
  <1>5. Taken = 0 /\ Len(content) \in Nat
    BY <1>2 DEF Taken, AreRead
  <1>6. LeftInv
    <2>1. inFile \in Seq(Range(content))
      BY <1>2 DEF AreRead
    <2>2. \A i \in 1 .. Len(inFile) : inFile[i] = content[Taken + i]
      BY <1>2, <1>5
    <2> QED BY <1>2, <1>3, <1>5, <2>1, <2>2 DEF LeftInv
  <1>7. SumOf(Counts, t_num) = 0
    <2>1. Counts \in [0 .. t_num - 1 -> Nat] /\ \A i \in 0 .. t_num - 1 : Counts[i] = 0
      BY <1>3 DEF Counts, Threads
    <2> QED BY <1>1, <2>1, SumOfNone
  <1>8. NumberOfWords(content)[0] = 0
    BY <1>2, NumberGrows
  <1>9. WordsOfThreads = {} /\ WordsOfFirst(0) = {}
    <2>1. 1 .. 0 = {}
      OBVIOUS
    <2> QED BY <1>3, <2>1 DEF WordsOfThreads, WordsOfFirst
  <1>10. CountInv
    <2>1. counter = 0 /\ ~printed
      BY DEF WordInit
    <2> QED BY <1>3, <1>5, <1>7, <1>8, <1>9, <2>1 DEF CountInv
  <1> QED BY <1>4, <1>6, <1>10 DEF WordInv

\* What is known of the threads and the file stays when they stay.
LEMMA SameWords ==
  ASSUME WordInv, UNCHANGED <<t_num, inFile, thread, held, storage, counter, content>>, printed' \in BOOLEAN,
         printed' => unique_words' = UNION Range(storage) /\ \A t \in Threads : thread[t] = "done"
  PROVE  WordInv'
  <1>1. Threads' = Threads /\ Taken' = Taken /\ \A t : Pending(t)' = Pending(t)
    BY DEF Threads, Taken, Pending
  <1>2. WordTypes'
    BY <1>1 DEF WordInv, WordTypes
  <1>3. LeftInv'
    BY <1>1 DEF WordInv, LeftInv
  <1>4. \A t : CountOf(t)' = CountOf(t) /\ OwnWords(t)' = OwnWords(t)
    BY <1>1 DEF CountOf, OwnWords
  <1>5. Counts' = Counts
    BY <1>1, <1>4 DEF Counts
  <1>6. WordsOfThreads' = WordsOfThreads /\ WordsOfFirst(Taken)' = WordsOfFirst(Taken)
    <2>1. WordsOfThreads' = UNION {storage[u] \cup OwnWords(u)' : u \in Threads}
      BY <1>1 DEF WordsOfThreads
    <2>2. WordsOfThreads' = WordsOfThreads
      BY <1>4, <2>1 DEF WordsOfThreads
    <2> QED BY <1>1, <2>2 DEF WordsOfFirst
  <1>7. SumOf(Counts, t_num)' = SumOf(Counts, t_num)
    BY <1>5
  <1>8. CountInv'
    <2>1. \A u \in Threads : Pending(u)' => IsRead(held'[u])
      BY <1>1 DEF WordInv, CountInv
    <2>2. counter' + SumOf(Counts, t_num)' = NumberOfWords(content')[Taken']
      BY <1>1, <1>7 DEF WordInv, CountInv
    <2>3. WordsOfThreads' = WordsOfFirst(Taken)'
      BY <1>6 DEF WordInv, CountInv
    <2>4. printed' => unique_words' = UNION Range(storage') /\ \A u \in Threads' : thread'[u] = "done"
      BY <1>1
    <2> QED BY <1>1, <2>1, <2>2, <2>3, <2>4 DEF CountInv
  <1> QED BY <1>2, <1>3, <1>8 DEF WordInv

LEMMA WordStep == WordInv /\ [WordNext]_wordVars => WordInv'
  <1> SUFFICES ASSUME WordInv, [WordNext]_wordVars PROVE WordInv'
    OBVIOUS
  <1>1. ASSUME NEW t \in Threads, FirstLine(t) PROVE WordInv'
    <2>1. thread[t] = "start" /\ ~Pending(t) /\ CountOf(t) = 0 /\ OwnWords(t) = {}
      BY <1>1 DEF FirstLine, Pending, CountOf, OwnWords
    <2>2. counter' = counter + 0 /\ storage' = storage /\ DOMAIN storage = Threads
      BY <1>1 DEF FirstLine, WordInv, WordTypes
    <2>3. Gives(t)
      BY <1>1, <2>1, <2>2 DEF FirstLine, Gives
    <2> QED BY <2>3, LineGiven
  <1>2. ASSUME NEW t \in Threads, Woken(t) PROVE WordInv'
    <2>1. thread[t] = "woken" /\ CountOf(t) = Len(FindWords(held[t])) /\ OwnWords(t) = Range(FindWords(held[t]))
      BY <1>2 DEF Woken, Pending, CountOf, OwnWords
    <2>2. /\ counter' = counter + CountOf(t) /\ storage' = [storage EXCEPT ![t] = @ \cup OwnWords(t)]
          /\ DOMAIN storage = Threads
      BY <1>2, <2>1 DEF Woken, CountAll, WordInv, WordTypes
    <2>3. \A u \in Threads : storage'[u] = IF u = t THEN storage[t] \cup OwnWords(t) ELSE storage[u]
      BY <2>2
    <2>4. Gives(t)
      BY <1>2, <2>1, <2>2, <2>3 DEF Woken, Gives
    <2> QED BY <2>4, LineGiven
  <1>3. ASSUME NEW t \in Threads, WokenSpuriously(t) PROVE WordInv'
    <2>1. /\ thread[t] = "waiting" /\ thread' = [thread EXCEPT ![t] = "woken"]
          /\ UNCHANGED <<t_num, inFile, held, storage, counter, unique_words, printed, content>>
      BY <1>3 DEF WokenSpuriously
    <2>2. Threads' = Threads /\ Taken' = Taken
      BY <2>1 DEF Threads, Taken
    <2>3. thread \in [Threads -> {"start", "waiting", "woken", "done"}]
      BY DEF WordInv, WordTypes
    <2>4. \A u \in Threads : Pending(u)' = Pending(u) /\ (thread'[u] = "done" <=> thread[u] = "done")
      BY <2>1, <2>3 DEF Pending
    <2>5. \A u \in Threads : CountOf(u)' = CountOf(u) /\ OwnWords(u)' = OwnWords(u)
      BY <2>1, <2>4 DEF CountOf, OwnWords
    <2>6. Counts' = Counts /\ WordsOfThreads' = WordsOfThreads
      <3>1. Counts' = Counts
        BY <2>2, <2>5 DEF Counts
      <3>2. WordsOfThreads' = UNION {storage[u] \cup OwnWords(u)' : u \in Threads}
        BY <2>1, <2>2 DEF WordsOfThreads
      <3> QED BY <2>5, <3>1, <3>2 DEF WordsOfThreads
    <2>7. SumOf(Counts, t_num)' = SumOf(Counts, t_num) /\ WordsOfFirst(Taken)' = WordsOfFirst(Taken)
      BY <2>1, <2>2, <2>6 DEF WordsOfFirst
    <2>8. WordTypes'
      BY <2>1, <2>2, <2>3 DEF WordInv, WordTypes
    <2>9. LeftInv'
      BY <2>1, <2>2, <2>4 DEF WordInv, LeftInv
    <2>10. CountInv'
      <3>1. \A u \in Threads : Pending(u)' => IsRead(held'[u])
        BY <2>1, <2>4 DEF WordInv, CountInv
      <3>2. counter' + SumOf(Counts, t_num)' = NumberOfWords(content')[Taken']
        BY <2>1, <2>2, <2>7 DEF WordInv, CountInv
      <3>3. printed' => unique_words' = UNION Range(storage') /\ \A u \in Threads : thread'[u] = "done"
        BY <2>1, <2>4 DEF WordInv, CountInv
      <3> QED BY <2>2, <2>6, <2>7, <3>1, <3>2, <3>3 DEF WordInv, CountInv
    <2> QED BY <2>8, <2>9, <2>10 DEF WordInv
  <1>4. CASE MergeAndPrint
    <2>1. /\ unique_words' = UNION Range(storage) /\ printed' = TRUE /\ \A t \in Threads : thread[t] = "done"
          /\ UNCHANGED <<t_num, inFile, thread, held, storage, counter, content>>
      BY <1>4 DEF MergeAndPrint
    <2> QED BY <2>1, SameWords DEF WordInv, CountInv
  <1>5. CASE UNCHANGED wordVars
    <2>1. UNCHANGED <<t_num, inFile, thread, held, storage, counter, unique_words, printed, content>>
      BY <1>5 DEF wordVars
    <2> QED BY <2>1, SameWords DEF WordInv, CountInv, WordTypes
  <1> QED BY <1>1, <1>2, <1>3, <1>4, <1>5 DEF WordNext

\* What follows from it when the words are printed.
LEMMA WordInvImplies == WordInv => CountsEveryWord /\ WordTypeOK
  <1> SUFFICES ASSUME WordInv PROVE CountsEveryWord /\ WordTypeOK
    OBVIOUS
  <1>1. AreRead(content) /\ content \in Files
    BY FilesAreRead DEF WordInv, WordTypes
  <1>2. WordTypeOK
    <2>1. Range(content) \in {Range(f) : f \in Files}
      BY <1>1
    <2>2. inFile \in Seq(UNION {Range(f) : f \in Files})
      BY <2>1 DEF WordInv, LeftInv
    <2> QED BY <2>2 DEF WordInv, WordTypes, WordTypeOK
  <1>3. ASSUME printed PROVE /\ \A i \in DOMAIN content : CleanWords(content[i])
                             /\ counter = NumberOfWords(content)[Len(content)] /\ unique_words = WordsOf(content)
    <2>1. unique_words = UNION Range(storage) /\ \A t \in Threads : thread[t] = "done"
      BY <1>3 DEF WordInv, CountInv
    <2>2. inFile = <<>> /\ Taken = Len(content) /\ Len(content) \in Nat
      <3>1. 0 \in Threads
        BY DEF Threads, WordInv, WordTypes
      <3>2. inFile = <<>>
        BY <2>1, <3>1 DEF WordInv, LeftInv
      <3> QED BY <1>1, <3>2 DEF Taken, AreRead
    <2>3. \A t \in Threads : ~Pending(t) /\ CountOf(t) = 0 /\ OwnWords(t) = {}
      BY <2>1 DEF Pending, CountOf, OwnWords
    <2>4. SumOf(Counts, t_num) = 0 /\ counter \in Nat
      <3>1. Counts \in [0 .. t_num - 1 -> Nat] /\ \A i \in 0 .. t_num - 1 : Counts[i] = 0
        BY <2>3 DEF Counts, Threads
      <3> QED BY <3>1, SumOfNone DEF WordInv, WordTypes
    <2>5. counter = NumberOfWords(content)[Len(content)]
      <3>1. counter + SumOf(Counts, t_num) = NumberOfWords(content)[Len(content)]
        BY <2>2 DEF WordInv, CountInv
      <3> QED BY <2>4, <3>1
    <2>6. WordsOfThreads = UNION Range(storage)
      <3>1. Range(storage) = {storage[t] : t \in Threads}
        BY DEF Range, WordInv, WordTypes
      <3>2. \A t \in Threads : storage[t] \cup OwnWords(t) = storage[t]
        BY <2>3
      <3>3. {storage[t] \cup OwnWords(t) : t \in Threads} = {storage[t] : t \in Threads}
        BY <3>2
      <3> QED BY <3>1, <3>3 DEF WordsOfThreads
    <2>7. DOMAIN content = 1 .. Len(content)
      BY <1>1 DEF AreRead
    <2>8. WordsOfFirst(Len(content)) = WordsOf(content)
      BY <2>7 DEF WordsOfFirst, WordsOf
    <2>9. \A i \in DOMAIN content : CleanWords(content[i])
      BY <1>1, <2>7 DEF AreRead, IsRead
    <2> QED BY <2>1, <2>2, <2>5, <2>6, <2>8, <2>9 DEF WordInv, CountInv
  <1> QED BY <1>2, <1>3 DEF CountsEveryWord

THEOREM WordInvariant == WordSpec => []WordInv
  <1> QED BY WordInitInv, WordStep, PTL DEF WordSpec

\* What is printed is the number of words of the file and of different ones, and they are clean,
\* whatever the file and the number of threads (printString, main, find_words).
THEOREM EveryWordIsCounted == WordSpec => []CountsEveryWord
  <1> QED BY WordInvariant, WordInvImplies, PTL

-----------------------------------------------------------------------------
(* Numbers as bytes *)

Bytes == 0 .. 255

IsLeft(f, v, width) == f = [i \in 0 .. width |-> IF i = 0 THEN v ELSE f[i - 1] \div 256]

\* The last byte is the remainder, and so on.
IsBytes(f, v, width) ==
  /\ f \in [0 .. width -> Nat]
  /\ f[0] = v /\ \A i \in 1 .. width : f[i] = f[i - 1] \div 256
  /\ ToBigEndian(v, width) = [i \in 1 .. width |-> f[width - i] % 256]

LEMMA BytesOf ==
  ASSUME NEW v \in Nat, NEW width \in Nat
  PROVE  \E f : IsBytes(f, v, width)
  <1> DEFINE step == [p \in (1 .. width) \X Nat |-> p[2] \div 256]
             F    == CHOOSE f : IsLeft(f, v, width)
  <1>1. \A i \in 1 .. width, u \in Nat : step[<<i, u>>] = u \div 256 /\ step[<<i, u>>] \in Nat
    <2>1. \A u \in Nat : u \div 256 \in Nat
      BY Z3
    <2> QED BY <2>1
  <1> HIDE DEF step
  <1>2. StaysIn(width, Nat, step)
    BY <1>1 DEF StaysIn
  <1>3. PICK w : RunsFrom(w, width, Nat, v, step)
    BY <1>2, RecursionExists
  <1>4. /\ w \in [0 .. width -> Nat] /\ w[0] = v /\ \A i \in 1 .. width : w[i] = w[i - 1] \div 256
    <2>1. w \in [0 .. width -> Nat] /\ w[0] = v /\ \A i \in 1 .. width : w[i] = step[<<i, w[i - 1]>>]
      BY <1>3 DEF RunsFrom
    <2>2. ASSUME NEW i \in 1 .. width PROVE w[i] = w[i - 1] \div 256
      <3>1. i - 1 \in 0 .. width
        OBVIOUS
      <3>2. w[i - 1] \in Nat
        BY <2>1, <3>1
      <3> QED BY <1>1, <2>1, <3>2
    <2> QED BY <2>1, <2>2
  <1>5. IsLeft(w, v, width)
    <2>1. ASSUME NEW i \in 0 .. width PROVE w[i] = IF i = 0 THEN v ELSE w[i - 1] \div 256
      <3>1. i = 0 \/ i \in 1 .. width
        OBVIOUS
      <3> QED BY <1>4, <3>1
    <2> QED BY <1>4, <2>1 DEF IsLeft
  <1>6. IsLeft(F, v, width)
    BY <1>5
  <1>7. ToBigEndian(v, width) = [i \in 1 .. width |-> F[width - i] % 256]
    BY DEF ToBigEndian, IsLeft
  <1> HIDE DEF F
  <1>8. F[0] = v /\ \A i \in 1 .. width : F[i] = F[i - 1] \div 256
    <2>1. \A i \in 0 .. width : F[i] = IF i = 0 THEN v ELSE F[i - 1] \div 256
      BY <1>6 DEF IsLeft
    <2>2. 0 \in 0 .. width /\ \A i \in 1 .. width : i \in 0 .. width /\ i # 0
      OBVIOUS
    <2> QED BY <2>1, <2>2
  <1>9. F \in [0 .. width -> Nat]
    <2> DEFINE G == {i \in 0 .. width : F[i] = w[i]}
    <2>1. 0 \in G
      BY <1>4, <1>8
    <2>2. ASSUME NEW i \in 0 .. width - 1, i \in G PROVE i + 1 \in G
      <3>1. i + 1 \in 1 .. width /\ (i + 1) - 1 = i /\ i + 1 \in 0 .. width
        OBVIOUS
      <3>2. F[i + 1] = F[i] \div 256 /\ w[i + 1] = w[i] \div 256
        BY <1>4, <1>8, <3>1
      <3> QED BY <2>2, <3>1, <3>2
    <2>3. 0 .. width \subseteq G
      <3> HIDE DEF G
      <3> QED BY <2>1, <2>2, UpTo
    <2>4. F = [i \in 0 .. width |-> F[i]]
      BY <1>6 DEF IsLeft
    <2> QED BY <1>4, <2>3, <2>4
  <1> QED BY <1>7, <1>8, <1>9 DEF IsBytes

IsValue(f, bytes) == f = [i \in 0 .. Len(bytes) |-> IF i = 0 THEN 0 ELSE f[i - 1] * 256 + bytes[i]]

\* The value of bytes is made up from the front.
IsMadeUp(f, bytes) ==
  /\ f \in [0 .. Len(bytes) -> Nat]
  /\ f[0] = 0 /\ \A i \in 1 .. Len(bytes) : f[i] = f[i - 1] * 256 + bytes[i]
  /\ FromBigEndian(bytes) = f[Len(bytes)]

LEMMA ValueOf ==
  ASSUME NEW bytes \in Seq(Bytes)
  PROVE  \E f : IsMadeUp(f, bytes)
  <1> DEFINE n    == Len(bytes)
             step == [p \in (1 .. n) \X Nat |-> p[2] * 256 + bytes[p[1]]]
             F    == CHOOSE f : IsValue(f, bytes)
  <1>1. n \in Nat /\ \A i \in 1 .. n : bytes[i] \in Bytes
    OBVIOUS
  <1>2. \A i \in 1 .. n, u \in Nat : step[<<i, u>>] = u * 256 + bytes[i] /\ step[<<i, u>>] \in Nat
    <2>1. \A u \in Nat, b \in Bytes : u * 256 + b \in Nat
      BY DEF Bytes
    <2> QED BY <1>1, <2>1
  <1>7. FromBigEndian(bytes) = F[n]
    BY DEF FromBigEndian, IsValue
  <1> HIDE DEF step, n
  <1>3. PICK w : RunsFrom(w, n, Nat, 0, step)
    <2>1. StaysIn(n, Nat, step)
      BY <1>2 DEF StaysIn
    <2> QED BY <1>1, <2>1, RecursionExists
  <1>4. /\ w \in [0 .. n -> Nat] /\ w[0] = 0 /\ \A i \in 1 .. n : w[i] = w[i - 1] * 256 + bytes[i]
    <2>1. \A i \in 1 .. n : i - 1 \in 0 .. n
      BY <1>1
    <2> QED BY <1>2, <1>3, <2>1 DEF RunsFrom
  <1>5. IsValue(w, bytes)
    <2>1. ASSUME NEW i \in 0 .. n PROVE w[i] = IF i = 0 THEN 0 ELSE w[i - 1] * 256 + bytes[i]
      <3>1. i = 0 \/ i \in 1 .. n
        BY <1>1
      <3> QED BY <1>4, <3>1
    <2> QED BY <1>4, <2>1 DEF IsValue, n
  <1>6. IsValue(F, bytes)
    BY <1>5
  <1> HIDE DEF F
  <1>8. F[0] = 0 /\ \A i \in 1 .. n : F[i] = F[i - 1] * 256 + bytes[i]
    <2>1. \A i \in 0 .. n : F[i] = IF i = 0 THEN 0 ELSE F[i - 1] * 256 + bytes[i]
      BY <1>6 DEF IsValue, n
    <2>2. 0 \in 0 .. n /\ \A i \in 1 .. n : i \in 0 .. n /\ i # 0
      BY <1>1
    <2> QED BY <2>1, <2>2
  <1>9. F \in [0 .. n -> Nat]
    <2> DEFINE G == {i \in 0 .. n : F[i] = w[i]}
    <2>1. 0 \in G
      BY <1>1, <1>4, <1>8
    <2>2. ASSUME NEW i \in 0 .. n - 1, i \in G PROVE i + 1 \in G
      <3>1. i + 1 \in 1 .. n /\ (i + 1) - 1 = i /\ i + 1 \in 0 .. n
        BY <1>1
      <3>2. F[i + 1] = F[i] * 256 + bytes[i + 1] /\ w[i + 1] = w[i] * 256 + bytes[i + 1]
        BY <1>4, <1>8, <3>1
      <3> QED BY <2>2, <3>1, <3>2
    <2>3. 0 .. n \subseteq G
      <3> HIDE DEF G
      <3> QED BY <1>1, <2>1, <2>2, UpTo
    <2>4. F = [i \in 0 .. n |-> F[i]]
      BY <1>6 DEF IsValue, n
    <2> QED BY <1>4, <2>3, <2>4
  <1> QED BY <1>7, <1>8, <1>9 DEF n, IsMadeUp

LEMMA ByteOfNumber == \A u \in Nat : u \div 256 \in Nat /\ u % 256 \in Bytes /\ u = (u \div 256) * 256 + (u % 256)
  BY Z3 DEF Bytes

\* What is written in two or four bytes is read from them, when it fits.
LEMMA TwoBytes ==
  ASSUME NEW v \in Nat, v <= 65535
  PROVE  ToBigEndian(v, 2) \in Seq(Bytes) /\ Len(ToBigEndian(v, 2)) = 2 /\ FromBigEndian(ToBigEndian(v, 2)) = v
  <1>1. PICK f : IsBytes(f, v, 2)
    <2>1. v \in Nat /\ 2 \in Nat
      OBVIOUS
    <2> QED BY <2>1, BytesOf
  <1> DEFINE b == ToBigEndian(v, 2)
  <1>2. b = [i \in 1 .. 2 |-> f[2 - i] % 256] /\ f[0] \in Nat /\ f[1] \in Nat /\ f[0] = v /\ f[1] = f[0] \div 256
    <2>1. f[1] = f[1 - 1] \div 256 /\ 1 - 1 = 0
      BY <1>1 DEF IsBytes
    <2> QED BY <1>1, <2>1 DEF IsBytes
  <1> HIDE DEF b
  <1>3. b[1] = f[1] % 256 /\ b[2] = f[0] % 256
    BY <1>2
  <1>4. \A i \in 1 .. 2 : f[2 - i] % 256 \in Bytes
    BY ByteOfNumber, <1>1 DEF IsBytes
  <1>5. b \in Seq(Bytes) /\ Len(b) = 2
    BY <1>2, <1>4
  <1>6. PICK g : IsMadeUp(g, b)
    BY <1>5, ValueOf
  <1>7. g[1] = 0 * 256 + b[1] /\ g[2] = g[1] * 256 + b[2] /\ FromBigEndian(b) = g[2] /\ g[1] \in Nat
    <2>1. g[1] = g[1 - 1] * 256 + b[1] /\ g[2] = g[2 - 1] * 256 + b[2] /\ 1 - 1 = 0 /\ 2 - 1 = 1
      BY <1>5, <1>6 DEF IsMadeUp
    <2> QED BY <1>5, <1>6, <2>1 DEF IsMadeUp
  <1>8. FromBigEndian(b) = v
    <2> DEFINE q == f[1]
               r == v % 256
               d == q % 256
               u == q \div 256
    <2>1. q \in Nat /\ v \in Nat /\ q = v \div 256 /\ v <= 65535
      BY <1>2
    <2>2. b[1] = d /\ b[2] = r
      BY <1>2, <1>3
    <2> HIDE DEF q
    <2>3. v = q * 256 + r /\ r \in Bytes /\ q = u * 256 + d /\ d \in Bytes /\ u \in Nat
      BY <2>1, ByteOfNumber
    <2> HIDE DEF r, d, u
    <2>4. q = d
      <3>1. q <= 255
        BY <2>1, <2>3 DEF Bytes
      <3> QED BY <2>1, <2>3, <3>1 DEF Bytes
    <2>5. FromBigEndian(b) = (0 * 256 + d) * 256 + r
      BY <1>7, <2>2
    <2> QED BY <2>1, <2>3, <2>4, <2>5 DEF Bytes
  <1> QED BY <1>5, <1>8 DEF b

LEMMA FourBytes ==
  ASSUME NEW v \in Nat, v \div 65536 <= 65535
  PROVE  ToBigEndian(v, 4) \in Seq(Bytes) /\ Len(ToBigEndian(v, 4)) = 4 /\ FromBigEndian(ToBigEndian(v, 4)) = v
  <1>1. PICK f : IsBytes(f, v, 4)
    <2>1. 4 \in Nat
      OBVIOUS
    <2> QED BY <2>1, BytesOf
  <1> DEFINE b == ToBigEndian(v, 4)
  <1>2. /\ b = [i \in 1 .. 4 |-> f[4 - i] % 256] /\ f[0] = v
        /\ f[1] \in Nat /\ f[2] \in Nat /\ f[3] \in Nat
        /\ f[1] = f[0] \div 256 /\ f[2] = f[1] \div 256 /\ f[3] = f[2] \div 256
    <2>1. f[1] = f[1 - 1] \div 256 /\ f[2] = f[2 - 1] \div 256 /\ f[3] = f[3 - 1] \div 256
      BY <1>1 DEF IsBytes
    <2>2. 1 - 1 = 0 /\ 2 - 1 = 1 /\ 3 - 1 = 2
      OBVIOUS
    <2> QED BY <1>1, <2>1, <2>2 DEF IsBytes
  <1> HIDE DEF b
  <1>3. b[1] = f[3] % 256 /\ b[2] = f[2] % 256 /\ b[3] = f[1] % 256 /\ b[4] = f[0] % 256
    BY <1>2
  <1>4. \A i \in 1 .. 4 : f[4 - i] % 256 \in Bytes
    BY ByteOfNumber, <1>1 DEF IsBytes
  <1>5. b \in Seq(Bytes) /\ Len(b) = 4
    BY <1>2, <1>4
  <1>6. PICK g : IsMadeUp(g, b)
    BY <1>5, ValueOf
  <1>7. /\ g[1] = 0 * 256 + b[1] /\ g[2] = g[1] * 256 + b[2] /\ g[3] = g[2] * 256 + b[3]
        /\ g[4] = g[3] * 256 + b[4] /\ FromBigEndian(b) = g[4]
    <2>1. /\ g[1] = g[1 - 1] * 256 + b[1] /\ g[2] = g[2 - 1] * 256 + b[2] /\ g[3] = g[3 - 1] * 256 + b[3]
          /\ g[4] = g[4 - 1] * 256 + b[4]
      BY <1>5, <1>6 DEF IsMadeUp
    <2>2. 1 - 1 = 0 /\ 2 - 1 = 1 /\ 3 - 1 = 2 /\ 4 - 1 = 3
      OBVIOUS
    <2> QED BY <1>5, <1>6, <2>1, <2>2 DEF IsMadeUp
  <1>8. FromBigEndian(b) = v
    <2> DEFINE q1 == f[1]
               q2 == f[2]
               q3 == f[3]
    <2>1. /\ q1 \in Nat /\ v = q1 * 256 + (v % 256) /\ v % 256 \in Bytes
          /\ q2 \in Nat /\ q1 = q2 * 256 + (q1 % 256) /\ q1 % 256 \in Bytes
          /\ q3 \in Nat /\ q2 = q3 * 256 + (q2 % 256) /\ q2 % 256 \in Bytes
          /\ q3 \div 256 \in Nat /\ q3 = (q3 \div 256) * 256 + (q3 % 256) /\ q3 % 256 \in Bytes
      BY <1>2, ByteOfNumber
    <2>2. b[1] = q3 % 256 /\ b[2] = q2 % 256 /\ b[3] = q1 % 256 /\ b[4] = v % 256
      BY <1>2, <1>3
    <2> HIDE DEF q1, q2, q3
    <2>3. q2 <= 65535
      <3>1. \A u, r \in Nat : u = v \div 65536 => v < u * 65536 + 65536
        BY Z3
      <3>2. v \div 65536 \in Nat
        BY Z3
      <3>3. v < 65535 * 65536 + 65536
        <4> DEFINE u == v \div 65536
        <4>1. u \in Nat /\ u <= 65535 /\ v < u * 65536 + 65536
          BY <3>1, <3>2
        <4> HIDE DEF u
        <4> QED BY <4>1
      <3> QED BY <2>1, <3>3 DEF Bytes
    <2>4. q3 % 256 = q3
      BY <2>1, <2>3 DEF Bytes
    <2> DEFINE d1 == b[1]
               d2 == b[2]
               d3 == b[3]
               d4 == b[4]
    <2>5. /\ d1 \in Bytes /\ d2 \in Bytes /\ d3 \in Bytes /\ d4 \in Bytes
          /\ q3 = d1 /\ q2 = q3 * 256 + d2 /\ q1 = q2 * 256 + d3 /\ v = q1 * 256 + d4
      BY <2>1, <2>2, <2>4
    <2>6. FromBigEndian(b) = (((0 * 256 + d1) * 256 + d2) * 256 + d3) * 256 + d4
      BY <1>7
    <2> HIDE DEF d1, d2, d3, d4
    <2> QED BY <2>1, <2>5, <2>6 DEF Bytes
  <1> QED BY <1>5, <1>8 DEF b

-----------------------------------------------------------------------------
(* Parts of sequences *)

LEMMA LengthJoined ==
  ASSUME NEW S, NEW a \in Seq(S), NEW b \in Seq(S)
  PROVE  a \o b \in Seq(S) /\ Len(a \o b) = Len(a) + Len(b)
  BY ConcatProperties

LEMMA PartOf ==
  ASSUME NEW S, NEW s \in Seq(S), NEW a \in Nat, NEW b \in Nat, a <= b, b <= Len(s)
  PROVE  /\ SubSeq(s, a + 1, b) \in Seq(S) /\ Len(SubSeq(s, a + 1, b)) = b - a
         /\ \A i \in 1 .. b - a : SubSeq(s, a + 1, b)[i] = s[a + i]
  <1>1. a + 1 \in Int /\ b \in Int /\ \A i \in a + 1 .. b : s[i] \in S
    <2>1. \A i \in a + 1 .. b : i \in 1 .. Len(s)
      OBVIOUS
    <2> QED BY <2>1
  <1> DEFINE t == SubSeq(s, a + 1, b)
  <1>2. /\ t \in Seq(S) /\ Len(t) = (IF a + 1 <= b THEN b - (a + 1) + 1 ELSE 0)
        /\ \A i \in 1 .. b - (a + 1) + 1 : t[i] = s[(a + 1) + i - 1]
    BY <1>1, SubSeqProperties
  <1> HIDE DEF t
  <1>3. Len(t) = b - a
    BY <1>2
  <1>4. \A i \in 1 .. b - a : t[i] = s[a + i]
    <2> TAKE i \in 1 .. b - a
    <2>1. i \in 1 .. b - (a + 1) + 1 /\ (a + 1) + i - 1 = a + i
      OBVIOUS
    <2> QED BY <1>2, <2>1
  <1> QED BY <1>2, <1>3, <1>4 DEF t

\* A part of a part.
LEMMA PartOfPart ==
  ASSUME NEW S, NEW s \in Seq(S), NEW a \in Nat, NEW b \in Nat, a <= b, b <= Len(s),
         NEW m \in Nat, NEW n \in Nat, m <= n, n <= b - a
  PROVE  SubSeq(SubSeq(s, a + 1, b), m + 1, n) = SubSeq(s, (a + m) + 1, a + n)
  <1> DEFINE t == SubSeq(s, a + 1, b)
             x == SubSeq(t, m + 1, n)
             y == SubSeq(s, (a + m) + 1, a + n)
  <1>1. t \in Seq(S) /\ Len(t) = b - a /\ \A i \in 1 .. b - a : t[i] = s[a + i]
    BY PartOf
  <1> HIDE DEF t
  <1>2. x \in Seq(S) /\ Len(x) = n - m /\ \A i \in 1 .. n - m : x[i] = t[m + i]
    BY <1>1, PartOf
  <1>3. y \in Seq(S) /\ Len(y) = n - m /\ \A i \in 1 .. n - m : y[i] = s[(a + m) + i]
    <2>1. a + m \in Nat /\ a + n \in Nat /\ a + m <= a + n /\ a + n <= Len(s) /\ (a + n) - (a + m) = n - m
      OBVIOUS
    <2> QED BY <2>1, PartOf
  <1> HIDE DEF x, y
  <1>4. \A i \in 1 .. n - m : x[i] = y[i]
    <2> TAKE i \in 1 .. n - m
    <2>1. m + i \in 1 .. b - a /\ a + (m + i) = (a + m) + i
      OBVIOUS
    <2> QED BY <1>1, <1>2, <1>3, <2>1
  <1>5. x = y
    BY <1>2, <1>3, <1>4, SeqEqual
  <1> QED BY <1>5 DEF x, y, t

LEMMA MiddleOf ==
  ASSUME NEW S, NEW a \in Seq(S), NEW b \in Seq(S), NEW c \in Seq(S)
  PROVE  SubSeq((a \o b) \o c, Len(a) + 1, Len(a) + Len(b)) = b
  <1> DEFINE s == (a \o b) \o c
             k == Len(a)
             n == Len(b)
             x == SubSeq(s, k + 1, k + n)
  <1>1. k \in Nat /\ n \in Nat /\ Len(c) \in Nat
    OBVIOUS
  <1>2. s \in Seq(S) /\ Len(s) = (k + n) + Len(c) /\ \A i \in 1 .. n : s[k + i] = b[i]
    <2> DEFINE t == a \o b
    <2>1. t \in Seq(S) /\ Len(t) = k + n /\ \A i \in 1 .. k + n : t[i] = IF i <= k THEN a[i] ELSE b[i - k]
      BY ConcatProperties
    <2> HIDE DEF t
    <2>2. /\ t \o c \in Seq(S) /\ Len(t \o c) = Len(t) + Len(c)
          /\ \A i \in 1 .. Len(t) + Len(c) : (t \o c)[i] = IF i <= Len(t) THEN t[i] ELSE c[i - Len(t)]
      <3>1. t \in Seq(S)
        BY <2>1
      <3> QED BY ONLY <3>1, c \in Seq(S), ConcatProperties
    <2>3. ASSUME NEW i \in 1 .. n PROVE (t \o c)[k + i] = b[i]
      <3> HIDE DEF k, n
      <3>1. k + i \in 1 .. Len(t) + Len(c) /\ k + i <= Len(t) /\ k + i \in 1 .. k + n /\ ~(k + i <= k) /\ (k + i) - k = i
        BY <1>1, <2>1
      <3> QED BY <2>1, <2>2, <3>1
    <2> HIDE DEF k, n
    <2> QED BY <2>1, <2>2, <2>3 DEF t
  <1> HIDE DEF s, k, n
  <1>3. x \in Seq(S) /\ Len(x) = n /\ \A i \in 1 .. n : x[i] = s[k + i]
    <2>1. k + n \in Nat /\ k <= k + n /\ k + n <= Len(s) /\ (k + n) - k = n
      BY <1>1, <1>2
    <2> QED BY <1>1, <1>2, <2>1, PartOf
  <1> HIDE DEF x
  <1>4. x = b
    <2>1. Len(b) = n /\ \A i \in 1 .. n : x[i] = b[i]
      BY <1>2, <1>3 DEF n
    <2> QED BY <1>3, <2>1, SeqEqual
  <1> QED BY <1>4 DEF x, s, k, n

LEMMA EndOf ==
  ASSUME NEW S, NEW a \in Seq(S), NEW b \in Seq(S)
  PROVE  SubSeq(a \o b, Len(a) + 1, Len(a) + Len(b)) = b
  <1>1. a \o b \in Seq(S) /\ <<>> \in Seq(S)
    BY EmptySeq
  <1>2. (a \o b) \o <<>> = a \o b
    BY <1>1, ConcatEmptySeq
  <1>3. SubSeq((a \o b) \o <<>>, Len(a) + 1, Len(a) + Len(b)) = b
    BY <1>1, MiddleOf
  <1> QED BY <1>2, <1>3

LEMMA BeginningOf ==
  ASSUME NEW S, NEW a \in Seq(S), NEW b \in Seq(S)
  PROVE  SubSeq(a \o b, 1, Len(a)) = a
  <1>1. <<>> \in Seq(S) /\ Len(<<>>) = 0 /\ Len(a) \in Nat /\ <<>> \o a = a
    BY EmptySeq, ConcatEmptySeq
  <1>2. SubSeq((<<>> \o a) \o b, Len(<<>>) + 1, Len(<<>>) + Len(a)) = a
    BY <1>1, MiddleOf
  <1>3. Len(<<>>) + 1 = 1 /\ Len(<<>>) + Len(a) = Len(a)
    BY <1>1
  <1> QED BY <1>1, <1>2, <1>3

\* Two parts that meet.
IsPart(x, S, s, a, b) ==
  x = SubSeq(s, a + 1, b) /\ x \in Seq(S) /\ Len(x) = b - a /\ \A i \in 1 .. b - a : x[i] = s[a + i]

LEMMA PartExists ==
  ASSUME NEW S, NEW s \in Seq(S), NEW a \in Nat, NEW b \in Nat, a <= b, b <= Len(s)
  PROVE  \E x : IsPart(x, S, s, a, b)
  <1>1. IsPart(SubSeq(s, a + 1, b), S, s, a, b)
    BY PartOf DEF IsPart
  <1> QED BY <1>1

IsJoined(w, S, x, y) ==
  /\ w = x \o y /\ w \in Seq(S) /\ Len(w) = Len(x) + Len(y)
  /\ \A i \in 1 .. Len(x) + Len(y) : w[i] = IF i <= Len(x) THEN x[i] ELSE y[i - Len(x)]

LEMMA JoinedExists ==
  ASSUME NEW S, NEW x \in Seq(S), NEW y \in Seq(S)
  PROVE  \E w : IsJoined(w, S, x, y)
  <1>1. IsJoined(x \o y, S, x, y)
    BY ConcatProperties DEF IsJoined
  <1> QED BY <1>1

LEMMA PartsJoined ==
  ASSUME NEW S, NEW s \in Seq(S), NEW a \in Nat, NEW b \in Nat, NEW c \in Nat, a <= b, b <= c, c <= Len(s)
  PROVE  SubSeq(s, a + 1, b) \o SubSeq(s, b + 1, c) = SubSeq(s, a + 1, c)
  <1>0. b <= Len(s) /\ a <= c
    OBVIOUS
  <1>1. PICK x : IsPart(x, S, s, a, b)
    BY <1>0, PartExists
  <1>2. PICK y : IsPart(y, S, s, b, c)
    BY PartExists
  <1>3. PICK z : IsPart(z, S, s, a, c)
    BY <1>0, PartExists
  <1>4. PICK w : IsJoined(w, S, x, y)
    <2>1. x \in Seq(S) /\ y \in Seq(S)
      BY <1>1, <1>2 DEF IsPart
    <2> QED BY ONLY <2>1, JoinedExists
  <1> USE DEF IsPart, IsJoined
  <1>5. Len(w) = Len(z)
    BY <1>1, <1>2, <1>3, <1>4
  <1>6. ASSUME NEW i \in 1 .. Len(z) PROVE w[i] = z[i]
    <2>0. i \in 1 .. c - a /\ i \in Int
      BY <1>3
    <2>1. CASE i <= b - a
      <3>1. i \in 1 .. b - a /\ i \in 1 .. Len(x) + Len(y) /\ i <= Len(x)
        BY <1>1, <1>2, <2>0, <2>1
      <3> QED BY <1>1, <1>3, <1>4, <2>0, <3>1
    <2>2. CASE ~(i <= b - a)
      <3>1. /\ i - (b - a) \in 1 .. c - b /\ i \in 1 .. Len(x) + Len(y) /\ ~(i <= Len(x))
            /\ b + (i - (b - a)) = a + i /\ Len(x) = b - a
        <4>1. Len(x) = b - a /\ Len(y) = c - b
          BY <1>1, <1>2
        <4>2. i \in 1 .. (b - a) + (c - b) /\ i - (b - a) \in 1 .. c - b /\ b + (i - (b - a)) = a + i
          BY ONLY a \in Nat, b \in Nat, c \in Nat, <2>0, <2>2
        <4> QED BY ONLY <2>2, <4>1, <4>2
      <3>2. w[i] = y[i - (b - a)]
        BY <1>4, <3>1
      <3>3. y[i - (b - a)] = s[b + (i - (b - a))]
        BY <1>2, <3>1
      <3> QED BY <1>3, <2>0, <3>1, <3>2, <3>3
    <2> QED BY <2>1, <2>2
  <1>7. w = z
    <2>1. w \in Seq(S) /\ z \in Seq(S)
      BY <1>3, <1>4
    <2> QED BY ONLY <1>5, <1>6, <2>1, SeqEqual
  <1> QED BY <1>1, <1>2, <1>3, <1>4, <1>7

\* One element more.
LEMMA PartAppended ==
  ASSUME NEW S, NEW s \in Seq(S), NEW a \in Nat, NEW b \in Nat, a <= b, b + 1 <= Len(s)
  PROVE  SubSeq(s, a + 1, b) \o <<s[b + 1]>> = SubSeq(s, a + 1, b + 1)
  <1>1. /\ SubSeq(s, b + 1, b + 1) \in Seq(S) /\ Len(SubSeq(s, b + 1, b + 1)) = (b + 1) - b
        /\ \A i \in 1 .. (b + 1) - b : SubSeq(s, b + 1, b + 1)[i] = s[b + i]
    <2>1. b + 1 \in Nat /\ b <= b + 1
      OBVIOUS
    <2> QED BY <2>1, PartOf
  <1>2. (b + 1) - b = 1 /\ 1 \in 1 .. 1
    OBVIOUS
  <1>3. SubSeq(s, b + 1, b + 1) = <<s[b + 1]>>
    <2> DEFINE t == SubSeq(s, b + 1, b + 1)
    <2>1. t \in Seq(S) /\ Len(t) = 1 /\ t[1] = s[b + 1]
      BY <1>1, <1>2
    <2> HIDE DEF t
    <2>2. t = <<t[1]>>
      BY ONLY <2>1
    <2> QED BY <2>1, <2>2 DEF t
  <1>4. b + 1 \in Nat /\ b <= b + 1
    OBVIOUS
  <1>5. SubSeq(s, a + 1, b) \o SubSeq(s, b + 1, b + 1) = SubSeq(s, a + 1, b + 1)
    BY <1>4, PartsJoined
  <1> QED BY <1>3, <1>5

-----------------------------------------------------------------------------
(* A packet *)

IsPacket(p, data) ==
  /\ p \in Seq(Bytes) /\ Len(p) >= 4 /\ Len(p) < UINT /\ Len(p) = 4 + FromBigEndian(SubSeq(p, 1, 4))
  /\ Parse(SubSeq(p, 5, Len(p))) = data

IsData(e) ==
  /\ e \in [userId : Nat, name : Seq(Bytes), email : Seq(Bytes)] /\ e.userId \div 65536 <= 65535
  /\ Len(e.name) <= MAX_NAME_LEN /\ Len(e.email) <= MAX_EMAIL_LEN

\* Five parts one after the other.
FiveParts(p, a, b, c, d, e) ==
  /\ Len(p) = Len(a) + (Len(b) + (Len(c) + (Len(d) + Len(e))))
  /\ SubSeq(p, 1, Len(a)) = a
  /\ SubSeq(p, Len(a) + 1, Len(a) + Len(b)) = b
  /\ SubSeq(p, (Len(a) + Len(b)) + 1, (Len(a) + Len(b)) + Len(c)) = c
  /\ SubSeq(p, ((Len(a) + Len(b)) + Len(c)) + 1, ((Len(a) + Len(b)) + Len(c)) + Len(d)) = d
  /\ SubSeq(p, (((Len(a) + Len(b)) + Len(c)) + Len(d)) + 1, (((Len(a) + Len(b)) + Len(c)) + Len(d)) + Len(e)) = e

Associated(x, y, z) == (x \o y) \o z = x \o (y \o z)

LEMMA Reassociated == \A S : \A x, y, z \in Seq(S) : Associated(x, y, z)
  BY ConcatAssociative DEF Associated

LEMMA PartsFound ==
  ASSUME NEW S, NEW a \in Seq(S), NEW b \in Seq(S), NEW c \in Seq(S), NEW d \in Seq(S), NEW e \in Seq(S)
  PROVE  a \o b \o c \o d \o e \in Seq(S) /\ FiveParts(a \o b \o c \o d \o e, a, b, c, d, e)
  <1>1. PICK ab : ab = a \o b /\ ab \in Seq(S) /\ Len(ab) = Len(a) + Len(b)
    BY LengthJoined
  <1>2. PICK de : de = d \o e /\ de \in Seq(S) /\ Len(de) = Len(d) + Len(e)
    BY LengthJoined
  <1>4. PICK abc : abc = ab \o c /\ abc \in Seq(S) /\ Len(abc) = Len(ab) + Len(c)
    BY <1>1, LengthJoined
  <1>5. PICK cde : cde = c \o de /\ cde \in Seq(S) /\ Len(cde) = Len(c) + Len(de)
    BY <1>2, LengthJoined
  <1>6. PICK abcd : abcd = abc \o d /\ abcd \in Seq(S) /\ Len(abcd) = Len(abc) + Len(d)
    BY <1>4, LengthJoined
  <1>7. PICK bcde : bcde = b \o cde /\ bcde \in Seq(S) /\ Len(bcde) = Len(b) + Len(cde)
    BY <1>5, LengthJoined
  <1>8. PICK p : p = abcd \o e /\ p \in Seq(S) /\ Len(p) = Len(abcd) + Len(e)
    BY <1>6, LengthJoined
  <1>3. p = a \o b \o c \o d \o e
    BY ONLY <1>1, <1>4, <1>6, <1>8
  <1>9. p = abc \o de
    <2>1. Associated(abc, d, e)
      BY <1>4, Reassociated
    <2> QED BY ONLY <1>2, <1>6, <1>8, <2>1 DEF Associated
  <1>10. p = ab \o cde
    <2>1. Associated(ab, c, de)
      BY ONLY <1>1, <1>2, c \in Seq(S), Reassociated
    <2> QED BY ONLY <1>4, <1>5, <1>9, <2>1 DEF Associated
  <1>11. p = a \o bcde
    <2>1. Associated(a, b, cde)
      BY <1>5, Reassociated
    <2> QED BY ONLY <1>1, <1>7, <1>10, <2>1 DEF Associated
  <1>12. SubSeq(p, 1, Len(a)) = a
    BY <1>7, <1>11, BeginningOf
  <1>13. SubSeq(p, Len(a) + 1, Len(a) + Len(b)) = b
    <2>1. SubSeq((a \o b) \o cde, Len(a) + 1, Len(a) + Len(b)) = b
      BY <1>5, MiddleOf
    <2> QED BY ONLY <1>1, <1>10, <2>1
  <1>14. SubSeq(p, Len(ab) + 1, Len(ab) + Len(c)) = c
    <2>1. SubSeq((ab \o c) \o de, Len(ab) + 1, Len(ab) + Len(c)) = c
      BY <1>1, <1>2, MiddleOf
    <2> QED BY ONLY <1>4, <1>9, <2>1
  <1>15. SubSeq(p, Len(abc) + 1, Len(abc) + Len(d)) = d
    <2>1. SubSeq((abc \o d) \o e, Len(abc) + 1, Len(abc) + Len(d)) = d
      BY <1>4, MiddleOf
    <2> QED BY ONLY <1>6, <1>8, <2>1
  <1>16. SubSeq(p, Len(abcd) + 1, Len(abcd) + Len(e)) = e
    <2>1. SubSeq(abcd \o e, Len(abcd) + 1, Len(abcd) + Len(e)) = e
      BY <1>6, EndOf
    <2> QED BY ONLY <1>8, <2>1
  <1>17. Len(a) \in Nat /\ Len(b) \in Nat /\ Len(c) \in Nat /\ Len(d) \in Nat /\ Len(e) \in Nat
    OBVIOUS
  <1>18. Len(p) = Len(a) + (Len(b) + (Len(c) + (Len(d) + Len(e))))
    BY ONLY <1>1, <1>4, <1>6, <1>8, <1>17
  <1>19. FiveParts(p, a, b, c, d, e)
    <2>1. Len(ab) = Len(a) + Len(b) /\ Len(abc) = (Len(a) + Len(b)) + Len(c)
          /\ Len(abcd) = ((Len(a) + Len(b)) + Len(c)) + Len(d)
      BY ONLY <1>1, <1>4, <1>6
    <2> QED BY ONLY <1>12, <1>13, <1>14, <1>15, <1>16, <1>18, <2>1 DEF FiveParts
  <1> QED BY ONLY <1>3, <1>8, <1>19

\* What is serialized is parsed again.
LEMMA SerializedPacket ==
  ASSUME NEW e, IsData(e)
  PROVE  IsPacket(Serialize(e), <<e>>)
  <1> DEFINE i == ToBigEndian(e.userId, 4)
             n == ToBigEndian(Len(e.name), 2)
             m == ToBigEndian(Len(e.email), 2)
             p == i \o n \o e.name \o m \o e.email
             s == ToBigEndian(Len(p), 4)
             k == Len(e.name)
             l == Len(e.email)
  <1>1. /\ e.userId \in Nat /\ e.name \in Seq(Bytes) /\ e.email \in Seq(Bytes)
        /\ k \in Nat /\ l \in Nat /\ k <= 65535 /\ l <= 65535 /\ k <= MAX_NAME_LEN /\ l <= MAX_EMAIL_LEN
    <2>1. MAX_NAME_LEN \in Nat /\ MAX_EMAIL_LEN \in Nat /\ MAX_NAME_LEN <= 65535 /\ MAX_EMAIL_LEN <= 65535
      BY LengthsAssumption
    <2>2. /\ e.userId \in Nat /\ e.name \in Seq(Bytes) /\ e.email \in Seq(Bytes)
          /\ k \in Nat /\ l \in Nat /\ k <= MAX_NAME_LEN /\ l <= MAX_EMAIL_LEN
      BY DEF IsData
    <2> QED BY <2>1, <2>2
  <1>2. /\ i \in Seq(Bytes) /\ Len(i) = 4 /\ FromBigEndian(i) = e.userId
        /\ n \in Seq(Bytes) /\ Len(n) = 2 /\ FromBigEndian(n) = k
        /\ m \in Seq(Bytes) /\ Len(m) = 2 /\ FromBigEndian(m) = l
    BY <1>1, TwoBytes, FourBytes DEF IsData
  <1>3. Serialize(e) = s \o p
    <2>1. MAX_NAME_LEN \in Nat /\ MAX_EMAIL_LEN \in Nat
      BY LengthsAssumption
    <2>2. ~(k > MAX_NAME_LEN \/ l > MAX_EMAIL_LEN)
      BY <1>1, <2>1
    <2> QED BY <2>2 DEF Serialize
  <1> HIDE DEF i, n, m, s
  <1>4. p \in Seq(Bytes) /\ FiveParts(p, i, n, e.name, m, e.email)
    <2> DEFINE a == e.name
               b == e.email
    <2>1. a \in Seq(Bytes) /\ b \in Seq(Bytes)
      BY <1>1
    <2> HIDE DEF a, b
    <2>2. i \o n \o a \o m \o b \in Seq(Bytes) /\ FiveParts(i \o n \o a \o m \o b, i, n, a, m, b)
      BY <1>2, <2>1, PartsFound
    <2> QED BY <2>2 DEF a, b
  <1> HIDE DEF p
  <1>5. /\ Len(p) = 8 + k + l
        /\ SubSeq(p, 1, 4) = i /\ SubSeq(p, 5, 6) = n
        /\ SubSeq(p, 7, 6 + k) = e.name
        /\ SubSeq(p, (6 + k) + 1, (6 + k) + 2) = m
        /\ SubSeq(p, (6 + k) + 3, Len(p)) = e.email
    <2> DEFINE a == e.name
               b == e.email
    <2>1. k = Len(a) /\ l = Len(b) /\ k \in Nat /\ l \in Nat
      BY <1>1
    <2>2. FiveParts(p, i, n, a, m, b)
      BY <1>4
    <2> HIDE DEF k, l, a, b
    <2>3. /\ Len(p) = 4 + (2 + (k + (2 + l)))
          /\ SubSeq(p, 1, 4) = i
          /\ SubSeq(p, 4 + 1, 4 + 2) = n
          /\ SubSeq(p, (4 + 2) + 1, (4 + 2) + k) = a
          /\ SubSeq(p, ((4 + 2) + k) + 1, ((4 + 2) + k) + 2) = m
          /\ SubSeq(p, (((4 + 2) + k) + 2) + 1, (((4 + 2) + k) + 2) + l) = b
      BY <1>2, <2>1, <2>2 DEF FiveParts
    <2>4. /\ 4 + 2 = 6 /\ 4 + 1 = 5 /\ 6 + 1 = 7 /\ ((6 + k) + 2) + 1 = (6 + k) + 3
          /\ ((6 + k) + 2) + l = 8 + k + l /\ 4 + (2 + (k + (2 + l))) = 8 + k + l
      BY <2>1
    <2>5. /\ Len(p) = 8 + k + l /\ SubSeq(p, 5, 6) = n /\ SubSeq(p, 7, 6 + k) = a
          /\ SubSeq(p, (6 + k) + 1, (6 + k) + 2) = m
          /\ SubSeq(p, (6 + k) + 3, 8 + k + l) = b
      BY <2>3, <2>4
    <2> QED BY <2>3, <2>5 DEF a, b
  <1>6. Parse(p) = <<e>>
    <2>1. [userId |-> e.userId, name |-> e.name, email |-> e.email] = e
      BY DEF IsData
    <2>2. /\ FromBigEndian(SubSeq(p, 5, 6)) = k
          /\ FromBigEndian(SubSeq(p, (6 + k) + 1, (6 + k) + 2)) = l
          /\ FromBigEndian(SubSeq(p, 1, 4)) = e.userId
          /\ SubSeq(p, 7, 6 + k) = e.name /\ SubSeq(p, (6 + k) + 3, Len(p)) = e.email
      BY <1>2, <1>5
    <2> HIDE DEF k, l
    <2>3. /\ Len(p) >= 8 /\ k <= MAX_NAME_LEN /\ (6 + k) + 2 <= Len(p) /\ l <= MAX_EMAIL_LEN
          /\ (6 + k) + 2 + l = Len(p)
      BY <1>1, <1>5
    <2> QED BY <2>1, <2>2, <2>3 DEF Parse, EndsWith
  <1>7. s \in Seq(Bytes) /\ Len(s) = 4 /\ FromBigEndian(s) = Len(p)
    <2> DEFINE v == 8 + k + l
    <2>1. v \in Nat /\ v <= 140000
      <3> HIDE DEF k, l
      <3> QED BY <1>1
    <2> HIDE DEF v
    <2>2. v \div 65536 <= 65535
      BY <2>1
    <2>3. ToBigEndian(v, 4) \in Seq(Bytes) /\ Len(ToBigEndian(v, 4)) = 4 /\ FromBigEndian(ToBigEndian(v, 4)) = v
      BY <2>1, <2>2, FourBytes
    <2> QED BY <1>5, <2>3 DEF s, v
  <1>8. s \o p \in Seq(Bytes) /\ Len(s \o p) = Len(s) + Len(p)
    BY <1>4, <1>7, LengthJoined
  <1>9. SubSeq(s \o p, 1, Len(s)) = s /\ SubSeq(s \o p, Len(s) + 1, Len(s) + Len(p)) = p
    BY <1>4, <1>7, BeginningOf, EndOf
  <1> DEFINE q == s \o p
  <1>10. q \in Seq(Bytes) /\ Len(q) = 4 + Len(p) /\ SubSeq(q, 1, 4) = s /\ SubSeq(q, 5, 4 + Len(p)) = p
    <2>1. q \in Seq(Bytes) /\ Len(q) = Len(s) + Len(p)
      BY <1>8
    <2>2. SubSeq(q, 1, Len(s)) = s /\ SubSeq(q, Len(s) + 1, Len(s) + Len(p)) = p
      BY <1>9
    <2> HIDE DEF q
    <2>3. Len(s) = 4 /\ 4 + 1 = 5
      BY <1>7
    <2> QED BY <2>1, <2>2, <2>3
  <1> HIDE DEF q
  <1>11. IsPacket(q, <<e>>)
    <2>1. Len(p) \in Nat
      BY <1>4
    <2>2. FromBigEndian(SubSeq(q, 1, 4)) = Len(p)
      BY <1>7, <1>10
    <2>3. SubSeq(q, 5, Len(q)) = p
      BY <1>10
    <2>4. \A x, y \in Nat : x = 4 + y => x >= 4
      OBVIOUS
    <2>5. Len(q) >= 4
      <3>1. Len(q) \in Nat
        BY <1>10
      <3> QED BY ONLY <1>10, <2>1, <2>4, <3>1
    <2>6. Len(q) < UINT
      <3>1. /\ MAX_NAME_LEN \in Nat /\ MAX_EMAIL_LEN \in Nat /\ UINT \in Nat
            /\ 12 + MAX_NAME_LEN + MAX_EMAIL_LEN < UINT
        BY LengthsAssumption, PacketsAssumption
      <3>2. Len(q) = 4 + (8 + k + l)
        BY <1>5, <1>10
      <3> HIDE DEF k, l
      <3> QED BY ONLY <1>1, <3>1, <3>2
    <2> QED BY <1>6, <1>10, <2>2, <2>3, <2>5, <2>6 DEF IsPacket
  <1> QED BY <1>3, <1>11 DEF q

-----------------------------------------------------------------------------
(* The loop of the handler *)

\* At a, the packet up to b is found in the bytes up to c.
IsFoundAt(s, a, b, c, data) ==
  /\ PacketSize(SubSeq(s, a + 1, c)) = b - a
  /\ a + 4 <= b /\ b <= c
  /\ Parse(Payload(SubSeq(s, a + 1, c))) = data
  /\ AfterPacket(SubSeq(s, a + 1, c), b - a) = SubSeq(s, b + 1, c)

\* The packet at the beginning of what has arrived, when it has arrived whole.
LEMMA PacketFound ==
  ASSUME NEW s \in Seq(Bytes), NEW a \in Nat, NEW b \in Nat, NEW c \in Nat, a <= b, b <= Len(s), a <= c, c <= Len(s),
         NEW data, IsPacket(SubSeq(s, a + 1, b), data), HasPacket(SubSeq(s, a + 1, c))
  PROVE  IsFoundAt(s, a, b, c, data)
  <1> DEFINE t == SubSeq(s, a + 1, c)
             p == SubSeq(s, a + 1, b)
             Same(m, n) == SubSeq(t, m + 1, n) = SubSeq(p, m + 1, n)
  <1>1. t \in Seq(Bytes) /\ Len(t) = c - a /\ p \in Seq(Bytes) /\ Len(p) = b - a
    BY PartOf
  <1>2. /\ Len(p) >= 4 /\ Len(p) = 4 + FromBigEndian(SubSeq(p, 1, 4)) /\ Parse(SubSeq(p, 5, Len(p))) = data
        /\ Len(p) < UINT
    BY DEF IsPacket
  <1>3. Len(t) >= 4 /\ Len(t) >= PacketSize(t)
    BY DEF HasPacket
  <1>4. ASSUME NEW m \in Nat, NEW n \in Nat, m <= n, n <= b - a, n <= c - a
        PROVE  Same(m, n)
    <2>1. SubSeq(t, m + 1, n) = SubSeq(s, (a + m) + 1, a + n)
      BY <1>4, PartOfPart
    <2>2. SubSeq(p, m + 1, n) = SubSeq(s, (a + m) + 1, a + n)
      BY <1>4, PartOfPart
    <2> QED BY <2>1, <2>2
  <1> HIDE DEF t, p, Same
  <1>5. SubSeq(t, 1, 4) = SubSeq(p, 1, 4)
    <2>1. 0 \in Nat /\ 4 \in Nat /\ 0 <= 4 /\ 4 <= b - a /\ 4 <= c - a /\ 0 + 1 = 1
      BY <1>1, <1>2, <1>3
    <2>2. Same(0, 4)
      BY <1>4, <2>1
    <2> QED BY <2>1, <2>2 DEF Same
  <1>6. /\ 4 + MsgSize(t) = b - a /\ PacketSize(t) = b - a
        /\ b - a >= 4 /\ c - a >= b - a
    <2>1. 4 + MsgSize(t) = b - a /\ b - a >= 4 /\ b - a < UINT
      BY ONLY <1>1, <1>2, <1>5 DEF MsgSize
    <2>2. UINT \in Nat /\ b - a \in Nat
      BY <2>1, PacketsAssumption
    <2>3. \A m, n \in Nat : m < n => m % n = m
      BY Z3
    <2>4. PacketSize(t) = b - a
      BY ONLY <2>1, <2>2, <2>3 DEF PacketSize
    <2> QED BY ONLY <1>1, <1>3, <2>1, <2>4
  <1>7. a + 4 <= b /\ b <= c
    BY <1>6
  <1>8. Parse(Payload(t)) = data
    <2>1. 4 \in Nat /\ b - a \in Nat /\ 4 <= b - a /\ b - a <= c - a /\ 4 + 1 = 5
      BY <1>6
    <2>2. Same(4, b - a)
      BY <1>4, <2>1
    <2>3. SubSeq(t, 5, b - a) = SubSeq(p, 5, Len(p))
      BY <1>1, <2>1, <2>2 DEF Same
    <2>4. 4 + MsgSize(t) <= Len(t) /\ 4 + MsgSize(t) = b - a
      BY <1>1, <1>6
    <2>5. Payload(t) = SubSeq(t, 5, b - a)
      BY ONLY <2>4 DEF Payload
    <2> QED BY <1>2, <2>3, <2>5
  <1>9. AfterPacket(t, b - a) = SubSeq(s, b + 1, c)
    <2>1. /\ b - a \in Nat /\ c - a \in Nat /\ b - a <= c - a /\ c - a <= c - a /\ a + (b - a) = b /\ a + (c - a) = c
      BY <1>7
    <2>2. SubSeq(t, (b - a) + 1, c - a) = SubSeq(s, (a + (b - a)) + 1, a + (c - a))
      BY <2>1, PartOfPart DEF t
    <2> QED BY <1>1, <2>1, <2>2 DEF AfterPacket
  <1> QED BY <1>6, <1>7, <1>8, <1>9 DEF t, IsFoundAt

LEMMA OnceAround ==
  ASSUME NEW v \in Loop, NEW size, size = PacketSize(v.buffer)
  PROVE  /\ ~v.up \/ ~HasPacket(v.buffer) => TakePacket[v] = v
         /\ v.up /\ HasPacket(v.buffer) =>
              LET data == Parse(Payload(v.buffer))
              IN  TakePacket[v] = IF data = <<>> THEN [v EXCEPT !.up = FALSE]
                                  ELSE [v EXCEPT !.buffer = AfterPacket(@, size), !.done = @ \o data]
  BY DEF TakePacket

-----------------------------------------------------------------------------
(* Bytes that are messages, one after the other *)

\* What Parse returns for message m.
Parsed(m) == IF m = Malformed THEN <<>> ELSE <<m>>

\* Message i ends at pos[i] of s; the messages up to h are not in it.
Framed(s, msgs, h, pos) ==
  /\ s \in Seq(Bytes) /\ msgs \in Seq(Entries \cup {Malformed}) /\ h \in 0 .. Len(msgs)
  /\ pos \in [h .. Len(msgs) -> 0 .. Len(s)]
  /\ pos[h] = 0 /\ pos[Len(msgs)] = Len(s)
  /\ \A i \in h + 1 .. Len(msgs) :
       pos[i - 1] <= pos[i] /\ IsPacket(SubSeq(s, pos[i - 1] + 1, pos[i]), Parsed(msgs[i]))

\* The loop has taken the messages behind h up to j from the first b bytes of s.
TakenUpTo(v, s, b, msgs, h, pos, j) ==
  /\ j \in h .. Len(msgs) /\ pos[j] <= b
  /\ v \in Loop
  /\ v.buffer = SubSeq(s, pos[j] + 1, b)
  /\ v.done = SubSeq(msgs, h + 1, j)
  /\ \A i \in h + 1 .. j : msgs[i] \in Entries
  /\ v.up \/ (j < Len(msgs) /\ msgs[j + 1] = Malformed)

LEMMA PacketTaken ==
  ASSUME NEW s, NEW msgs, NEW h, NEW pos, Framed(s, msgs, h, pos),
         NEW b \in 0 .. Len(s), NEW v, NEW j, TakenUpTo(v, s, b, msgs, h, pos, j)
  PROVE  \E k : TakenUpTo(TakePacket[v], s, b, msgs, h, pos, k)
  <1> DEFINE N == Len(msgs)
             size == PacketSize(v.buffer)
             w == TakePacket[v]
             a == pos[j]
             c == pos[j + 1]
             m == msgs[j + 1]
  <1>1. /\ s \in Seq(Bytes) /\ msgs \in Seq(Entries \cup {Malformed}) /\ N \in Nat /\ h \in 0 .. N
        /\ j \in h .. N /\ j \in Nat /\ h \in Nat /\ h <= j /\ j <= N
        /\ Len(s) \in Nat /\ b \in Nat /\ b <= Len(s)
        /\ a \in 0 .. Len(s) /\ a <= b
        /\ v \in Loop /\ v.buffer = SubSeq(s, a + 1, b) /\ v.done = SubSeq(msgs, h + 1, j)
        /\ \A i \in h + 1 .. j : msgs[i] \in Entries
    BY DEF Framed, TakenUpTo
  <1> HIDE DEF size, w
  <1>2. CASE ~v.up \/ ~HasPacket(v.buffer)
    <2>1. w = v
      BY <1>1, <1>2, OnceAround DEF w, size
    <2> QED BY <2>1 DEF w
  <1>3. CASE v.up /\ HasPacket(v.buffer)
    <2>1. HasPacket(SubSeq(s, a + 1, b))
      BY <1>1, <1>3
    <2>2. j < N /\ j + 1 \in h + 1 .. N /\ j + 1 \in Nat /\ j + 1 \in h .. N /\ (j + 1) - 1 = j
      <3>1. j # N
        <4>1. SUFFICES ASSUME j = N PROVE FALSE
          OBVIOUS
        <4>2. a = Len(s)
          BY <4>1 DEF Framed
        <4>3. a = b
          BY <1>1, <4>2
        <4>4. Len(SubSeq(s, a + 1, b)) = b - a /\ b - a = 0
          BY <1>1, <4>3, PartOf
        <4>5. \A t : HasPacket(t) => Len(t) >= 4
          BY DEF HasPacket
        <4>6. ~(0 >= 4)
          OBVIOUS
        <4> QED BY ONLY <2>1, <4>4, <4>5, <4>6
      <3> QED BY <1>1, <3>1
    <2>3. c \in 0 .. Len(s) /\ a <= c /\ IsPacket(SubSeq(s, a + 1, c), Parsed(m)) /\ m \in Entries \cup {Malformed}
      <3>1. j + 1 \in 1 .. N
        BY <1>1, <2>2
      <3>2. m \in Entries \cup {Malformed}
        BY <1>1, <3>1
      <3>3. pos[j + 1] \in 0 .. Len(s)
        BY <2>2 DEF Framed
      <3>4. /\ pos[(j + 1) - 1] <= pos[j + 1]
            /\ IsPacket(SubSeq(s, pos[(j + 1) - 1] + 1, pos[j + 1]), Parsed(msgs[j + 1]))
        BY <2>2 DEF Framed
      <3> QED BY <2>2, <3>2, <3>3, <3>4
    <2> HIDE DEF a, c, m, N
    <2>4. /\ PacketSize(SubSeq(s, a + 1, b)) = c - a
          /\ a + 4 <= c /\ c <= b
          /\ Parse(Payload(SubSeq(s, a + 1, b))) = Parsed(m)
          /\ AfterPacket(SubSeq(s, a + 1, b), c - a) = SubSeq(s, c + 1, b)
      <3>1. /\ s \in Seq(Bytes) /\ a \in Nat /\ b \in Nat /\ c \in Nat
            /\ a <= c /\ c <= Len(s) /\ a <= b /\ b <= Len(s)
        BY <1>1, <2>3
      <3>2. IsFoundAt(s, a, c, b, Parsed(m))
        BY <2>1, <2>3, <3>1, PacketFound
      <3> QED BY <3>2 DEF IsFoundAt
    <2>5. size = c - a
      BY <1>1, <2>4 DEF size
    <2>6. w = IF Parsed(m) = <<>> THEN [v EXCEPT !.up = FALSE]
              ELSE [v EXCEPT !.buffer = SubSeq(s, c + 1, b), !.done = @ \o Parsed(m)]
      <3>1. /\ w = IF Parse(Payload(v.buffer)) = <<>> THEN [v EXCEPT !.up = FALSE]
                   ELSE [v EXCEPT !.buffer = AfterPacket(@, size), !.done = @ \o Parse(Payload(v.buffer))]
        BY <1>1, <1>3, OnceAround DEF w, size
      <3>2. Parse(Payload(v.buffer)) = Parsed(m) /\ AfterPacket(v.buffer, size) = SubSeq(s, c + 1, b)
        BY <1>1, <2>4, <2>5
      <3> QED BY <3>1, <3>2
    <2>7. CASE m = Malformed
      <3>1. w = [v EXCEPT !.up = FALSE]
        BY <2>6, <2>7 DEF Parsed
      <3>2. w \in Loop /\ w.buffer = v.buffer /\ w.done = v.done
        BY <1>1, <3>1 DEF Loop
      <3>3. TakenUpTo(w, s, b, msgs, h, pos, j)
        BY <1>1, <2>2, <2>7, <3>2 DEF TakenUpTo, a, m, N
      <3> QED BY <3>3 DEF w
    <2>8. CASE m # Malformed
      <3>1. m \in Entries
        BY <2>3, <2>8
      <3>2. w = [v EXCEPT !.buffer = SubSeq(s, c + 1, b), !.done = @ \o <<m>>]
        BY <2>6, <2>8 DEF Parsed
      <3>3. w.buffer = SubSeq(s, c + 1, b) /\ w.done = v.done \o <<m>> /\ w.up = v.up
        BY <1>1, <3>2 DEF Loop
      <3>4. w.done = SubSeq(msgs, h + 1, j + 1)
        <4>1. SubSeq(msgs, h + 1, j) \o <<msgs[j + 1]>> = SubSeq(msgs, h + 1, j + 1)
          <5>1. j + 1 <= Len(msgs)
            BY <2>2 DEF N
          <5> QED BY <1>1, <5>1, PartAppended
        <4> QED BY <1>1, <3>3, <4>1 DEF m
      <3>5. w \in Loop
        <4>1. SubSeq(s, c + 1, b) \in Seq(Bytes)
          BY <1>1, <2>3, <2>4, PartOf
        <4>2. v.done \o <<m>> \in Seq(UserData)
          BY <1>1, <3>1, PacketsAssumption DEF Loop
        <4> QED BY <1>1, <3>2, <4>1, <4>2 DEF Loop, Bytes
      <3>6. \A i \in h + 1 .. j + 1 : msgs[i] \in Entries
        <4>1. \A i \in h + 1 .. j + 1 : i \in h + 1 .. j \/ i = j + 1
          BY <1>1
        <4> QED BY <1>1, <3>1, <4>1 DEF m
      <3>7. TakenUpTo(w, s, b, msgs, h, pos, j + 1)
        BY <1>1, <1>3, <2>2, <2>4, <3>3, <3>4, <3>5, <3>6 DEF TakenUpTo, c, N
      <3> QED BY <3>7 DEF w
    <2> QED BY <2>7, <2>8
  <1> QED BY <1>2, <1>3

IsLoop(f, bytes) ==
  f = [k \in 0 .. Len(bytes) |->
         IF k = 0 THEN [buffer |-> bytes, up |-> TRUE, done |-> <<>>] ELSE TakePacket[f[k - 1]]]

\* The loop ends behind one of the messages.
LEMMA PacketsTaken ==
  ASSUME NEW s, NEW msgs, NEW h, NEW pos, Framed(s, msgs, h, pos), NEW b \in 0 .. Len(s)
  PROVE  \E j : TakenUpTo(TakePackets(SubSeq(s, 1, b)), s, b, msgs, h, pos, j)
  <1> DEFINE bytes == SubSeq(s, 1, b)
             n     == Len(bytes)
             start == [buffer |-> bytes, up |-> TRUE, done |-> <<>>]
             States == {v \in Loop : \E j : TakenUpTo(v, s, b, msgs, h, pos, j)}
             step  == [p \in (1 .. n) \X States |-> TakePacket[p[2]]]
             F     == CHOOSE f : IsLoop(f, bytes)
  <1>1. bytes \in Seq(Bytes) /\ n \in Nat
    <2>1. s \in Seq(Bytes) /\ 0 \in Nat /\ b \in Nat /\ 0 <= b /\ b <= Len(s) /\ 0 + 1 = 1
      BY DEF Framed
    <2>2. SubSeq(s, 0 + 1, b) \in Seq(Bytes)
      BY ONLY <2>1, PartOf
    <2>3. bytes \in Seq(Bytes)
      BY <2>1, <2>2
    <2> HIDE DEF bytes
    <2> QED BY <2>3
  <1>2. TakePackets(bytes) = F[n]
    BY DEF TakePackets, IsLoop
  <1>3. start \in States
    <2>1. start \in Loop
      BY <1>1 DEF Loop, Bytes
    <2>2. h \in h .. Len(msgs) /\ pos[h] = 0 /\ 0 <= b /\ 0 + 1 = 1
      BY DEF Framed
    <2>3. <<>> = SubSeq(msgs, h + 1, h)
      <3>1. msgs \in Seq(Entries \cup {Malformed}) /\ h \in Nat /\ h <= h /\ h <= Len(msgs) /\ h - h = 0
        BY DEF Framed
      <3>2. /\ SubSeq(msgs, h + 1, h) \in Seq(Entries \cup {Malformed}) /\ Len(SubSeq(msgs, h + 1, h)) = h - h
        BY <3>1, PartOf
      <3> QED BY <3>1, <3>2, EmptySeq
    <2>4. TakenUpTo(start, s, b, msgs, h, pos, h)
      <3>1. \A i \in h + 1 .. h : msgs[i] \in Entries
        BY DEF Framed
      <3> QED BY <2>1, <2>2, <2>3, <3>1 DEF TakenUpTo
    <2> QED BY <2>1, <2>4
  <1>4. \A v \in States : TakePacket[v] \in States
    <2> TAKE v \in States
    <2>1. PICK j : TakenUpTo(v, s, b, msgs, h, pos, j)
      OBVIOUS
    <2>2. PICK k : TakenUpTo(TakePacket[v], s, b, msgs, h, pos, k)
      BY <2>1, PacketTaken
    <2> QED BY <2>2 DEF TakenUpTo
  <1> HIDE DEF bytes, n, start, States
  <1>5. \A i \in 1 .. n, v \in States : step[<<i, v>>] = TakePacket[v] /\ step[<<i, v>>] \in States
    BY <1>4
  <1> HIDE DEF step
  <1>6. PICK w : RunsFrom(w, n, States, start, step)
    <2>1. StaysIn(n, States, step)
      BY <1>5 DEF StaysIn
    <2> QED BY <1>1, <1>3, <2>1, RecursionExists
  <1>7. IsLoop(w, bytes)
    <2>1. w \in [0 .. n -> States] /\ w[0] = start /\ \A i \in 1 .. n : w[i] = TakePacket[w[i - 1]]
      <3>1. \A i \in 1 .. n : i - 1 \in 0 .. n
        BY <1>1
      <3> QED BY <1>5, <1>6, <3>1 DEF RunsFrom
    <2>2. ASSUME NEW k \in 0 .. n PROVE w[k] = IF k = 0 THEN start ELSE TakePacket[w[k - 1]]
      <3>1. k = 0 \/ k \in 1 .. n
        BY <1>1
      <3> QED BY <2>1, <3>1
    <2> QED BY <2>1, <2>2 DEF IsLoop, n, start
  <1>8. IsLoop(F, bytes)
    BY <1>7
  <1> HIDE DEF F
  <1>9. \A k \in 0 .. n : F[k] = IF k = 0 THEN start ELSE TakePacket[F[k - 1]]
    BY <1>8 DEF IsLoop, n, start
  <1>10. F[n] \in States
    <2> DEFINE G == {i \in 0 .. n : F[i] \in States}
    <2>1. 0 \in G
      BY <1>1, <1>3, <1>9
    <2>2. ASSUME NEW i \in 0 .. n - 1, i \in G PROVE i + 1 \in G
      <3>1. i + 1 \in 0 .. n /\ (i + 1) - 1 = i /\ i + 1 # 0
        BY <1>1
      <3> QED BY <1>4, <1>9, <2>2, <3>1
    <2>3. 0 .. n \subseteq G
      <3> HIDE DEF G
      <3> QED BY <1>1, <2>1, <2>2, UpTo
    <2> QED BY <1>1, <2>3
  <1> QED BY <1>2, <1>10 DEF States, bytes

\* What was there stays where it was.
LEMMA PartOfJoined ==
  ASSUME NEW S, NEW s \in Seq(S), NEW q \in Seq(S), NEW a \in Nat, NEW b \in Nat, a <= b, b <= Len(s)
  PROVE  SubSeq(s \o q, a + 1, b) = SubSeq(s, a + 1, b)
  <1>1. PICK t : IsJoined(t, S, s, q)
    BY JoinedExists
  <1>2. SubSeq(t, 1, Len(s)) = s
    BY <1>1, BeginningOf DEF IsJoined
  <1>3. t \in Seq(S) /\ Len(s) \in Nat /\ 0 \in Nat /\ 0 <= Len(s) /\ Len(s) <= Len(t) /\ b <= Len(s) - 0
    <2>1. t \in Seq(S) /\ Len(t) = Len(s) + Len(q) /\ Len(s) \in Nat /\ Len(q) \in Nat
      BY <1>1 DEF IsJoined
    <2> QED BY <2>1
  <1>4. SubSeq(SubSeq(t, 0 + 1, Len(s)), a + 1, b) = SubSeq(t, (0 + a) + 1, 0 + b)
    BY <1>3, PartOfPart
  <1>5. 0 + 1 = 1 /\ 0 + a = a /\ 0 + b = b
    OBVIOUS
  <1> QED BY <1>1, <1>2, <1>4, <1>5 DEF IsJoined

\* Another packet is written behind them.
LEMMA FramedMore ==
  ASSUME NEW s, NEW msgs, NEW h, NEW pos, Framed(s, msgs, h, pos),
         NEW q \in Seq(Bytes), NEW m \in Entries \cup {Malformed}, IsPacket(q, Parsed(m))
  PROVE  \E p : Framed(s \o q, Append(msgs, m), h, p)
  <1>1. PICK t : IsJoined(t, Bytes, s, q)
    BY JoinedExists DEF Framed
  <1>2. PICK N : N = Len(msgs) /\ N \in Nat /\ h \in 0 .. N /\ h \in Nat
    <2>1. msgs \in Seq(Entries \cup {Malformed}) /\ h \in 0 .. Len(msgs)
      BY DEF Framed
    <2>2. Len(msgs) \in Nat
      BY ONLY <2>1
    <2>3. h \in Nat
      BY ONLY <2>1, <2>2
    <2> QED BY ONLY <2>1, <2>2, <2>3
  <1>3. PICK ms : /\ ms = Append(msgs, m) /\ ms \in Seq(Entries \cup {Malformed}) /\ Len(ms) = N + 1
                  /\ ms[N + 1] = m /\ \A i \in 1 .. N : ms[i] = msgs[i]
    <2>1. msgs \in Seq(Entries \cup {Malformed})
      BY DEF Framed
    <2> DEFINE x == Append(msgs, m)
    <2>2. x \in Seq(Entries \cup {Malformed}) /\ Len(x) = N + 1 /\ x[N + 1] = m /\ \A i \in 1 .. N : x[i] = msgs[i]
      BY <1>2, <2>1, AppendProperties
    <2> QED BY <2>2
  <1>4. s \in Seq(Bytes) /\ Len(s) \in Nat /\ Len(q) \in Nat /\ Len(t) = Len(s) + Len(q) /\ t \in Seq(Bytes)
    BY <1>1 DEF Framed, IsJoined
  <1>5. /\ pos \in [h .. N -> 0 .. Len(s)] /\ pos[h] = 0 /\ pos[N] = Len(s)
        /\ \A i \in h + 1 .. N :
             pos[i - 1] <= pos[i] /\ IsPacket(SubSeq(s, pos[i - 1] + 1, pos[i]), Parsed(msgs[i]))
    BY <1>2 DEF Framed
  <1>6. PICK p : p = [i \in h .. N + 1 |-> IF i = N + 1 THEN Len(t) ELSE pos[i]]
    OBVIOUS
  <1>7. p \in [h .. N + 1 -> 0 .. Len(t)] /\ p[N + 1] = Len(t) /\ \A i \in h .. N : p[i] = pos[i]
    <2>1. \A i \in h .. N + 1 : i = N + 1 \/ i \in h .. N
      BY <1>2
    <2>2. \A i \in h .. N : i # N + 1 /\ i \in h .. N + 1
      BY <1>2
    <2>3. N + 1 \in h .. N + 1 /\ Len(t) \in 0 .. Len(t) /\ \A i \in 0 .. Len(s) : i \in 0 .. Len(t)
      BY <1>2, <1>4
    <2> QED BY <1>5, <1>6, <2>1, <2>2, <2>3
  <1>8. p[h] = 0 /\ h \in 0 .. N + 1
    BY <1>2, <1>5, <1>7
  <1>9. ASSUME NEW i \in h + 1 .. N + 1
        PROVE  p[i - 1] <= p[i] /\ IsPacket(SubSeq(t, p[i - 1] + 1, p[i]), Parsed(ms[i]))
    <2>1. CASE i = N + 1
      <3>1. N \in h .. N /\ (N + 1) - 1 = N
        BY <1>2
      <3>2. p[i - 1] = Len(s) /\ p[i] = Len(s) + Len(q) /\ ms[i] = m
        BY <1>3, <1>4, <1>5, <1>7, <2>1, <3>1
      <3>3. SubSeq(s \o q, Len(s) + 1, Len(s) + Len(q)) = q
        BY <1>4, EndOf
      <3>4. SubSeq(t, Len(s) + 1, Len(s) + Len(q)) = q /\ Len(s) <= Len(s) + Len(q)
        BY <1>1, <1>4, <3>3 DEF IsJoined
      <3> QED BY <3>2, <3>4
    <2>2. CASE i # N + 1
      <3>1. i \in h + 1 .. N /\ i \in h .. N /\ i - 1 \in h .. N /\ i \in 1 .. N
        BY <1>2, <2>2
      <3>2. p[i - 1] = pos[i - 1] /\ p[i] = pos[i] /\ ms[i] = msgs[i] /\ pos[i - 1] <= pos[i]
            /\ pos[i - 1] \in Nat /\ pos[i] \in Nat /\ pos[i] <= Len(s)
            /\ IsPacket(SubSeq(s, pos[i - 1] + 1, pos[i]), Parsed(msgs[i]))
        <4>1. p[i - 1] = pos[i - 1] /\ p[i] = pos[i] /\ ms[i] = msgs[i]
          BY ONLY <1>3, <1>7, <3>1
        <4>2. pos[i - 1] \in 0 .. Len(s) /\ pos[i] \in 0 .. Len(s)
          BY ONLY <1>5, <3>1
        <4>3. pos[i - 1] \in Nat /\ pos[i] \in Nat /\ pos[i] <= Len(s)
          BY ONLY <1>4, <4>2
        <4> QED BY ONLY <1>5, <3>1, <4>1, <4>3
      <3>3. PICK a, b : a = pos[i - 1] /\ b = pos[i]
        OBVIOUS
      <3>4. SubSeq(s \o q, a + 1, b) = SubSeq(s, a + 1, b)
        BY <1>4, <3>2, <3>3, PartOfJoined, Zenon
      <3> QED BY <1>1, <3>2, <3>3, <3>4 DEF IsJoined
    <2> QED BY <2>1, <2>2
  <1>10. Framed(t, ms, h, p)
    BY <1>3, <1>4, <1>7, <1>8, <1>9 DEF Framed
  <1> QED BY <1>1, <1>3, <1>10 DEF IsJoined

\* Messages are taken from the front.
LEMMA FramedLess ==
  ASSUME NEW s, NEW msgs, NEW h, NEW pos, Framed(s, msgs, h, pos), NEW j \in h .. Len(msgs)
  PROVE  \E p : Framed(SubSeq(s, pos[j] + 1, Len(s)), msgs, j, p)
  <1>1. PICK N : N = Len(msgs) /\ N \in Nat /\ h \in 0 .. N /\ h \in Nat /\ j \in h .. N /\ j \in 0 .. N
    BY DEF Framed
  <1>2. PICK L : L = Len(s) /\ L \in Nat /\ s \in Seq(Bytes)
    BY DEF Framed
  <1>3. /\ pos \in [h .. N -> 0 .. L] /\ pos[h] = 0 /\ pos[N] = L
        /\ \A i \in h + 1 .. N :
             pos[i - 1] <= pos[i] /\ IsPacket(SubSeq(s, pos[i - 1] + 1, pos[i]), Parsed(msgs[i]))
    BY <1>1, <1>2 DEF Framed
  <1>4. PICK a : a = pos[j] /\ a \in 0 .. L /\ a \in Nat /\ a <= L
    BY <1>1, <1>2, <1>3
  <1>5. PICK t : IsPart(t, Bytes, s, a, L)
    BY <1>2, <1>4, PartExists
  <1>6. \A i \in j .. N : pos[i] \in a .. L
    <2> DEFINE G == {k \in 0 .. N - j : pos[j + k] \in a .. L}
    <2>1. 0 \in G /\ N - j \in Nat
      <3>1. N - j \in Nat /\ 0 \in 0 .. N - j /\ j + 0 = j /\ a \in a .. L
        BY <1>1, <1>2, <1>4
      <3> QED BY <1>4, <3>1
    <2>2. ASSUME NEW k \in 0 .. (N - j) - 1, k \in G PROVE k + 1 \in G
      <3>1. k + 1 \in 0 .. N - j /\ j + (k + 1) \in h + 1 .. N /\ j + (k + 1) \in h .. N /\ (j + (k + 1)) - 1 = j + k
        BY <1>1
      <3>2. pos[j + k] <= pos[j + (k + 1)] /\ pos[j + (k + 1)] \in 0 .. L /\ pos[j + k] \in a .. L
        <4>1. pos[(j + (k + 1)) - 1] <= pos[j + (k + 1)]
          BY ONLY <1>3, <3>1
        <4> QED BY <1>3, <2>2, <3>1, <4>1
      <3>3. pos[j + (k + 1)] \in a .. L
        BY ONLY <1>2, <1>4, <3>2
      <3> QED BY <3>1, <3>3
    <2>3. 0 .. N - j \subseteq G
      <3> HIDE DEF G
      <3> QED BY ONLY <2>1, <2>2, UpTo
    <2> TAKE i \in j .. N
    <2>4. i - j \in 0 .. N - j /\ j + (i - j) = i
      BY <1>1
    <2> QED BY <2>3, <2>4
  <1>7. PICK p : p = [i \in j .. N |-> pos[i] - a]
    OBVIOUS
  <1>8. p \in [j .. N -> 0 .. Len(t)] /\ \A i \in j .. N : p[i] = pos[i] - a
    <2>1. \A x \in a .. L : x - a \in 0 .. L - a
      BY <1>2, <1>4
    <2>2. Len(t) = L - a
      BY <1>5 DEF IsPart
    <2> QED BY ONLY <1>6, <1>7, <2>1, <2>2
  <1>9. p[j] = 0 /\ p[N] = Len(t)
    <2>1. j \in j .. N /\ N \in j .. N
      BY <1>1
    <2>2. Len(t) = L - a
      BY <1>5 DEF IsPart
    <2> QED BY ONLY <1>3, <1>4, <1>8, <2>1, <2>2
  <1>10. ASSUME NEW i \in j + 1 .. N
         PROVE  p[i - 1] <= p[i] /\ IsPacket(SubSeq(t, p[i - 1] + 1, p[i]), Parsed(msgs[i]))
    <2>1. i \in h + 1 .. N /\ i \in j .. N /\ i - 1 \in j .. N
      BY <1>1
    <2>2. PICK b, c : b = pos[i - 1] /\ c = pos[i] /\ b \in a .. L /\ c \in a .. L
      BY ONLY <1>6, <2>1
    <2>3. b <= c /\ IsPacket(SubSeq(s, b + 1, c), Parsed(msgs[i]))
      BY ONLY <1>3, <2>1, <2>2
    <2>4. p[i - 1] = b - a /\ p[i] = c - a
      BY ONLY <1>8, <2>1, <2>2
    <2>5. /\ b - a \in Nat /\ c - a \in Nat /\ b - a <= c - a /\ c - a <= L - a
          /\ a + (b - a) = b /\ a + (c - a) = c
      <3>1. L \in Nat /\ a \in Nat /\ b \in a .. L /\ c \in a .. L
        BY <1>2, <1>4, <2>2
      <3>2. b <= c
        BY <2>3
      <3> QED BY ONLY <3>1, <3>2
    <2>6. SubSeq(SubSeq(s, a + 1, L), (b - a) + 1, c - a) = SubSeq(s, (a + (b - a)) + 1, a + (c - a))
      <3>1. s \in Seq(Bytes) /\ a \in Nat /\ L \in Nat /\ a <= L /\ L <= Len(s)
        BY <1>2, <1>4
      <3>2. b - a \in Nat /\ c - a \in Nat /\ b - a <= c - a /\ c - a <= L - a
        BY <2>5
      <3>3. PICK m, n : m = b - a /\ n = c - a
        OBVIOUS
      <3>4. m \in Nat /\ n \in Nat /\ m <= n /\ n <= L - a
        BY ONLY <3>2, <3>3
      <3>5. SubSeq(SubSeq(s, a + 1, L), m + 1, n) = SubSeq(s, (a + m) + 1, a + n)
        BY <3>1, <3>4, PartOfPart
      <3> QED BY ONLY <3>3, <3>5
    <2>7. SubSeq(t, (b - a) + 1, c - a) = SubSeq(s, b + 1, c)
      BY <1>5, <2>5, <2>6 DEF IsPart
    <2> QED BY ONLY <2>3, <2>4, <2>5, <2>7
  <1>11. Framed(t, msgs, j, p)
    <2>1. t \in Seq(Bytes) /\ msgs \in Seq(Entries \cup {Malformed})
      BY <1>5 DEF Framed, IsPart
    <2> QED BY <1>1, <1>8, <1>9, <1>10, <2>1 DEF Framed
  <1> QED BY <1>2, <1>4, <1>5, <1>11 DEF IsPart

\* What a read moves into the buffer.
LEMMA BytesRead ==
  ASSUME NEW S, NEW r \in Seq(S), NEW w \in Seq(S), NEW n \in 0 .. Len(w)
  PROVE  /\ Len(r) + n \in 0 .. Len(r \o w)
         /\ r \o SubSeq(w, 1, n) = SubSeq(r \o w, 1, Len(r) + n)
         /\ \A a \in 0 .. Len(r) + n :
              SubSeq(r \o w, a + 1, Len(r) + n) \o SubSeq(w, n + 1, Len(w)) = SubSeq(r \o w, a + 1, Len(r \o w))
  <1>1. PICK s : IsJoined(s, S, r, w)
    BY JoinedExists
  <1>2. PICK k : k = Len(r) /\ k \in Nat
    OBVIOUS
  <1>3. PICK l : l = Len(w) /\ l \in Nat /\ n \in 0 .. l /\ n \in Nat
    OBVIOUS
  <1>4. s = r \o w /\ s \in Seq(S) /\ Len(s) = k + l
    BY <1>1, <1>2, <1>3 DEF IsJoined
  <1>5. SubSeq(s, 0 + 1, k) = r
    <2>1. SubSeq(r \o w, 1, Len(r)) = r
      BY BeginningOf
    <2> QED BY <1>2, <1>4, <2>1
  <1>6. SubSeq(s, k + 1, k + l) = w
    <2>1. SubSeq(r \o w, Len(r) + 1, Len(r) + Len(w)) = w
      BY EndOf
    <2> QED BY ONLY <1>2, <1>3, <1>4, <2>1
  <1>7. ASSUME NEW x \in 0 .. l, NEW y \in x .. l
        PROVE  SubSeq(w, x + 1, y) = SubSeq(s, (k + x) + 1, k + y)
    <2>1. /\ x \in Nat /\ y \in Nat /\ x <= y /\ k <= k + l /\ k + l \in Nat /\ k + l <= Len(s)
          /\ (k + l) - k = l /\ y <= l
      BY <1>2, <1>3, <1>4
    <2>2. PICK e : e = k + l /\ e - k = l
      BY <2>1
    <2>3. e \in Nat /\ k <= e /\ e <= Len(s) /\ y <= e - k
      BY ONLY <2>1, <2>2
    <2>4. SubSeq(SubSeq(s, k + 1, e), x + 1, y) = SubSeq(s, (k + x) + 1, k + y)
      <3>1. /\ s \in Seq(S) /\ k \in Nat /\ e \in Nat /\ k <= e /\ e <= Len(s)
            /\ x \in Nat /\ y \in Nat /\ x <= y /\ y <= e - k
        BY ONLY <1>2, <1>4, <2>1, <2>3
      <3> QED BY ONLY <3>1, PartOfPart
    <2> QED BY ONLY <1>6, <2>2, <2>4
  <1>8. PICK b : b = k + n /\ b \in Nat /\ k <= b /\ b <= Len(s)
    BY <1>2, <1>3, <1>4
  <1>9. r \o SubSeq(w, 1, n) = SubSeq(s, 1, b)
    <2>1. SubSeq(w, 0 + 1, n) = SubSeq(s, (k + 0) + 1, k + n)
      <3>1. 0 \in 0 .. l /\ n \in 0 .. l
        BY <1>3
      <3> QED BY <1>7, <3>1
    <2>2. k + 0 = k /\ 0 + 1 = 1
      BY <1>2
    <2>3. SubSeq(w, 1, n) = SubSeq(s, k + 1, b)
      BY ONLY <1>8, <2>1, <2>2
    <2>4. SubSeq(s, 0 + 1, k) \o SubSeq(s, k + 1, b) = SubSeq(s, 0 + 1, b)
      <3>1. 0 \in Nat /\ 0 <= k
        BY <1>2
      <3> QED BY <1>2, <1>4, <1>8, <3>1, PartsJoined, Zenon
    <2> QED BY ONLY <1>5, <2>2, <2>3, <2>4
  <1>10. ASSUME NEW a \in 0 .. b
         PROVE  SubSeq(s, a + 1, b) \o SubSeq(w, n + 1, l) = SubSeq(s, a + 1, Len(s))
    <2>1. SubSeq(w, n + 1, l) = SubSeq(s, (k + n) + 1, k + l)
      <3>1. l \in n .. l
        BY <1>3
      <3> QED BY <1>3, <1>7, <3>1
    <2>2. PICK e : e = Len(s) /\ e \in Nat /\ b <= e
      BY <1>2, <1>3, <1>4, <1>8
    <2>3. SubSeq(s, a + 1, b) \o SubSeq(s, b + 1, e) = SubSeq(s, a + 1, e)
      <3>1. a \in Nat /\ a <= b /\ e <= Len(s)
        BY <1>8, <2>2
      <3> QED BY <1>4, <1>8, <2>2, <3>1, PartsJoined, Zenon
    <2> QED BY ONLY <1>4, <1>8, <2>1, <2>2, <2>3
  <1>11. k + n \in 0 .. Len(s)
    BY <1>2, <1>3, <1>4
  <1> QED BY ONLY <1>2, <1>3, <1>4, <1>8, <1>9, <1>10, <1>11

-----------------------------------------------------------------------------
(* The refinement *)

\* What is in the buffer and under way are the messages not yet handled.
IsUnderWay(s, msgs, h) == \E pos : Framed(s, msgs, h, pos)

PacketInv ==
  /\ wire \in Seq(Bytes) /\ m_recvBuffer \in Seq(Bytes) /\ socket \in {"open", "closing", "closed"}
  /\ sent \in Seq(Entries \cup {Malformed})
  /\ \E h \in 0 .. Len(sent) :
       /\ handled = SubSeq(sent, 1, h)
       /\ \A i \in 1 .. h : sent[i] \in Entries
       /\ IsUnderWay(m_recvBuffer \o wire, sent, h)
       /\ socket # "open" => h < Len(sent) /\ sent[h + 1] = Malformed

LEMMA PacketInvInit == PacketInit => PacketInv /\ Delivery!DeliveryInit
  <1> SUFFICES ASSUME PacketInit PROVE PacketInv /\ Delivery!DeliveryInit
    OBVIOUS
  <1> USE DEF PacketInit
  <1>1. Delivery!DeliveryInit
    BY DEF Delivery!DeliveryInit
  <1>2. \A S : <<>> \in Seq(S) /\ Len(<<>>) = 0 /\ <<>> \o <<>> = <<>>
    BY EmptySeq, ConcatEmptySeq
  <1>3. PICK pos : pos = [i \in 0 .. 0 |-> 0]
    OBVIOUS
  <1>4. Framed(<<>>, <<>>, 0, pos)
    <2>1. pos \in [0 .. 0 -> 0 .. 0] /\ pos[0] = 0 /\ 0 \in 0 .. 0 /\ \A i \in 0 + 1 .. 0 : FALSE
      BY <1>3
    <2>2. <<>> \in Seq(Bytes) /\ <<>> \in Seq(Entries \cup {Malformed}) /\ Len(<<>>) = 0
      BY <1>2
    <2> QED BY ONLY <2>1, <2>2 DEF Framed
  <1>5. IsUnderWay(m_recvBuffer \o wire, sent, 0)
    BY <1>2, <1>4 DEF IsUnderWay
  <1>6. 0 \in 0 .. Len(sent) /\ handled = SubSeq(sent, 1, 0) /\ \A i \in 1 .. 0 : sent[i] \in Entries
    <2>1. SubSeq(<<>>, 1, 0) = <<>>
      OBVIOUS
    <2> QED BY <1>2, <2>1
  <1> QED BY <1>1, <1>2, <1>5, <1>6 DEF PacketInv

\* A message is written behind the others.
LEMMA Submitted ==
  ASSUME PacketInv, NEW q \in Seq(Bytes), NEW m \in Entries \cup {Malformed}, IsPacket(q, Parsed(m)),
         wire' = wire \o q, sent' = Append(sent, m), UNCHANGED <<m_recvBuffer, socket, handled>>
  PROVE  PacketInv' /\ Delivery!Submit(m)
  <1>1. PICK h \in 0 .. Len(sent) :
          /\ handled = SubSeq(sent, 1, h)
          /\ \A i \in 1 .. h : sent[i] \in Entries
          /\ IsUnderWay(m_recvBuffer \o wire, sent, h)
          /\ socket # "open" => h < Len(sent) /\ sent[h + 1] = Malformed
    BY DEF PacketInv
  <1>2. PICK pos : Framed(m_recvBuffer \o wire, sent, h, pos)
    BY <1>1 DEF IsUnderWay
  <1>3. PICK p : Framed((m_recvBuffer \o wire) \o q, Append(sent, m), h, p)
    BY <1>2, FramedMore
  <1>4. Associated(m_recvBuffer, wire, q) /\ wire \o q \in Seq(Bytes)
    <2>1. m_recvBuffer \in Seq(Bytes) /\ wire \in Seq(Bytes)
      BY DEF PacketInv
    <2> QED BY <2>1, Reassociated, LengthJoined
  <1>5. IsUnderWay(m_recvBuffer' \o wire', sent', h)
    BY <1>3, <1>4 DEF IsUnderWay, Associated
  <1>6. /\ sent \in Seq(Entries \cup {Malformed}) /\ Len(sent) \in Nat /\ h \in Nat /\ h <= Len(sent)
        /\ sent' \in Seq(Entries \cup {Malformed}) /\ Len(sent') = Len(sent) + 1
        /\ \A i \in 1 .. Len(sent) : sent'[i] = sent[i]
    <2>1. sent \in Seq(Entries \cup {Malformed})
      BY DEF PacketInv
    <2> QED BY <1>1, <2>1, AppendProperties
  <1>7. SubSeq(sent', 1, h) = SubSeq(sent, 1, h)
    <2>1. sent' = sent \o <<m>> /\ <<m>> \in Seq(Entries \cup {Malformed})
      BY <1>6, AppendIsConcat
    <2>2. SubSeq(sent \o <<m>>, 0 + 1, h) = SubSeq(sent, 0 + 1, h)
      <3>1. 0 \in Nat /\ 0 <= h
        BY <1>6
      <3> QED BY <1>6, <2>1, <3>1, PartOfJoined
    <2> QED BY <2>1, <2>2
  <1>8. h \in 0 .. Len(sent') /\ \A i \in 1 .. h : sent'[i] \in Entries
    BY <1>1, <1>6
  <1>9. socket' # "open" => h < Len(sent') /\ sent'[h + 1] = Malformed
    BY <1>1, <1>6
  <1>10. PacketInv'
    BY <1>1, <1>4, <1>5, <1>6, <1>7, <1>8, <1>9 DEF PacketInv
  <1>11. Delivery!Submit(m)
    BY DEF Delivery!Submit
  <1> QED BY <1>10, <1>11

LEMMA Sent ==
  ASSUME PacketInv, NEW entry \in Entries, SendClicked(entry)
  PROVE  PacketInv' /\ Delivery!Submit(entry)
  <1>1. IsData(entry)
    <2>1. entry \in UserData /\ entry.userId \div 65536 <= 65535
      BY PacketsAssumption
    <2>2. Serialize(entry) # <<>>
      BY DEF SendClicked, Accepts
    <2>3. ~(Len(entry.name) > MAX_NAME_LEN \/ Len(entry.email) > MAX_EMAIL_LEN)
      BY <2>2 DEF Serialize
    <2>4. Len(entry.name) \in Nat /\ Len(entry.email) \in Nat /\ MAX_NAME_LEN \in Nat /\ MAX_EMAIL_LEN \in Nat
      BY <2>1, LengthsAssumption DEF UserData
    <2>5. Len(entry.name) <= MAX_NAME_LEN /\ Len(entry.email) <= MAX_EMAIL_LEN
      BY <2>3, <2>4
    <2> QED BY <2>1, <2>5 DEF IsData, UserData, Bytes
  <1>2. IsPacket(Serialize(entry), <<entry>>)
    BY <1>1, SerializedPacket
  <1>3. Parsed(entry) = <<entry>>
    BY PacketsAssumption DEF Parsed
  <1>4. Serialize(entry) \in Seq(Bytes)
    BY <1>2 DEF IsPacket
  <1>5. /\ wire' = wire \o Serialize(entry) /\ sent' = Append(sent, entry)
        /\ UNCHANGED <<m_recvBuffer, socket, handled>>
    BY DEF SendClicked
  <1> QED BY <1>2, <1>3, <1>4, <1>5, Submitted

LEMMA OtherSent ==
  ASSUME PacketInv, NEW packet \in Garbled, OtherClientSends(packet)
  PROVE  PacketInv' /\ Delivery!Submit(Malformed)
  <1>1. IsPacket(packet, <<>>) /\ packet \in Seq(Bytes)
    BY PacketsAssumption DEF IsPacket, Bytes
  <1>2. Parsed(Malformed) = <<>>
    BY DEF Parsed
  <1>3. /\ wire' = wire \o packet /\ sent' = Append(sent, Malformed)
        /\ UNCHANGED <<m_recvBuffer, socket, handled>>
    BY DEF OtherClientSends
  <1> QED BY <1>1, <1>2, <1>3, Submitted

\* A read handles the next messages, refuses a malformed one behind them, or neither.
LEMMA Read ==
  ASSUME PacketInv, NEW n \in 1 .. Len(wire), ReadyRead(n)
  PROVE  /\ PacketInv'
         /\ \/ \E k \in 0 .. Len(sent) : Delivery!Handle(k) \/ Delivery!Reject(k)
            \/ UNCHANGED <<sent, handled, socket = "open">>
  <1>1. PICK h \in 0 .. Len(sent) :
          /\ handled = SubSeq(sent, 1, h)
          /\ \A i \in 1 .. h : sent[i] \in Entries
          /\ IsUnderWay(m_recvBuffer \o wire, sent, h)
          /\ socket # "open" => h < Len(sent) /\ sent[h + 1] = Malformed
    BY DEF PacketInv
  <1>2. PICK s : s = m_recvBuffer \o wire
    OBVIOUS
  <1>3. PICK pos : Framed(s, sent, h, pos)
    BY <1>1, <1>2 DEF IsUnderWay
  <1>4. PICK b : b = Len(m_recvBuffer) + n
    OBVIOUS
  <1>5. /\ wire \in Seq(Bytes) /\ m_recvBuffer \in Seq(Bytes) /\ sent \in Seq(Entries \cup {Malformed})
        /\ n \in 0 .. Len(wire) /\ Len(sent) \in Nat
    BY DEF PacketInv
  <1>6. /\ b \in 0 .. Len(s)
        /\ m_recvBuffer \o SubSeq(wire, 1, n) = SubSeq(s, 1, b)
        /\ \A a \in 0 .. b : SubSeq(s, a + 1, b) \o SubSeq(wire, n + 1, Len(wire)) = SubSeq(s, a + 1, Len(s))
    BY <1>2, <1>4, <1>5, BytesRead
  <1>7. PICK v : v = TakePackets(m_recvBuffer \o SubSeq(wire, 1, n))
    OBVIOUS
  <1>8. PICK j : TakenUpTo(v, s, b, sent, h, pos, j)
    BY <1>3, <1>6, <1>7, PacketsTaken
  <1>9. /\ wire' = SubSeq(wire, n + 1, Len(wire)) /\ m_recvBuffer' = v.buffer /\ handled' = handled \o v.done
        /\ socket' = (IF v.up THEN socket ELSE "closing") /\ socket # "closed" /\ sent' = sent
    BY <1>7 DEF ReadyRead
  <1>10. /\ j \in h .. Len(sent) /\ pos[j] \in 0 .. b /\ v \in Loop
         /\ v.buffer = SubSeq(s, pos[j] + 1, b) /\ v.done = SubSeq(sent, h + 1, j)
         /\ \A i \in h + 1 .. j : sent[i] \in Entries
         /\ v.up \/ (j < Len(sent) /\ sent[j + 1] = Malformed)
    <2>1. pos[j] \in 0 .. Len(s)
      BY <1>3, <1>8 DEF Framed, TakenUpTo
    <2>2. pos[j] <= b /\ Len(s) \in Nat
      BY <1>3, <1>8 DEF Framed, TakenUpTo
    <2>3. pos[j] \in 0 .. b
      BY <1>6, <2>1, <2>2
    <2> QED BY <1>8, <2>3 DEF TakenUpTo
  <1>11. h \in Nat /\ j \in Nat /\ h <= j /\ j <= Len(sent) /\ j \in 0 .. Len(sent)
    BY <1>5, <1>10
  <1>12. handled' = SubSeq(sent, 1, j)
    <2>1. SubSeq(sent, 0 + 1, h) \o SubSeq(sent, h + 1, j) = SubSeq(sent, 0 + 1, j)
      <3>1. 0 \in Nat /\ 0 <= h
        BY <1>11
      <3> QED BY <1>5, <1>11, <3>1, PartsJoined
    <2>2. handled' = SubSeq(sent, 1, h) \o SubSeq(sent, h + 1, j)
      BY ONLY <1>1, <1>9, <1>10
    <2>3. 0 + 1 = 1
      OBVIOUS
    <2> QED BY ONLY <2>1, <2>2, <2>3
  <1>13. \A i \in 1 .. j : sent[i] \in Entries
    <2>1. \A i \in 1 .. j : i \in 1 .. h \/ i \in h + 1 .. j
      BY <1>11
    <2> QED BY <1>1, <1>10, <2>1
  <1>14. IsUnderWay(m_recvBuffer' \o wire', sent', j)
    <2>1. m_recvBuffer' \o wire' = SubSeq(s, pos[j] + 1, Len(s))
      BY <1>6, <1>9, <1>10
    <2>2. PICK p : Framed(SubSeq(s, pos[j] + 1, Len(s)), sent, j, p)
      BY <1>3, <1>10, FramedLess
    <2> QED BY <1>9, <2>1, <2>2 DEF IsUnderWay
  <1>15. socket # "open" => j = h
    <2>1. ASSUME socket # "open", j # h PROVE FALSE
      <3>1. h + 1 \in h + 1 .. j
        BY <1>11, <2>1
      <3>2. sent[h + 1] \in Entries /\ sent[h + 1] = Malformed
        BY <1>1, <1>10, <2>1, <3>1
      <3> QED BY <3>2, PacketsAssumption
    <2> QED BY <2>1
  <1>16. socket' # "open" => j < Len(sent) /\ sent[j + 1] = Malformed
    <2>1. CASE v.up
      BY <1>1, <1>9, <1>15, <2>1
    <2>2. CASE ~v.up
      BY <1>10, <2>2
    <2> QED BY <2>1, <2>2
  <1>17. PacketInv'
    <2>1. wire' \in Seq(Bytes)
      <3>1. n \in Nat /\ Len(wire) \in Nat /\ n <= Len(wire)
        BY <1>5
      <3> QED BY <1>5, <1>9, <3>1, PartOf
    <2>2. m_recvBuffer' \in Seq(Bytes) /\ socket' \in {"open", "closing", "closed"}
      BY <1>9, <1>10 DEF Loop, PacketInv, Bytes
    <2> QED BY <1>5, <1>9, <1>11, <1>12, <1>13, <1>14, <1>16, <2>1, <2>2 DEF PacketInv
  <1>18. CASE socket # "open"
    <2>1. handled' = handled
      BY <1>1, <1>12, <1>15, <1>18
    <2>2. socket' # "open"
      BY <1>9, <1>18
    <2> QED BY <1>9, <1>17, <1>18, <2>1, <2>2
  <1>19. CASE socket = "open" /\ v.up /\ j = h
    BY <1>1, <1>9, <1>12, <1>17, <1>19
  <1>20. Len(handled) = h
    BY <1>1, <1>5, <1>11
  <1>21. CASE socket = "open" /\ v.up /\ j # h
    <2>1. j \in Len(handled) + 1 .. Len(sent)
      BY <1>5, <1>11, <1>20, <1>21
    <2>2. Delivery!Handle(j)
      BY <1>9, <1>12, <1>13, <1>21, <2>1 DEF Delivery!Handle
    <2> QED BY <1>11, <1>17, <2>2
  <1>22. CASE socket = "open" /\ ~v.up
    <2>1. j < Len(sent) /\ sent[j + 1] = Malformed
      BY <1>10, <1>22
    <2>2. j \in Len(handled) .. Len(sent) - 1
      BY <1>5, <1>11, <1>20, <2>1
    <2>3. Delivery!Reject(j)
      BY <1>9, <1>12, <1>13, <1>22, <2>1, <2>2 DEF Delivery!Reject
    <2> QED BY <1>11, <1>17, <2>3
  <1> QED BY <1>18, <1>19, <1>21, <1>22

\* DeliversPackets but for its fairness.
KeepsPackets == Delivery!DeliveryInit /\ [][Delivery!DeliveryNext]_<<sent, handled, socket = "open">>

\* Each step handles the next messages, refuses a malformed one, or does neither: without its
\* fairness, PacketDelivery is implemented for all entries and garbled packets, all
\* lengths a packet can hold, and reads of any number of bytes (ClientHandler::onReadyRead).
THEOREM PacketsAreKept == PacketSpec => KeepsPackets
  <1> DEFINE v == <<sent, handled, socket = "open">>
  <1>1. PacketInit => PacketInv /\ Delivery!DeliveryInit
    BY PacketInvInit
  <1>2. PacketInv /\ [PacketNext]_packetVars => PacketInv' /\ [Delivery!DeliveryNext]_v
    <2> SUFFICES ASSUME PacketInv, [PacketNext]_packetVars
                 PROVE  PacketInv' /\ (Delivery!DeliveryNext \/ UNCHANGED v)
      OBVIOUS
    <2>1. ASSUME NEW entry \in Entries, SendClicked(entry)
          PROVE  PacketInv' /\ Delivery!DeliveryNext
      BY <2>1, Sent DEF Delivery!DeliveryNext
    <2>2. ASSUME NEW packet \in Garbled, OtherClientSends(packet)
          PROVE  PacketInv' /\ Delivery!DeliveryNext
      BY <2>2, OtherSent DEF Delivery!DeliveryNext
    <2>3. ASSUME NEW n \in 1 .. Len(wire), ReadyRead(n)
          PROVE  PacketInv' /\ (Delivery!DeliveryNext \/ UNCHANGED v)
      BY <2>3, Read DEF Delivery!DeliveryNext
    <2>4. ASSUME UNCHANGED <<wire, m_recvBuffer, socket, sent, handled>>
          PROVE  PacketInv' /\ UNCHANGED v
      BY <2>4 DEF PacketInv
    <2>5. ASSUME NEW n \in 1 .. Len(replies), ReplyRead(n)
          PROVE  UNCHANGED <<wire, m_recvBuffer, socket, sent, handled>>
      BY <2>5 DEF ReplyRead
    <2>6. ASSUME Disconnected
          PROVE  PacketInv' /\ UNCHANGED v
      BY <2>6 DEF Disconnected, PacketInv
    <2>7. CASE UNCHANGED packetVars
      BY <2>4, <2>7 DEF packetVars
    <2> QED BY <2>1, <2>2, <2>3, <2>4, <2>5, <2>6, <2>7 DEF PacketNext
  <1> QED BY <1>1, <1>2, PTL DEF PacketSpec, KeepsPackets
================================================================================
