------------------------------ MODULE MCPrograms ------------------------------
(***************************************************************************)
(* Small inputs for the programs.                                          *)
(***************************************************************************)
EXTENDS Programs

\* The window takes the first two; an id of 0, an email that is none and a name that is too long
\* are refused.
TypedEntries ==
  {[userId |-> 7, name |-> <<97>>, email |-> <<97, 64, 98>>],
   [userId |-> 258, name |-> <<98, 99>>, email |-> <<97, 64, 98>>],
   [userId |-> 0, name |-> <<97>>, email |-> <<97, 64, 98>>],
   [userId |-> 7, name |-> <<97>>, email |-> <<97, 98>>],
   [userId |-> 7, name |-> <<97, 97, 97>>, email |-> <<97, 64, 98>>]}

\* One byte follows the email.
GarbledPackets == {<<0, 0, 0, 10, 0, 0, 0, 7, 0, 1, 97, 0, 0, 0>>}

\* The pictures have different sizes.
PiecesOf == "sunset" :> 3 @@ "portrait" :> 2
RestOf   == "sunset" :> 256 @@ "portrait" :> 512

LowerCase == "a" :> "a" @@ "A" :> "a" @@ "b" :> "b"

\* An empty file, and one with marks, dashes of every kind and the same word in two lines.
Texts == {<<>>,
          << <<"a">>, <<"-", "b", "-", ")", "A">>, <<"A">>, <<"A", "-", "-", "b", "-">> >>}

\* Pixels that are dark, bright, and the brightest in one of the channels.
SmallImages == [Pixels -> {0 :> 0 @@ 1 :> 1, 0 :> 1 @@ 1 :> MAX_VALUE, 0 :> MAX_VALUE @@ 1 :> 0}]

\* Zeros, or one element that is none.
SmallMemory ==
  {[ch \in Channels |-> [i \in Bins |-> IF ch = 1 /\ i = 1 THEN n ELSE 0]] : n \in {0, 1}}

Vectors == {-3, -1, 0, 1, 2, 3}

\* The last one wraps with any two others that are not small.
Words == {0, 1, 2, 3, 14}
===============================================================================
