---------------------------- MODULE SelectionProofs ----------------------------
(***************************************************************************)
(* What the other proofs need where something is defined by recursion on a *)
(* number: induction over the natural numbers, stated of sets, and what is *)
(* known of the elements that are chosen from a sequence.                  *)
(***************************************************************************)
EXTENDS Selection, Integers, NaturalsInduction, WellFoundedInduction, TLAPS

\* A non-empty set of natural numbers has a least element.
LEMMA LeastElement ==
  ASSUME NEW T, T \subseteq Nat, T # {}
  PROVE  \E n \in T : \A m \in T : n <= m
  <1>1. PICK x \in T : \A y \in T : ~ (<<y, x>> \in OpToRel(<, Nat))
    BY WFMin, NatLessThanWellFounded
  <1>2. ASSUME NEW y \in T, y < x PROVE FALSE
    <2>1. <<y, x>> \in OpToRel(<, Nat)
      BY <1>2 DEF OpToRel
    <2> QED
      BY <1>1, <2>1
  <1>3. \A y \in T : x <= y
    BY <1>2
  <1> QED
    BY <1>3

\* A set that contains 0, and with every number below n the next one, contains all up to n.
LEMMA UpTo ==
  ASSUME NEW n \in Nat, NEW T, 0 \in T, \A i \in 0 .. n - 1 : i \in T => i + 1 \in T
  PROVE  0 .. n \subseteq T
  <1> DEFINE Left == {i \in 0 .. n : i \notin T}
  <1>1. CASE Left # {}
    <2>1. PICK i \in Left : \A m \in Left : i <= m
      <3>1. Left \subseteq Nat
        OBVIOUS
      <3> HIDE DEF Left
      <3> QED
        BY <1>1, <3>1, LeastElement
    <2>2. i # 0 /\ i - 1 \in 0 .. n - 1
      BY <2>1
    <2>3. i - 1 \in T
      BY <2>1, <2>2
    <2> QED
      BY <2>1, <2>2, <2>3
  <1>2. CASE Left = {}
    BY <1>2
  <1> QED
    BY <1>1, <1>2

\* A function that is defined at 0, and after each number by what it is there.
RunsFrom(w, n, S, start, step) ==
  w \in [0 .. n -> S] /\ w[0] = start /\ \A i \in 1 .. n : w[i] = step[<<i, w[i - 1]>>]

StaysIn(n, S, step) == \A i \in 1 .. n, v \in S : step[<<i, v>>] \in S

LEMMA RecursionExists ==
  ASSUME NEW n \in Nat, NEW S, NEW start \in S, NEW step, StaysIn(n, S, step)
  PROVE  \E w : RunsFrom(w, n, S, start, step)
  <1> USE DEF StaysIn
  <1> DEFINE Runs(w, m) == w \in [0 .. m -> S] /\ w[0] = start /\ \A i \in 1 .. m : w[i] = step[<<i, w[i - 1]>>]
             Ends == {m \in 0 .. n : \E w : Runs(w, m)}
  <1>1. 0 \in Ends
    <2> DEFINE w == [i \in 0 .. 0 |-> start]
    <2>1. Runs(w, 0)
      OBVIOUS
    <2> HIDE DEF w, Runs
    <2> QED BY <2>1
  <1>2. ASSUME NEW m \in 0 .. n - 1, m \in Ends PROVE m + 1 \in Ends
    <2>1. PICK w : Runs(w, m)
      BY <1>2
    <2> DEFINE last == step[<<m + 1, w[m]>>]
               more == [i \in 0 .. m + 1 |-> IF i <= m THEN w[i] ELSE last]
    <2>2. last \in S
      <3>1. w[m] \in S /\ m + 1 \in 1 .. n
        BY <2>1
      <3> QED BY <3>1
    <2>3. ASSUME NEW i \in 1 .. m + 1 PROVE more[i] = step[<<i, more[i - 1]>>]
      <3>1. CASE i <= m
        <4>1. more[i] = w[i] /\ more[i - 1] = w[i - 1] /\ i \in 1 .. m
          BY <3>1
        <4> HIDE DEF more
        <4> QED BY <2>1, <4>1
      <3>2. CASE i = m + 1
        <4>1. more[i] = last /\ more[i - 1] = w[m]
          BY <3>2
        <4> HIDE DEF more
        <4> QED BY <3>2, <4>1
      <3> QED BY <3>1, <3>2
    <2>4. more \in [0 .. m + 1 -> S] /\ more[0] = start
      <3> HIDE DEF last
      <3> QED BY <2>1, <2>2
    <2> HIDE DEF more
    <2>5. Runs(more, m + 1) /\ m + 1 \in 0 .. n
      BY <2>3, <2>4
    <2> HIDE DEF Runs
    <2> QED BY <2>5
  <1>3. 0 .. n \subseteq Ends
    <2> HIDE DEF Ends
    <2> QED BY <1>1, <1>2, UpTo
  <1> QED
    BY <1>3 DEF RunsFrom

-----------------------------------------------------------------------------
\* What chooses the elements is a strictly increasing function onto the positions in T.
Chooses(f, s, T, kept) ==
  /\ f \in [1 .. Len(kept) -> {i \in 1 .. Len(s) : i \in T}]
  /\ \A j \in 1 .. Len(kept) : kept[j] = s[f[j]]
  /\ \A i, j \in 1 .. Len(kept) : i < j => f[i] < f[j]
  /\ \A i \in 1 .. Len(s) : i \in T => \E j \in 1 .. Len(kept) : f[j] = i

\* What is kept of the first i elements.
IsKept(kept, s, T, n) ==
  kept = [i \in 0 .. n |-> IF i = 0 THEN <<>> ELSE
                            IF i \in T THEN Append(kept[i - 1], s[i]) ELSE kept[i - 1]]

\* There is such a function: one that ends at m is continued to m + 1.
LEMMA KeptExists ==
  ASSUME NEW s, NEW T, NEW n \in Nat
  PROVE  \E kept : IsKept(kept, s, T, n)
  <1> DEFINE Ends == {m \in 0 .. n : \E kept : IsKept(kept, s, T, m)}
  <1>1. 0 \in Ends
    <2> DEFINE kept == [i \in 0 .. 0 |-> <<>>]
    <2>1. \A i \in 0 .. 0 : i = 0
      OBVIOUS
    <2>2. IsKept(kept, s, T, 0)
      BY <2>1 DEF IsKept
    <2> HIDE DEF kept
    <2> QED BY <2>2
  <1>2. ASSUME NEW m \in 0 .. n - 1, m \in Ends PROVE m + 1 \in Ends
    <2>1. PICK kept : IsKept(kept, s, T, m)
      BY <1>2
    <2> DEFINE last == IF m + 1 \in T THEN Append(kept[m], s[m + 1]) ELSE kept[m]
               more == [i \in 0 .. m + 1 |-> IF i <= m THEN kept[i] ELSE last]
    <2> HIDE DEF last
    <2>2. ASSUME NEW i \in 0 .. m + 1
          PROVE  more[i] = IF i = 0 THEN <<>> ELSE
                           IF i \in T THEN Append(more[i - 1], s[i]) ELSE more[i - 1]
      <3>1. CASE i = 0
        BY <2>1, <3>1 DEF IsKept
      <3>2. CASE i \in 1 .. m
        <4>1. i \in 0 .. m /\ i - 1 \in 0 .. m /\ i - 1 \in 0 .. m + 1 /\ i <= m /\ i - 1 <= m /\ i # 0
          BY <3>2
        <4>2. more[i] = kept[i] /\ more[i - 1] = kept[i - 1]
          BY <4>1
        <4>3. kept[i] = IF i \in T THEN Append(kept[i - 1], s[i]) ELSE kept[i - 1]
          BY <2>1, <4>1 DEF IsKept
        <4> HIDE DEF more
        <4> QED BY <4>1, <4>2, <4>3
      <3>3. CASE i = m + 1
        <4>1. more[i] = last /\ more[i - 1] = kept[m] /\ i # 0
          BY <3>3
        <4> HIDE DEF more
        <4> QED BY <3>3, <4>1 DEF last
      <3> QED BY <3>1, <3>2, <3>3
    <2>3. IsKept(more, s, T, m + 1)
      BY <2>2 DEF IsKept
    <2> HIDE DEF more
    <2> QED BY <2>3
  <1>3. 0 .. n \subseteq Ends
    <2> HIDE DEF Ends
    <2> QED BY <1>1, <1>2, UpTo
  <1> QED
    BY <1>3

\* The chosen elements are a sequence of elements of s in the order they have there, and each that
\* is to be chosen is among them.
LEMMA SelectedInOrder ==
  ASSUME NEW S, NEW s \in Seq(S), NEW T
  PROVE  /\ Selected(s, T) \in Seq(S)
         /\ \E f : Chooses(f, s, T, Selected(s, T))
  <1> DEFINE n == Len(s)
  <1>0. n \in Nat
    OBVIOUS
  <1>1. PICK kept : IsKept(kept, s, T, n) /\ Selected(s, T) = kept[n]
    <2> DEFINE F == CHOOSE F : IsKept(F, s, T, n)
    <2>1. IsKept(F, s, T, n)
      <3> HIDE DEF F
      <3>1. \E x : IsKept(x, s, T, n)
        BY <1>0, KeptExists
      <3> QED BY <3>1 DEF F
    <2>2. Selected(s, T) = F[n]
      BY DEF Selected, IsKept
    <2> QED BY <2>1, <2>2
  <1> DEFINE Part(i, f) ==
               /\ f \in [1 .. Len(kept[i]) -> {j \in 1 .. i : j \in T}]
               /\ \A j \in 1 .. Len(kept[i]) : kept[i][j] = s[f[j]]
               /\ \A j, k \in 1 .. Len(kept[i]) : j < k => f[j] < f[k]
               /\ \A j \in 1 .. i : j \in T => \E k \in 1 .. Len(kept[i]) : f[k] = j
             Good == {i \in 0 .. n : kept[i] \in Seq(S) /\ \E f : Part(i, f)}
  <1>2. 0 \in Good
    <2>1. kept[0] = <<>>
      BY <1>1 DEF IsKept
    <2> DEFINE f == [i \in 1 .. 0 |-> 0]
    <2>2. Part(0, f)
      BY <2>1
    <2>3. kept[0] \in Seq(S) /\ 0 \in 0 .. n
      BY <1>0, <2>1
    <2> HIDE DEF f, Part
    <2> QED BY <2>2, <2>3
  <1>3. ASSUME NEW i \in 0 .. n - 1, i \in Good PROVE i + 1 \in Good
    <2>1. PICK f : Part(i, f)
      BY <1>3
    <2>2. kept[i] \in Seq(S) /\ Len(kept[i]) \in Nat /\ i + 1 \in 1 .. n /\ i + 1 \in 0 .. n
      BY <1>3
    <2>3. kept[i + 1] = IF i + 1 \in T THEN Append(kept[i], s[i + 1]) ELSE kept[i]
      <3>1. i + 1 # 0 /\ (i + 1) - 1 = i
        BY <2>2
      <3> QED BY <1>1, <2>2, <3>1 DEF IsKept
    <2>4. CASE i + 1 \notin T
      <3>1. kept[i + 1] = kept[i]
        BY <2>3, <2>4
      <3>2. {j \in 1 .. i + 1 : j \in T} = {j \in 1 .. i : j \in T}
        BY <2>2, <2>4
      <3>3. Part(i + 1, f)
        BY <2>1, <3>1, <3>2
      <3> HIDE DEF Part
      <3> QED BY <2>2, <3>1, <3>3
    <2>5. CASE i + 1 \in T
      <3> DEFINE m == Len(kept[i])
                 g == [j \in 1 .. m + 1 |-> IF j = m + 1 THEN i + 1 ELSE f[j]]
      <3>1. kept[i + 1] = Append(kept[i], s[i + 1]) /\ s[i + 1] \in S
        BY <2>2, <2>3, <2>5
      <3>2. kept[i + 1] \in Seq(S) /\ Len(kept[i + 1]) = m + 1
        BY <2>2, <3>1
      <3>3. g \in [1 .. m + 1 -> {j \in 1 .. i + 1 : j \in T}]
        BY <2>1, <2>2, <2>5
      <3>4. ASSUME NEW j \in 1 .. m + 1 PROVE kept[i + 1][j] = s[g[j]]
        BY <2>1, <2>2, <3>1
      <3>5. ASSUME NEW j \in 1 .. m + 1, NEW k \in 1 .. m + 1, j < k PROVE g[j] < g[k]
        <4>0. m \in Nat /\ i \in Nat /\ \A a \in 1 .. m : f[a] \in 1 .. i
          <5>1. m \in Nat /\ i \in Nat
            BY <2>2
          <5>2. f \in [1 .. m -> {a \in 1 .. i : a \in T}]
            BY <2>1
          <5> QED BY <5>1, <5>2
        <4>1. j \in 1 .. m /\ g[j] = f[j] /\ f[j] \in 1 .. i
          <5>1. j \in 1 .. m
            BY <3>5, <4>0
          <5> QED BY <4>0, <5>1
        <4>2. CASE k = m + 1
          <5>1. g[k] = i + 1
            BY <4>2
          <5> HIDE DEF g
          <5> QED BY <4>0, <4>1, <5>1
        <4>3. CASE k # m + 1
          <5>1. k \in 1 .. m /\ g[k] = f[k]
            BY <4>0, <4>3
          <5>2. f[j] < f[k]
            BY <2>1, <3>5, <4>1, <5>1
          <5> QED BY <4>1, <5>1, <5>2
        <4> QED BY <4>2, <4>3
      <3>6. ASSUME NEW j \in 1 .. i + 1, j \in T PROVE \E k \in 1 .. m + 1 : g[k] = j
        <4>1. CASE j = i + 1
          <5>1. m + 1 \in 1 .. m + 1 /\ g[m + 1] = j
            BY <2>2, <4>1
          <5> HIDE DEF g
          <5> QED BY <5>1
        <4>2. CASE j # i + 1
          <5>1. PICK k \in 1 .. m : f[k] = j
            BY <2>1, <3>6, <4>2
          <5>2. k \in 1 .. m + 1 /\ g[k] = j
            BY <2>2, <5>1
          <5> HIDE DEF g
          <5> QED BY <5>2
        <4> QED BY <4>1, <4>2
      <3>7. Part(i + 1, g)
        <4> HIDE DEF g
        <4> QED BY <3>2, <3>3, <3>4, <3>5, <3>6
      <3> HIDE DEF g, Part
      <3> QED BY <2>2, <3>2, <3>7
    <2> QED BY <2>4, <2>5
  <1>4. n \in Good
    <2> HIDE DEF Good
    <2>1. n \in Nat
      OBVIOUS
    <2>2. 0 .. n \subseteq Good
      BY <1>2, <1>3, <2>1, UpTo
    <2> QED BY <2>1, <2>2
  <1> QED
    BY <1>1, <1>4 DEF Chooses

\* As sets of elements: what is chosen is what was to be chosen.
LEMMA SelectedElements ==
  ASSUME NEW S, NEW s \in Seq(S), NEW T
  PROVE  {Selected(s, T)[j] : j \in DOMAIN Selected(s, T)} = {s[i] : i \in {i \in DOMAIN s : i \in T}}
  <1>1. PICK f : Chooses(f, s, T, Selected(s, T))
    BY SelectedInOrder
  <1>2. DOMAIN Selected(s, T) = 1 .. Len(Selected(s, T)) /\ DOMAIN s = 1 .. Len(s)
    BY SelectedInOrder
  <1>3. ASSUME NEW j \in DOMAIN Selected(s, T)
        PROVE  \E i \in {i \in DOMAIN s : i \in T} : Selected(s, T)[j] = s[i]
    BY <1>1, <1>2 DEF Chooses
  <1>4. ASSUME NEW i \in DOMAIN s, i \in T
        PROVE  \E j \in DOMAIN Selected(s, T) : Selected(s, T)[j] = s[i]
    BY <1>1, <1>2, <1>4 DEF Chooses
  <1> QED
    BY <1>3, <1>4

\* Nothing is left exactly when nothing was to be chosen.
LEMMA SelectedIsEmpty ==
  ASSUME NEW S, NEW s \in Seq(S), NEW T
  PROVE  Selected(s, T) = <<>> <=> \A i \in DOMAIN s : i \notin T
  <1> DEFINE r == Selected(s, T)
  <1>1. r \in Seq(S)
    BY SelectedInOrder
  <1>2. {r[j] : j \in DOMAIN r} = {s[i] : i \in {i \in DOMAIN s : i \in T}}
    BY SelectedElements
  <1> HIDE DEF r
  <1>3. r = <<>> <=> DOMAIN r = {}
    BY <1>1
  <1>4. r = <<>> <=> {i \in DOMAIN s : i \in T} = {}
    BY <1>2, <1>3
  <1> QED
    BY <1>4 DEF r

\* The chosen elements are no more than there were.
LEMMA SelectedIsShorter ==
  ASSUME NEW S, NEW s \in Seq(S), NEW T
  PROVE  Len(Selected(s, T)) <= Len(s)
  <1> DEFINE m == Len(Selected(s, T))
  <1>1. PICK f : Chooses(f, s, T, Selected(s, T))
    BY SelectedInOrder
  <1>2. m \in Nat /\ Len(s) \in Nat
    <2>1. Selected(s, T) \in Seq(S)
      BY SelectedInOrder
    <2> QED BY <2>1
  <1>3. /\ \A j \in 1 .. m : f[j] \in 1 .. Len(s)
        /\ \A i, j \in 1 .. m : i < j => f[i] < f[j]
    BY <1>1 DEF Chooses
  <1> HIDE DEF m
  <1> DEFINE Below == {j \in 0 .. m : j = 0 \/ j <= f[j]}
  <1>4. 0 \in Below
    BY <1>2
  <1>5. ASSUME NEW j \in 0 .. m - 1, j \in Below PROVE j + 1 \in Below
    <2>1. j + 1 \in 1 .. m /\ f[j + 1] \in 1 .. Len(s)
      BY <1>2, <1>3
    <2>2. CASE j = 0
      BY <1>2, <2>1, <2>2
    <2>3. CASE j # 0
      <3>1. j \in 1 .. m /\ j <= f[j] /\ f[j] \in 1 .. Len(s)
        BY <1>2, <1>3, <1>5, <2>3
      <3>2. f[j] < f[j + 1]
        BY <1>2, <1>3, <2>1, <3>1
      <3> QED BY <1>2, <2>1, <3>1, <3>2
    <2> QED BY <2>2, <2>3
  <1>6. m \in Below
    <2> HIDE DEF Below
    <2>1. 0 .. m \subseteq Below
      BY <1>2, <1>4, <1>5, UpTo
    <2> QED BY <1>2, <2>1
  <1>7. m <= Len(s)
    <2>1. CASE m = 0
      BY <1>2, <2>1
    <2>2. CASE m # 0
      <3>1. m \in 1 .. m /\ m <= f[m]
        BY <1>2, <1>6, <2>2
      <3>2. f[m] \in 1 .. Len(s)
        BY <1>3, <3>1
      <3> QED BY <1>2, <3>1, <3>2
    <2> QED BY <2>1, <2>2
  <1> QED
    BY <1>7 DEF m

\* Who chooses all elements has them all, in their order.
LEMMA SelectedAll ==
  ASSUME NEW S, NEW s \in Seq(S), NEW T, \A i \in DOMAIN s : i \in T
  PROVE  Selected(s, T) = s
  <1> DEFINE n == Len(s)
  <1>0. n \in Nat /\ DOMAIN s = 1 .. n
    OBVIOUS
  <1>1. PICK kept : IsKept(kept, s, T, n) /\ Selected(s, T) = kept[n]
    <2> DEFINE F == CHOOSE F : IsKept(F, s, T, n)
    <2>1. IsKept(F, s, T, n)
      <3> HIDE DEF F
      <3>1. \E x : IsKept(x, s, T, n)
        BY <1>0, KeptExists
      <3> QED BY <3>1 DEF F
    <2>2. Selected(s, T) = F[n]
      BY DEF Selected, IsKept
    <2> QED BY <2>1, <2>2
  <1> DEFINE Good == {i \in 0 .. n : kept[i] = SubSeq(s, 1, i)}
  <1>2. 0 \in Good
    <2>1. kept[0] = <<>>
      BY <1>1 DEF IsKept
    <2>2. SubSeq(s, 1, 0) = <<>>
      OBVIOUS
    <2>3. 0 \in 0 .. n
      BY <1>0
    <2> QED BY <2>1, <2>2, <2>3
  <1>3. ASSUME NEW i \in 0 .. n - 1, i \in Good PROVE i + 1 \in Good
    <2>1. i + 1 \in 1 .. n /\ i + 1 \in T /\ i + 1 # 0 /\ i + 1 - 1 = i
      BY <1>0
    <2>2. kept[i + 1] = Append(kept[i], s[i + 1])
      <3> DEFINE j == i + 1
      <3>1. j \in 0 .. n /\ j \in T /\ j # 0 /\ j - 1 = i
        BY <1>0, <2>1
      <3> HIDE DEF j, n
      <3>2. kept[j] = Append(kept[j - 1], s[j])
        BY <1>1, <3>1 DEF IsKept
      <3> QED BY <3>1, <3>2 DEF j
    <2>3. Append(SubSeq(s, 1, i), s[i + 1]) = SubSeq(s, 1, i + 1)
      BY <1>0, <2>1
    <2> QED BY <1>3, <2>1, <2>2, <2>3
  <1>4. n \in Good
    <2>1. 0 .. n \subseteq Good
      <3> HIDE DEF Good, n
      <3> QED BY <1>0, <1>2, <1>3, UpTo
    <2> QED BY <1>0, <2>1
  <1> QED
    BY <1>0, <1>1, <1>4

-----------------------------------------------------------------------------
(* Functions that run over a sequence *)

\* w says what step makes of start with the first elements of s.
RunsOver(w, s, S, start, step) ==
  w \in [0 .. Len(s) -> S] /\ w[0] = start /\ \A i \in 1 .. Len(s) : w[i] = step[<<w[i - 1], s[i]>>]

LEMMA RunExists ==
  ASSUME NEW E, NEW s \in Seq(E), NEW S, NEW start \in S, NEW step \in [S \X E -> S]
  PROVE  \E w : RunsOver(w, s, S, start, step)
  <1> DEFINE n    == Len(s)
             next == [p \in (1 .. n) \X S |-> step[<<p[2], s[p[1]]>>]]
  <1>1. n \in Nat /\ \A i \in 1 .. n : s[i] \in E
    OBVIOUS
  <1>2. ASSUME NEW i \in 1 .. n, NEW v \in S PROVE next[<<i, v>>] = step[<<v, s[i]>>] /\ next[<<i, v>>] \in S
    BY <1>1
  <1> HIDE DEF next, n
  <1>6. StaysIn(n, S, next)
    BY <1>2 DEF StaysIn
  <1>3. PICK w : RunsFrom(w, n, S, start, next)
    BY <1>1, <1>6, RecursionExists
  <1>4. ASSUME NEW i \in 1 .. n PROVE w[i] = step[<<w[i - 1], s[i]>>]
    <2>1. i - 1 \in 0 .. n
      BY <1>1
    <2>2. w[i - 1] \in S
      BY <1>3, <2>1 DEF RunsFrom
    <2> QED BY <1>2, <1>3, <2>2 DEF RunsFrom
  <1>5. RunsOver(w, s, S, start, step)
    BY <1>3, <1>4 DEF RunsFrom, RunsOver, n
  <1> QED BY <1>5

\* There is only one, and one more element is one more step.
LEMMA RunAppended ==
  ASSUME NEW E, NEW s \in Seq(E), NEW e \in E, NEW S, NEW start, NEW step,
         NEW w, RunsOver(w, s, S, start, step), NEW v, RunsOver(v, Append(s, e), S, start, step)
  PROVE  v[Len(Append(s, e))] = step[<<w[Len(s)], e>>]
  <1> DEFINE n    == Len(s)
             more == Append(s, e)
             Same == {i \in 0 .. n : v[i] = w[i]}
  <1>1. /\ n \in Nat /\ Len(more) = n + 1 /\ more[n + 1] = e
        /\ \A i \in 1 .. n : more[i] = s[i]
    OBVIOUS
  <1> HIDE DEF more
  <1>2. 0 \in Same
    BY <1>1 DEF RunsOver
  <1>3. ASSUME NEW i \in 0 .. n - 1, i \in Same PROVE i + 1 \in Same
    <2>1. i + 1 \in 1 .. n /\ i + 1 \in 1 .. n + 1 /\ (i + 1) - 1 = i /\ i + 1 \in 0 .. n
      BY <1>1
    <2>2. v[i + 1] = step[<<v[i], more[i + 1]>>]
      BY <1>1, <2>1 DEF RunsOver, more
    <2>3. w[i + 1] = step[<<w[i], s[i + 1]>>]
      BY <2>1 DEF RunsOver
    <2> QED BY <1>1, <1>3, <2>1, <2>2, <2>3
  <1>4. n \in Same
    <2>1. 0 .. n \subseteq Same
      <3> HIDE DEF Same, n
      <3> QED BY <1>1, <1>2, <1>3, UpTo
    <2> QED BY <1>1, <2>1
  <1>5. v[n + 1] = step[<<v[n], e>>]
    <2>1. n + 1 \in 1 .. Len(more) /\ (n + 1) - 1 = n
      BY <1>1
    <2>2. v[n + 1] = step[<<v[(n + 1) - 1], more[n + 1]>>]
      BY <2>1 DEF RunsOver, more
    <2> QED BY <1>1, <2>1, <2>2
  <1> QED
    BY <1>1, <1>4, <1>5 DEF more

\* Each number is given by what is at the one before, as long as that is in S: then it always is.
FollowsIn(w, s, S, step) ==
  \A i \in 1 .. Len(s) : w[i - 1] \in S => w[i] = step[<<w[i - 1], s[i]>>]

LEMMA RunTyped ==
  ASSUME NEW E, NEW s \in Seq(E), NEW S, NEW start \in S, NEW step \in [S \X E -> S],
         NEW w, w = [i \in 0 .. Len(s) |-> w[i]], w[0] = start, FollowsIn(w, s, S, step)
  PROVE  RunsOver(w, s, S, start, step)
  <1> DEFINE n == Len(s)
             G == {i \in 0 .. n : w[i] \in S}
  <1>1. n \in Nat /\ \A i \in 1 .. n : s[i] \in E
    OBVIOUS
  <1>2. 0 \in G
    BY <1>1
  <1>3. ASSUME NEW i \in 1 .. n, w[i - 1] \in S PROVE w[i] = step[<<w[i - 1], s[i]>>] /\ w[i] \in S
    BY <1>1, <1>3 DEF FollowsIn
  <1>4. ASSUME NEW i \in 0 .. n - 1, i \in G PROVE i + 1 \in G
    <2>1. i + 1 \in 1 .. n /\ (i + 1) - 1 = i /\ i + 1 \in 0 .. n /\ w[i] \in S
      BY <1>1, <1>4
    <2>2. w[i + 1] \in S
      BY <1>3, <2>1
    <2> QED BY <2>1, <2>2
  <1>5. 0 .. n \subseteq G
    <2> HIDE DEF G, n
    <2> QED BY <1>1, <1>2, <1>4, UpTo
  <1>6. w \in [0 .. n -> S]
    BY <1>5
  <1>7. \A i \in 1 .. n : w[i] = step[<<w[i - 1], s[i]>>]
    <2> TAKE i \in 1 .. n
    <2>1. i - 1 \in 0 .. n
      BY <1>1
    <2>2. w[i - 1] \in S
      BY <1>6, <2>1
    <2> QED BY <1>3, <2>2
  <1> QED BY <1>6, <1>7 DEF RunsOver
================================================================================
