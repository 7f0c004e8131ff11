---------------------------- MODULE SmallAlgorithms ----------------------------
(***************************************************************************)
(* The functions of src/ByteOperationSum, FindSubCollectionSum,            *)
(* PermutationWords, Substring_find_test and TestChallenge_for_55_min, and *)
(* what each is to return.  A step is one call.                            *)
(***************************************************************************)
EXTENDS Integers, Sequences, FiniteSets, SequencesExt, Bitwise

CONSTANTS
  BITS,       \* width of an int, 32
  LIMIT,      \* 1'000'000 of findIntervalSumZero
  Numbers, MaxNumbers,    \* bound: the vectors of ints that are tried
  Unsigned,               \* bound: the numbers of vectors of uint32_t
  Sums,                   \* bound: the sums that are asked for
  Characters, MaxLength   \* bound: the strings that are tried

VARIABLE call

CallInit == call = [of |-> "nothing"]

-----------------------------------------------------------------------------
(* ByteOperationSum: add *)

Ints == -(2 ^ (BITS - 1)) .. 2 ^ (BITS - 1) - 1
ToInt(w) == IF w < 2 ^ (BITS - 1) THEN w ELSE w - 2 ^ BITS

\* Defect: one carry only.
CarryOnce(a, b) == ((a ^^ b) + 2 * (a & b)) % 2 ^ (BITS - 1)

\* The loop until there is no carry, on words.
CarryAll(a, b) ==
  LET loop[k \in 0 .. BITS] ==
        LET s == loop[k - 1]
        IN  IF k = 0 THEN <<a, b>>
            ELSE <<s[1] ^^ s[2], (2 * (s[1] & s[2])) % 2 ^ BITS>>
  IN  loop[BITS][1]

\* What is thrown, and the value returned when nothing is.
Add(a, b) ==
  LET sum  == ToInt(CarryAll(a % 2 ^ BITS, b % 2 ^ BITS))
      flip == (a < 0) # (sum < 0) /\ (b < 0) # (sum < 0)
  IN  [thrown |-> IF flip /\ sum < 0 THEN "overflow" ELSE IF flip /\ sum > 0 THEN "underflow" ELSE "nothing",
       value  |-> sum]

CallAdd == \E a, b \in Ints : call' = [of |-> "add", a |-> a, b |-> b, result |-> Add(a, b)]

-----------------------------------------------------------------------------
(* FindSubCollectionSum: find_largest_sum *)

Total(s) == FoldLeft(LAMBDA n, e : n + e, 0, s)

\* The sum of two uint32_t, which may wrap.
Plus(m, n) == (m + n) % 2 ^ BITS

\* Upwards from position p of the sorted numbers, until one is too large.
Upwards(sorted, p, first, T) ==
  LET go[q \in p .. Len(sorted) + 1] ==
        LET s == go[q - 1]
        IN  IF q = p THEN [sum |-> first, found |-> <<>>, over |-> FALSE]
            ELSE IF s.over \/ Plus(s.sum, sorted[q - 1]) > T THEN [s EXCEPT !.over = TRUE]
            ELSE [s EXCEPT !.sum = Plus(@, sorted[q - 1]), !.found = Append(@, sorted[q - 1])]
  IN  go[Len(sorted) + 1]

\* Downwards from position p, once more with its number and without the first one.
Downwards(sorted, p, s, T) ==
  LET go[q \in 2 .. p + 1] ==
        LET r == go[q + 1]
        IN  IF q = p + 1 THEN s
            ELSE IF Plus(r.sum, sorted[q]) > T THEN r
            ELSE [r EXCEPT !.sum = Plus(@, sorted[q]), !.found = Append(@, sorted[q])]
  IN  go[2]

\* Number i does not fit: a better sum is sought with i and some of the numbers collected so far.
Replace(s, i, T) ==
  LET sorted == SortSeq(s.sub, LAMBDA x, y : x < y)
      try[p \in 0 .. Len(sorted)] ==
        LET before == try[p - 1]
            c      == Downwards(sorted, p, Upwards(sorted, p, i, T), T)
        IN  IF p = 0 THEN [s EXCEPT !.sub = sorted]
            ELSE IF before.over THEN before
            ELSE [before EXCEPT !.sum  = IF c.sum > @ THEN c.sum ELSE @,
                                !.M    = IF c.sum > before.sum THEN Append(c.found, i) ELSE @,
                                !.over = c.sum = T]
  IN  [try[Len(sorted)] EXCEPT !.over = FALSE]

\* Defect: the number that fits is added to the sum only.
CollectSum(s, i) == [s EXCEPT !.sum = Plus(@, i), !.sub = Append(@, i)]

Collect(s, i) == [s EXCEPT !.sum = Plus(@, i), !.sub = Append(@, i), !.M = Append(@, i)]

\* The sum found and its numbers; the walk over I ends when T is reached.  What the caller's
\* vector holds stays there until numbers are exchanged.
FindLargestSum(T, I, held) ==
  LET walk[k \in 0 .. Len(I)] ==
        LET s == walk[k - 1]
        IN  IF k = 0 THEN [sum |-> 0, M |-> held, sub |-> <<>>, over |-> FALSE]
            ELSE IF s.sum = T THEN s
            ELSE IF Plus(s.sum, I[k]) <= T THEN Collect(s, I[k])
            ELSE IF I[k] <= T THEN Replace(s, I[k], T)
            ELSE s
  IN  walk[Len(I)]

\* The vector is empty, or still holds what a call before has found.
CallFindLargestSum ==
  \E T \in Sums, held \in {<<>>} \cup {<<i>> : i \in Unsigned}, n \in 0 .. MaxNumbers :
    \E I \in [1 .. n -> Unsigned] :
      LET s == FindLargestSum(T, I, held)
      IN  call' = [of |-> "find_largest_sum", T |-> T, I |-> I, held |-> held, M |-> s.M, S |-> s.sum]

-----------------------------------------------------------------------------
(* PermutationWords, Substring_find_test, TestChallenge_for_55_min *)

Count(s, c) == Len(SelectSeq(s, LAMBDA d : d = c))

\* Defect: a character need only occur.
CoversSome(s, t) == \A i \in DOMAIN s : Count(t, s[i]) > 0

\* isPermutation: t has every character of s often enough.
Covers(s, t) == \A i \in DOMAIN s : Count(t, s[i]) >= Count(s, s[i])

CallIsPermutation ==
  \E n, m \in 0 .. MaxLength : \E s \in [1 .. n -> Characters], t \in [1 .. m -> Characters] :
    call' = [of |-> "isPermutation", s |-> s, t |-> t, result |-> Covers(s, t)]

\* str_cmp: substr is used up before a difference or the end of str is met.
StrCmp(str, substr) ==
  LET cmp[i \in 0 .. Len(substr)] ==
        IF i = Len(substr) THEN TRUE
        ELSE i < Len(str) /\ str[i + 1] = substr[i + 1] /\ cmp[i + 1]
  IN  cmp[0]

\* The number of characters in front of the place found; -1 is the null pointer.
StrStr(str, substr) ==
  LET find[i \in 0 .. Len(str)] ==
        IF i = Len(str) THEN -1
        ELSE IF StrCmp(SubSeq(str, i + 1, Len(str)), substr) THEN i ELSE find[i + 1]
  IN  IF str = <<>> /\ substr = <<>> THEN 0 ELSE find[0]

CallStrStr ==
  \E n, m \in 0 .. MaxLength : \E s \in [1 .. n -> Characters], t \in [1 .. m -> Characters] :
    call' = [of |-> "strstr", str |-> s, substr |-> t, result |-> StrStr(s, t)]

\* findIntervalSumZero: every prefix with a sum met before ends an interval for each time it was.
IntervalsSumZero(A) ==
  LET sums == [i \in 1 .. Len(A) |-> Total(SubSeq(A, 1, i))]
      res[i \in 0 .. Len(A)] ==
        IF i = 0 THEN 0
        ELSE res[i - 1] + (IF sums[i] = 0 THEN 1 ELSE 0) + Count(SubSeq(sums, 1, i - 1), sums[i])
  IN  IF res[Len(A)] < LIMIT THEN res[Len(A)] ELSE -1

CallFindIntervalSumZero ==
  \E n \in 0 .. MaxNumbers : \E A \in [1 .. n -> Numbers] :
    call' = [of |-> "findIntervalSumZero", A |-> A, result |-> IntervalsSumZero(A)]

-----------------------------------------------------------------------------
CallNext ==
  \/ CallAdd \/ CallFindLargestSum \/ CallIsPermutation \/ CallStrStr \/ CallFindIntervalSumZero

CallSpec == CallInit /\ [][call = [of |-> "nothing"] /\ CallNext]_call

\* add returns the sum of two ints when it is one, and throws for any other sum but 0, whichever
\* carries run over how many bits and whatever the signs are (add).
AddIsExact ==
  call.of = "add" =>
    LET sum == call.a + call.b
    IN  IF sum \in Ints THEN call.result = [thrown |-> "nothing", value |-> sum]
        ELSE sum % 2 ^ BITS # 0 => call.result.thrown = IF sum > 0 THEN "overflow" ELSE "underflow"

\* "In case when int limits are broken, throws overflow exception."
OverflowThrows ==
  call.of = "add" /\ call.a + call.b \notin Ints => call.result.thrown # "nothing"

\* The sum find_largest_sum reports is that of the numbers it has put into the vector, behind what
\* was there or in its place, on words that wrap; it is not above T; each of the numbers is one of
\* those given; and it is T when the numbers taken in order make up T.
LargestSumIsMadeUp ==
  call.of = "find_largest_sum" =>
    /\ call.S <= call.T
    /\ \E found \in {call.M} \cup {SubSeq(call.M, Len(call.held) + 1, Len(call.M))} :
         /\ call.M \in {found, call.held \o found}
         /\ call.S = Total(found) % 2 ^ BITS
         /\ ToSet(found) \subseteq ToSet(call.I)
    /\ (\E k \in 0 .. Len(call.I) : Total(SubSeq(call.I, 1, k)) = call.T) => call.S = call.T

\* "M - found vector, the one of the relevant sub-collection requirements": a number is in it at
\* most as often as it was given, when the vector was empty before.
FoundIsSubCollection ==
  call.of = "find_largest_sum" /\ call.held = <<>> =>
    \A i \in DOMAIN call.M : Count(call.M, call.M[i]) <= Count(call.I, call.M[i])

\* Words of the same length are told to be permutations exactly when one can be made of the
\* other; strstr finds the first place at which substr stands, for any two strings; and
\* findIntervalSumZero counts the intervals with sum 0.
FunctionsMeetTheirDefinitions ==
  /\ call.of = "isPermutation" /\ Len(call.s) = Len(call.t) =>
       call.result = \E p \in [DOMAIN call.s -> DOMAIN call.t] :
                       /\ \A i, j \in DOMAIN p : p[i] = p[j] => i = j
                       /\ \A i \in DOMAIN p : call.s[i] = call.t[p[i]]
  /\ call.of = "strstr" =>
       LET at == {i \in 0 .. Len(call.str) - Len(call.substr) :
                    SubSeq(call.str, i + 1, i + Len(call.substr)) = call.substr}
       IN  IF at = {} THEN call.result = -1
           ELSE call.result \in at /\ \A i \in at : call.result <= i
  /\ call.of = "findIntervalSumZero" =>
       LET zero == {<<i, j>> \in (DOMAIN call.A) \X (DOMAIN call.A) :
                      i <= j /\ Total(SubSeq(call.A, i, j)) = 0}
       IN  call.result = IF Cardinality(zero) < LIMIT THEN Cardinality(zero) ELSE -1
===============================================================================
