----------------------------- MODULE WordCounter -----------------------------
(***************************************************************************)
(* src/Unique_words_counter/parser.cpp: threads read a file word by word.  *)
(* A thread that has read a word wakes the next thread and waits to be     *)
(* woken before it looks at the word.  All of it happens under one lock    *)
(* that is released by waiting only, so that a step is what a thread does  *)
(* between two waits.  Nothing is tested around a wait: a notification of  *)
(* a thread that does not wait yet is lost, and one may come from nowhere. *)
(* A line is a sequence of characters.                                     *)
(***************************************************************************)
EXTENDS Selection, FiniteSets, Functions

CONSTANTS
  Cores,          \* what hardware_concurrency may say
  MAX_THREADS,    \* 16
  Files,          \* contents of the file: sequences of lines
  Separators,     \* characters between words: marks, digits, blanks
  Lower           \* ::tolower, for the letters

\* Without a thread nothing reads, and a thread that is alone wakes itself before it waits, so that
\* it waits for good: what is said here is about the machines that give it two or more.
ASSUME CoresAssumption ==
  Cores \subseteq Nat /\ MAX_THREADS \in Nat \ {0} /\ \A c \in Cores : c % MAX_THREADS >= 2

IsLetter(c) == c \notin Separators \cup {"-"}

\* A line is what >> reads between blanks and not empty; a letter in small is a letter.
ASSUME TextAssumption ==
  /\ ")" \in Separators /\ "-" \notin Separators
  /\ \A f \in Files :
       /\ f \in Seq(Range(f))
       /\ \A i \in DOMAIN f : /\ f[i] \in Seq(Range(f[i])) \ {<<>>}
                             /\ \A c \in Range(f[i]) : IsLetter(c) => IsLetter(Lower[c])

VARIABLES
  t_num,          \* number of threads
  inFile,         \* what is left to read
  thread,         \* "start", "waiting", "woken", "done"
  held,           \* the line each thread has read
  storage,        \* the words each thread has found
  counter,
  unique_words,   \* what main prints, and whether it has
  printed,
  content         \* history: the file

wordVars == <<t_num, inFile, thread, held, storage, counter, unique_words, printed, content>>

Threads == 0 .. t_num - 1

WordTypeOK ==
  /\ t_num \in 0 .. MAX_THREADS - 1
  /\ inFile \in Seq(UNION {Range(f) : f \in Files})
  /\ thread \in [Threads -> {"start", "waiting", "woken", "done"}]
  /\ DOMAIN held = Threads /\ DOMAIN storage = Threads
  /\ counter \in Nat /\ printed \in BOOLEAN

WordInit ==
  /\ \E cores \in Cores : t_num = cores % MAX_THREADS
  /\ content \in Files
  /\ inFile = content
  /\ thread = [t \in Threads |-> "start"]
  /\ held = [t \in Threads |-> <<>>]
  /\ storage = [t \in Threads |-> {}]
  /\ counter = 0 /\ unique_words = {} /\ printed = FALSE

-----------------------------------------------------------------------------
(* find_words *)

\* A dash belongs to a word that has begun, and only the first of several.
DashKept(word, previous) == word # <<>> /\ previous # "-"

\* A dash at the end is no part of the word.
Finished(word) == IF word[Len(word)] = "-" THEN SubSeq(word, 1, Len(word) - 1) ELSE word

\* The words found, and the one that is being read, after the next character.
Scanned(s, c, previous) ==
  IF c \in Separators
  THEN [words |-> IF s.word = <<>> THEN s.words ELSE Append(s.words, Finished(s.word)), word |-> <<>>]
  ELSE IF c # "-" THEN [s EXCEPT !.word = Append(@, Lower[c])]
  ELSE IF DashKept(s.word, previous) THEN [s EXCEPT !.word = Append(@, c)]
  ELSE s

\* The words of a line; a separator is put behind it.
FindWords(line) ==
  LET text == Append(line, ")")
      scan[i \in 0 .. Len(text)] ==
        IF i = 0 THEN [words |-> <<>>, word |-> <<>>]
        ELSE Scanned(scan[i - 1], text[i], IF i = 1 THEN ")" ELSE text[i - 1])
  IN  scan[Len(text)].words

-----------------------------------------------------------------------------
(* printString *)

\* Defect: each thread wakes itself.
ItselfNext(t) == t

\* cv[(tid+1)%t_num]
NextThread(t) == (t + 1) % t_num

\* notify_all: the next thread, if it waits.
Notified(states, t) ==
  [states EXCEPT ![NextThread(t)] = IF @ = "waiting" THEN "woken" ELSE @]

\* The next line, or the end.  The next thread is notified before this one waits.
ReadOn(t) ==
  IF inFile = <<>>
  THEN /\ thread' = Notified([thread EXCEPT ![t] = "done"], t)
       /\ UNCHANGED <<inFile, held>>
  ELSE /\ inFile' = Tail(inFile)
       /\ held' = [held EXCEPT ![t] = Head(inFile)]
       /\ thread' = [Notified(thread, t) EXCEPT ![t] = "waiting"]

FirstLine(t) ==
  /\ thread[t] = "start"
  /\ ReadOn(t)
  /\ UNCHANGED <<t_num, storage, counter, unique_words, printed, content>>

\* Defect: the words of a line that was found before are not counted.
CountNew(t, words) == counter + Cardinality(Range(words) \ storage[t])

CountAll(t, words) == counter + Len(words)

Woken(t) ==
  /\ thread[t] = "woken"
  /\ LET words == FindWords(held[t]) IN
       /\ counter' = CountAll(t, words)
       /\ storage' = [storage EXCEPT ![t] = @ \cup Range(words)]
  /\ ReadOn(t)
  /\ UNCHANGED <<t_num, unique_words, printed, content>>

\* A condition variable may wake a thread without a notification.
WokenSpuriously(t) ==
  /\ thread[t] = "waiting"
  /\ thread' = [thread EXCEPT ![t] = "woken"]
  /\ UNCHANGED <<t_num, inFile, held, storage, counter, unique_words, printed, content>>

\* main has joined the threads and merges what they have found.
MergeAndPrint ==
  /\ ~printed
  /\ \A t \in Threads : thread[t] = "done"
  /\ unique_words' = UNION Range(storage)
  /\ printed' = TRUE
  /\ UNCHANGED <<t_num, inFile, thread, held, storage, counter, content>>

WordNext ==
  \/ \E t \in Threads : FirstLine(t) \/ Woken(t) \/ WokenSpuriously(t)
  \/ MergeAndPrint

\* Every thread that can run does.
WordFairness ==
  /\ \A t \in 0 .. MAX_THREADS - 1 : WF_wordVars(t < t_num /\ (FirstLine(t) \/ Woken(t)))
  /\ WF_wordVars(MergeAndPrint)

WordSpec == WordInit /\ [][WordNext]_wordVars /\ WordFairness

-----------------------------------------------------------------------------
\* A word neither begins nor ends with a dash and has no two in a row, and without dashes the words
\* are the letters of the line in small ones.
IsCleanWord(word) ==
  /\ word # <<>> /\ word[1] # "-" /\ word[Len(word)] # "-"
  /\ \A j \in 1 .. Len(word) - 1 : ~(word[j] = "-" /\ word[j + 1] = "-")

Letters(s) == Selected(s, {i \in DOMAIN s : IsLetter(s[i])})

AllLetters(words) ==
  LET all[i \in 0 .. Len(words)] == IF i = 0 THEN <<>> ELSE all[i - 1] \o Letters(words[i])
  IN  all[Len(words)]

InSmall(text) == [j \in 1 .. Len(text) |-> Lower[text[j]]]

CleanWords(line) ==
  LET words == FindWords(line)
  IN  (\A i \in DOMAIN words : IsCleanWord(words[i])) /\ AllLetters(words) = InSmall(Letters(line))

\* How many words the first lines have, and which words all have.
NumberOfWords(lines) ==
  LET number[i \in 0 .. Len(lines)] == IF i = 0 THEN 0 ELSE number[i - 1] + Len(FindWords(lines[i]))
  IN  number

WordsOf(lines) == UNION {Range(FindWords(lines[i])) : i \in DOMAIN lines}

\* What is printed is the number of words of the file and of different ones, whichever thread has
\* read which line, and whatever wakes the threads; and the words are clean (printString, main,
\* find_words).
CountsEveryWord ==
  printed =>
    /\ \A i \in DOMAIN content : CleanWords(content[i])
    /\ counter = NumberOfWords(content)[Len(content)] /\ unique_words = WordsOf(content)

\* The program ends: the notifications that are lost at the start and the threads that have ended
\* never leave a thread waiting (printString).
WordsGetPrinted == (\E t \in Threads : thread[t] # "start") ~> printed
===============================================================================
