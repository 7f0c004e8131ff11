\* "Several trades of one trader with the same side and price, created on one aggressor execution,
\* should be reported as one trade with cumulative size."
SPECIFICATION ProgramsSpec
CONSTANTS
  MAX_NAME_LEN = 2
  MAX_EMAIL_LEN = 4
  MaxPackets = 2
  UINT = 65536
  Malformed = Malformed
  Entries <- TypedEntries
  Garbled <- GarbledPackets
  Pictures = {"sunset", "portrait"}
  Pieces <- PiecesOf
  DATAGRAM_SIZE = 1024
  Rest <- RestOf
  MaxFaults = 2
  MaxChanges = 1
  Cores = {2, 19}
  MAX_THREADS = 16
  Files <- Texts
  Separators = {")"}
  Lower <- LowerCase
  Keys = {0, 1, 2, 3, 4}
  Values = {"A", "B"}
  Traders = {"T1", "T2"}
  Quantities = {0, 1, 3}
  Prices = {30, 40}
  MaxOrders = 3
  Width = 3
  Height = 1
  Channels = {0, 1}
  MAX_VALUE = 3
  IMAGE_THREADS = 2
  Images <- SmallImages
  Memory <- SmallMemory
  BITS = 4
  LIMIT = 3
  Numbers <- Vectors
  MaxNumbers = 4
  Unsigned <- Words
  Sums = {0, 3, 4, 5, 6}
  Characters = {"a", "b"}
  MaxLength = 4
CHECK_DEADLOCK FALSE
INVARIANT TradesBalance
