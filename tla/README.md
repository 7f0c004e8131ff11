# Specifications of TrebleShot and of the small programs beside it

The repository holds one large program, TrebleShot (`src/Qt_File_Transfer`, a Qt
application that sends files between two devices), and a dozen small ones. The
specifications here are about what those programs do when threads, messages,
users and failures meet. They were written from the source; a comment in a
module names the function a definition stands for.

    tlc -workers 2 -config seamless_trouble.cfg MCSeamlessTransfer.tla
    tlc -workers 2 -config desktop.cfg MCDesktop.tla
    tlapm SeamlessTransferProofs.tla
    tlapm TransferRequestsProofs.tla

## The system

### TrebleShot

| part | state | operations | interacts through |
|---|---|---|---|
| Seamless client, `broadcast/SeamlessClient.cpp` | the object in hand, interruption flag, retry flag | `run()`: handshake, ask for the first pending object, receive it on a data connection, record it, announce the end, recurse | control connection, data connection, rows of the database |
| Seamless server, `broadcast/SeamlessServer.cpp` | the object being sent, interruption flag of its task | `connected()`, once per control connection: greet, answer requests, connect back, send | the same |
| Transfer request and insertion, `ui/TransferRequestProgressDialog.cpp`, `ui/FileAdditionProgressDialog.cpp` | list of objects and devices, asked and failed ones | add files to a group; announce them to one device after another, then insert the rows of those that took them | communication server of the peer, database |
| Communication server, `broadcast/CommunicationServer.cpp` | blocked addresses | handshake, admission of devices, transfer request, response, clipboard, start of a transfer job | rows, task manager, a new client thread |
| Task manager, `util/AppUtils.h` | list of active tasks under a mutex | attach, detach, pause, has active | interruption flags read by both seamless threads |
| Database, `database/AccessDatabase.cpp`, `database/object` | rows of groups, assignees, objects, devices | insert, update, publish, remove with cascades, reconstruct | called by every thread, one connection per call |
| Transfer utilities, `util/TransferUtils.cpp` | none | first available object, unique file names, save, start | database, disk |
| Device loader, `util/NetworkDeviceLoader.cpp`, `util/CommunicationBridge.cpp` | none | ask a device who it is, record it and its connection | communication server of the peer, database |
| Synchronized list, `util/SynchronizedList.cpp` | counter and mutex | access, release | the models of the user interface |
| Main window and dialogs, `ui`, `model` | copies of rows, open menus and boxes | answer an offer, start, pause, retry, remove, restrict, trust, show | task manager, database, communication server |

A transfer runs like this. The sender announces a group of files to the
receiver's communication server, which inserts an incoming row for each; then the
sender inserts its outgoing rows. The receiving user starts a `SeamlessClient`
thread. It opens the control connection, and as long as a row is Pending it asks
for the first one, naming how many bytes it has already and a port on which it
listens. The session on the other side answers, connects to that port and sends
the rest of the file. When the file has the right size it is renamed and its row
becomes Done. Users pause, retry and remove in the meantime; files change on
disk; connections break; either application dies. Nothing but the rows and the
files survives, and each side has rows of its own that no message ever
synchronises. This is where the properties are.

What makes each part correct:

- client and server: a file marked Done is the sender's file, whole, in order and
  of one version; a Done row stays Done; the end is announced only when it is
  true; every run, session and retry ends; a pause stops both sides; after a
  crash every unfinished file can be taken up again;
- request and insertion: of the files of an offer all rows are there or none, on both
  sides; outgoing rows have an assignee; an offer that was taken is shown; a refusal
  reaches the sender;
- task manager: one client per group and device;
- communication server: a device the user has restricted is not served and stays
  restricted, whoever holds an old copy of it; a new one is served once;
- dialogs: what is shown is what a click acts upon, although the rows change meanwhile;
- database: a removed device, group or assignee leaves nothing behind that refers to it.

### The other programs

| program | what it keeps and does | what is hard |
|---|---|---|
| `RingBuffer` | messages in an array of 80 bytes, `push` and `pop` from several threads | capacity at its limits, wrap-around, a length read without the lock |
| `linux-server` | length-prefixed packets over TCP, an acknowledgement for each | packets in pieces, several in one read, 32-bit sizes |
| `Qt_bitmap_udp_sender` | a picture cut into datagrams and put together again | loss, order, a second request inside the first |
| `Unique_words_counter` | threads that read words in turn | condition variables without a predicate |
| `Trade_Engine` | two lists of resting orders | price and time priority, quantities |
| `think-cell-master/interval_map` | a map of intervals | boundaries of overlapping intervals |
| `MultithreadImageProcessing` | histogram equalisation in strips | covering the image, index of the last value |
| `ByteOperationSum`, `FindSubCollectionSum`, `PermutationWords`, `Substring_find_test`, `TestChallenge_for_55_min` | one sequential function each | the result against its definition |

Catch2 and the JPEG decoder are other people's code; CMake files, forms, strings
and pictures have no behaviour.

## Modules

| module | models |
|---|---|
| `TransferState` | the variables of both devices and the connections, their types, and the vocabulary shared by both sides: selecting and writing rows, sending, receiving and closing |
| `SeamlessClient` | `SeamlessClient::run()`, one action per stretch of code between two waits |
| `SeamlessServer` | `SeamlessServer::connected()`, parameterised by the session |
| `SeamlessTransfer` | the two composed, with users, files, network and crashes; the specification and its properties |
| `FileDelivery` | the abstract promise: files arrive one at a time, an arrived file stays arrived, the end is announced when all have arrived |
| `MCSeamlessTransfer` | small instances for TLC |
| `SeamlessTransferProofs`, `SeamlessDataProofs` | theorems and proofs about `SeamlessTransfer`: rows and announcements; data and retries |
| `RingBuffer` | `push` and `pop` of `CircleBuffer` by several threads, cell by cell of the array |
| `MessageFifo` | the abstract promise of `circlebuff_API.hpp`: a queue of messages |
| `MCRingBuffer` | messages for TLC |
| `RingBufferProofs` | theorems and proofs about `RingBuffer` |
| `AccessDatabase` | the tables, selections, operations and cascades of `database`, as operators on a database value; no variables |
| `TransferRequests` | offering files: a sender with its dialogs, receivers with the threads of their communication servers and their users |
| `Desktop` | one device: threads of the communication server and of the device loader, task manager, main window, boxes and the transfer dialog |
| `Selection` | the members of a sequence that a condition selects, in order; used by tables, orders and pictures |
| `MCTransferRequests`, `MCDesktop` | plans and situations for TLC |
| `SelectionProofs`, `AccessDatabaseProofs` | lemmas about selections, and about what each database operation stores and keeps |
| `DesktopProofs`, `TransferRequestsProofs` | theorems and proofs about `Desktop` and `TransferRequests` |
| `PacketProtocol`, `PacketServer` | `linux-server`: the format of a packet; the client window and the handler of its connection |
| `PacketDelivery` | the abstract promise of that connection: messages once, in order, up to a malformed one |
| `UdpPicture` | `Qt_bitmap_udp_sender`: server, network and client |
| `WordCounter` | `Unique_words_counter`: threads between two waits |
| `IntervalMap`, `ValueOfKeys` | `interval_map`, and its promise: a value for every key |
| `TradeEngine` | the matching and the saving of orders |
| `Equalization` | equalisation of an image by threads |
| `SmallAlgorithms` | the five sequential functions, each called once with any input |
| `Programs`, `MCPrograms` | one of the seven small programs, to check them in one run; inputs for TLC |
| `ProgramsProofs` | theorems and proofs about `IntervalMap`, `UdpPicture`, `TradeEngine`, `Equalization` and `WordCounter` |

`TransferRequests` and `Desktop` both build on `AccessDatabase` and divide the
communication server: offers and answers are in the first, with several devices; the
other requests, the admission of devices and the user interface are in the second,
where what the first does to a group appears as `AddAssignee`, `AddRows` and
`RefuseShare`. `SeamlessTransfer` is what happens once a client runs; a client is
started, and may be started twice, in `Desktop`.

### How state and actions correspond to the code

*Rows.* `rFlag`, `rSize` are the columns `flag` and `fileSize` of the incoming
rows, `sFlag`, `sSize`, `sRow` the outgoing ones. `UpdateRow` is
`gDbSignal->update(object)`: every column is written from the copy in memory,
which may be older than the row. `client.flag`, `client.size` and the fields of
`serve[k]` are those copies.

*Files.* `rFile[o]` is the file the row of `o` points to. `saveIncomingFile` renames
the temporary file and the update of the row comes afterwards (`ReceiveEnds`,
`RecordFile`); a crash in between leaves the row with an empty file. A file is a
sequence of chunks; a chunk carries the version and the offset it was read from,
so that a wrong resumption can be seen. Nothing in the actions looks at them.

*Sizes.* A length on disk is a `size_t`, the size in a row, the one announced with a request
and the offset of a resumption are uints. `ToUInt` is that conversion, modulo `UINT`, wherever
the code makes it (`TransferObject.cpp:45,87`, `SeamlessServer.cpp:99-101`,
`SeamlessClient.cpp:188-190`, `CommunicationServer.cpp:138-140`), and `Uint` the range of a row.
So a file of 4 GiB or more is announced, received and marked Done with what is left of its size.
`Aligned` holds nevertheless: the receiver's row is itself a uint and nothing is asked for once
the file is as long as the row says, so that the offset of a request is below `UINT`; this is
`Addressable` of the proof. What does not hold is that such a file arrives (`seamless_large`).

*Connections.* Run number `k` of the client, control connection `k` and session `k`
belong together. `link[k]` holds the two message queues; a closed link can no
longer be sent on, while what was sent before can still be read. `data[k]` is the
data connection of the request in progress. The port is a bit that alternates
with each request: ports of two successive requests differ, a port is not reused
at once.

*Waits.* Each blocking call ends by its answer or by a failure. `FailsWhen(cause)`
says that the failure comes free when its cause is there (the peer closed the
connection, nobody will connect) and costs a fault otherwise (a timeout while the
peer is merely slow). So a timeout that races a late answer is a behaviour of the
model wherever the code has a timeout.

*CoolSocket* is a submodule that the repository does not contain. From its use: a
reply on a closed connection throws, `receive` returns what the peer sent before it
closed and throws afterwards, an empty message is possible (`SeamlessServer.cpp:70`).

*Merged steps.* A reply and the update that follows it are one step when no other
thread can tell them apart. The handshake on its own connection
(`SeamlessClient.cpp:60-82`) is one step with two outcomes. `ErrorIgnored` models
what the client does with the error replies of the server: the server writes the
error under the key `flagGroupExists` (`SeamlessServer.cpp:197,216`), the client
looks for the key `flag` (`SeamlessClient.cpp:167-169`), so it writes the row back
as it was.

*Attempts.* `m_attemptsLeft` is tested before the recursive call of `run()` and
decremented after it, so each level sees the value 2: `AttemptsLeft` is a constant.

*The ring buffer.* `buffer`, `in`, `out`, `capacity` are the members of
`CircleBuffer`; `queue` and `handed` are history: the messages stored and not yet
taken, and the bytes that the last `pop` of each consumer copied. The lock is held
while a producer is at "write" or a consumer at "clear"; a critical section is cut
in two where another thread can see the half of it without the lock, which is the
length of the message in front: `PushLength` makes it visible, `PopCopy` clears
it. `PopPeek` is that read; a `pop` that reads 0 changes nothing and is left out. A
wait on a condition variable is a guard: the condition is tested under the lock
and every change of what it reads is followed by `notify_all`. `pop` returns a
pointer to a local array; what a caller sees through it is undefined, and the
properties are about the bytes before it returns.

*The database.* `AccessDatabase` keeps a table as a sequence of records, because no table
has a key and `insert` can store a row twice. A selection is a table and the values of some
fields, as `SqlSelection` is. `gDbSignal` executes each call on the main thread; so in
`TransferRequests` and `Desktop` a call is a step and two calls in a row are two, except
where the module's comment says that nothing can come between. A transaction is a saved
database (`rollback`) that a crash brings back; while one is open a second is refused: the
offer that needed it inserts nothing and asks nobody (`CommunicationServer.cpp:148`), the
addition of files commits the other's (`FileAdditionProgressDialog.cpp:95`).

*Offers.* `request[k]` is the thread of the k-th `TransferRequestProgressDialog`; its `pc`
names the call it makes next, `todo`, `passed` and `failed` are the lists of the code.
`offer[k][r]` is the thread of the receiver that takes the offer in, and afterwards the
thread that answers; `call` and `response` are the two connections. `listed` is how many files
the request of a dialog to a device lists: an interruption while the list is put together cuts
it short, and the request is sent all the same (`PutTogether`,
`TransferRequestProgressDialog.cpp:106`). This program writes the list as an array and reads it
as a text (`CommunicationServer.cpp:102-103`), so that between two desktop programs every list
is read as an empty one: `Parsed`, with the form of the list in the plan. The receiver says yes,
inserts nothing and asks nobody (`"dropped"`); `requests_array` shows it. Lists that are read are
texts, from or to another program that is otherwise like this one; what the properties say of rows
at the receiver is about them. `count` is how many files a thread at the receiver has read, and
`counts` all such numbers at a device. `Commit` of the sender
and the reply are ordered as in the code: the receiver replies before it inserts, the
sender inserts after it has asked everybody. `early` and `overlap` are history, and name
the cases the code does not protect: an answer or a removal while a request still
concerns the device, and two threads in the same list.

*The desktop.* `thread[k]` is a connection of a peer or a load of a device, with the copy
of the device it holds; `windows` is the stack of menus and boxes, each with its copy: a
`QMessageBox` or a `QMenu` executes an event loop, so the other threads go on while it
waits. `dialog` is the `ShowTransferDialog`: the device whose rows are shown and the
entry of its combo box, which `updateAssignees` resets separately. `client[d]` counts the
clients that have been started and are not attached yet, attached ones, and interrupted
ones. `mixed`, `doubled` and `orphaned` are history: devices of which two holders had
copies at once, devices for which a client was decided upon unseen, shares
inserted for an assignee or a device that had gone. Where these are not involved the properties hold;
where they are, the code loses a decision, starts a second client or keeps a row.

*The small programs.* In `PacketServer` a read takes any number of the bytes under way. In
`UdpPicture` `sending` is a stack of calls of `loadPicture`, because `delay` processes events
inside. Its pictures are lists of pieces, and this is exact: a datagram carries 1024 bytes but for
the last one (`Rest`), positions are multiples of 1024, and the text that `replace` puts in ends
where the datagram does, because the lowest byte of the position, which follows, is 0
(`udp_client.cpp:87,97`). A shorter last piece may come to lie over a longer one of another
picture or have blanks behind it; such an element is `Mixed` (`Put`, `Kept`), and blanks fill the
gap in front of a piece beyond the end. In `WordCounter` a step is what a thread does between two
waits under the lock. In `Equalization` histograms that nobody initialises begin with any content
of `Memory` (`ImageProcessing.cpp:82`). The brightest intensity, 1.0, which every byte 255
becomes, is counted behind the last element (line 20): where the next channel's histogram begins,
or, for the last channel, somewhere else, perhaps in a cumulated histogram (`ElementOf`,
`Increments`). Two threads then increment one element without a lock, and an increment may be
lost (`Shared`). `find_largest_sum` appends to a vector that may hold what a call before has
found (`held`). Bytes and words have their width: `BITS` for the sum made of bit operations and
for the sums of `find_largest_sum`; `UINT` for the size of a packet, which wraps (`PacketSize`).

## Runs

| run | question | result |
|---|---|---|
| `seamless_trouble` | two files (two chunks and none; a file may outgrow the largest uint), two runs, any three of: one fault, one edit of the sender's files or rows, one user action, one crash. Are Done files whole, in order and final, announcements true, Running rows attended, and does the transfer implement `FileDelivery`? | holds |
| `seamless_liveness` | fair threads, one fault and one user action: does everything that starts end, a paused transfer too, and are the retries bounded? | holds |
| `seamless_missing` | the same question with one file the sender can no longer open | `RunEnds` is violated |
| `seamless_resume` | is a resumed file of one version, when its size changed and the notice was lost? | `ResumeIsConsistent` is violated |
| `seamless_large` | does a file arrive whose size is no uint? | `LargeFileArrives` is violated |
| `ring_fifo` | two producers, one consumer, eight bytes, messages of one to three: does the array always hold the queue, and does every pop take the oldest message? | holds |
| `ring_consumers` | the same property with two consumers | `DeliversInOrder` is violated |
| `ring_stuck` | one producer and one consumer, fair: does a push return? | `PushReturns` is violated |
| `requests` | two devices asked one after the other, one device with one trouble and perhaps a second attempt, one device asked twice, lists that are complete, cut short or empty: are the rows those of a list, do outgoing rows have an assignee, is a success shown, does a refusal arrive? | holds |
| `requests_array` | does an offer arrive at another desktop program? | `OffersArrive` is violated |
| `desktop` | unknown, known and trusted devices that ask twice while one is loaded and the user opens menus, boxes and the transfer dialog: who is served, how many clients run, whom a click acts upon, what removals leave? | holds |
| `programs` | the seven small programs: framing, datagrams with two faults, turns of 2 and 3 threads, intervals over five keys, three orders, images of three pixels with any memory behind them, all small inputs of the functions | holds |

The violations are disagreements between code and documentation. In the transfer:

- `seamless_missing`: an unreadable file is asked for again and again, and the files
  after it are never asked for, because of the two keys above. The code has
  branches that would mark the row Removed or Interrupted; they are never taken.
- `seamless_resume`: the sender announces a changed size once and records it in its
  row even if the reply was lost (`SeamlessServer.cpp:115-118,130,210`). The next
  attempt continues the old file with the bytes of the new one, and calls it Done
  when the old size is reached.
- `seamless_large`: of a file of 4 GiB or more what is left of its size modulo 2^32 is received
  and marked Done, while the appdata promises to "Share large files". A file of 6 GiB, with a
  `UINT` of two chunks, is the instance.

In the offers:

- `requests_array`: the list of files is written as an array and read as a text, hence as an
  empty one. The receiver answers true before it has looked, keeps a group and an assignee
  without rows, and asks nobody; the sender inserts its rows and shows a transfer that was taken.

In the ring buffer:

- `ring_consumers`: `pop` reads the length before it takes the lock; when another
  consumer takes that message first, the length is applied to the next one.
- `ring_stuck`: `pop` waits for more than two free bytes, although it is what
  frees bytes. When a push has left at most two, both sides wait for ever.

Other disagreements have a configuration and a property each, to be run on their own. The runs
above check what does hold of the same code, and their properties do not claim what these refute:

| configuration of | property | what it shows, and what the documents say |
|---|---|---|
| `seamless_orphan`, `MCSeamlessTransfer` | `RestIsResumable` | after a crash of the receiving application a row is left Running, and neither a new transfer (`TransferUtils.cpp:100`) nor *Retry receiving* (`ShowTransferDialog.cpp:405-411`) takes it up; a double click on the status of that very row does (391-394). "Pause and resume transfers even after something went wrong" (`trebleshot.desktop.appdata.xml:13`) |
| `market_priority`, `MCPrograms` | `OldestFirst` | `saveOrder` puts a buy order in front of the resting buy orders of its price (`main.cpp:23-24`), so that the newest is taken first; sell orders are in order. "resting orders are taken from oldest to newest" (`tech_assignment_rev_3.txt:4`). `MatchingOrder` claims nothing of buyers of one price |
| `market_report`, `MCPrograms` | `TradesBalance` | a trader meets his own resting order, and the two trades are accumulated without their sides (`main.cpp:42,47`): two units on one side are reported, none on the other. "with the same side and price" (`tech_assignment_rev_3.txt:42`) |
| `add_overflow`, `MCPrograms` | `OverflowThrows` | the sum of the two smallest ints wraps to 0 and is returned (`main.cpp:22-26`). "In case when int limits are broken, throws overflow exception" (`ByteOperationSum/README.md:8`). `AddIsExact` claims nothing of such a sum |
| `sub_collection`, `MCPrograms` | `FoundIsSubCollection` | the two walks of an exchange begin at the same place (`find.h:41,51`): from 0, 1, 2, 2 and T = 4 the vector gets 1, 1, 2. "the relevant sub-collection" (`FindSubCollectionSum/README.md:5`). `LargestSumIsMadeUp` asks for numbers that were given, not for how often |
| `image_baseline`, `MCPrograms` | `AsSingleThreaded` | histograms of uninitialised memory, and the brightest intensity counted in the next channel (`ImageProcessing.cpp:20,82`), give another picture than one thread does. The result has to be that of the base version within half a percent (`MultithreadImageProcessing/README.txt:11`). `EqualizedOnce` is what holds with any memory and any image |

Several properties say what they exempt. `RestrictedAreRefused` leaves out devices of which
two holders had a copy at once: the last to write wins, whatever the user decided
(`MainWindow.cpp:433`, `NetworkDeviceLoader.cpp:118`). It also says what the code grants:
what a device that nobody knows asks for is done once (`CommunicationServer.cpp:84`).
`OneClientPerShare` leaves out starts that were decided before the first client attached,
and `MainWindow::taskStart`, which does not look. `JobReachesShown` speaks of a list of one
assignee: with several the entry *All* shifts the index by one
(`ShowTransferDialog.cpp:313`). `ListsAreWhole` and `RefusalReachesSender` leave out lists
that two threads insert at once and answers that come while the sender still asks, and
`ListsAreWhole` the list of a sender with which two things have gone wrong. Without
these exemptions (`mixed`, `doubled`, several assignees, `overlap`, `early`, `trouble`) the
properties are false of the code; no document of the repository speaks of these cases, so that
there is no violated run for them. The hazards in `PROJECT.json` name the part of each that is
covered and the part that is not.

### Bounds

`MaxLen`, `MaxInFlight`: files of up to two or three chunks and two chunks in flight are
enough for a file to be resumed in the middle, for a read to overshoot and for the sender to
fill the connection. `MaxRuns` = 2: the second run is either a retry of the first or a new
transfer that meets the session of the first. `MaxFaults`, `MaxEdits`, `MaxClicks`,
`MaxCrashes` bound what disturbs the transfer, `MaxTrouble` the sum of them. In
`seamless_trouble` `MaxLen` is 3, one chunk longer than the longest file announced, so that
a file may grow behind the announcement, and `UINT` is 3, so that the size of a file that
has grown is no uint any more; elsewhere it is 4, which no file reaches, and 2 in
`seamless_large`. The two objects have different sizes, one of them 0, and are not
symmetric: the code takes them in order. All bounds are constants, and the theorems hold for
every value of them.

The ring buffer needs no bound but the size of its array, which also bounds the
queue. In eight bytes there are up to four short messages or two long ones, every
message comes to lie across the end of the array, and the buffer fills up.

`Plans` (`requests`) and `Situations` (`desktop`) list what is known at the beginning and
how many troubles and clicks there may be; a second file makes a list that can be half
inserted, a second device makes an order, a second dialog for the same device makes the
overlap. In `desktop` two requests and a load of the same device are the fewest with two
copies besides the menu's, two jobs are what starts two clients, and two assignees are what
puts *All* into the combo box; four or five clicks open, choose, remove and toggle.

In `programs`: 4 bytes of an email and two packets give every cut of a packet and two in one read
(`PacketsAssumption`: a garbled packet is as long as it says, since behind one that is not nobody
could tell where a packet begins, and shorter than `UINT`: the size of a longer one wraps to 0 to
3 bytes, and the loop then handles the same bytes for ever, or bytes out of step, or refuses them
as malformed; the window sends none, its fields having a limit); pictures of two and three pieces,
two faults and one change of the file give gaps, overtaking and a mixed picture; 2 and 19 cores
give 2 and 3 threads (19 is taken modulo 16); five keys give nested, touching and equal intervals;
three orders give a resting pair and one that meets them; three columns on two threads give a
strip of another width; 4-bit integers have the same limits as 32-bit ones; lists of up to four
numbers and strings of up to four characters are exhaustive. Intensities are 0, 1 and `MAX_VALUE`,
memory is zeros or has one element that is not. `CoresAssumption` excludes machines with one
thread or none: the program then waits for itself, or divides by zero (`parser.cpp:83,122`).

### Fairness

`FairSpec` has weak fairness of the client's thread as a whole, of each session,
and of `InsertRows`. The code justifies it: the threads are scheduled by the
operating system, and each blocking call has a timeout (`TIMEOUT_SOCKET_DEFAULT`,
`TIMEOUT_SOCKET_DEFAULT_LARGE`). No fairness is assumed of users, network, other
programs or crashes, nor of any one outcome among several. `InsertRows` is fair
because it is the rest of a function that has already sent the request; a user who
cancels that dialog at this point is left out.

In `RingBuffer` each producer and each consumer is weakly fair once it is inside
`push` or `pop`, and a consumer calls `pop` again and again, as the loops of the test
do (`unit_test/test_circle_buff.cpp`). Nobody has to call `push`.

`RequestsSpec` has weak fairness of its threads together: while one of them can go on, one
does, as the scheduler sees to. Users answer and close when they like. `DesktopSpec` has
none and needs none: its properties are about safety. Of the small programs `UdpPicture` and
`PacketServer` have fair event loops, not a fair network, and `WordCounter` fair threads;
spurious wakeups are not fair.

## Proofs

`SeamlessTransferProofs` proves for every set of objects and every value of the bounds:

| theorem | statement |
|---|---|
| `TypeCorrect` | `Spec => []TypeOK` |
| `IInvInvariant` | `Spec => []IInv`, the inductive invariant |
| `DoneFilesAreWhole` | `Spec => []DoneIsWhole` |
| `DoneRowsAreFinal` | `Spec => DoneIsFinal` |
| `JobDoneIsAnnouncedTruly` | `Spec => []JobDoneIsTrue` |
| `RunningRowsHaveAReceiver` | `Spec => []RunningHasReceiver` |
| `TransferDelivers` | `Spec => DeliverySpec`, the refinement of `FileDelivery` |

They rest on the assumptions of `TransferState` (ids are positive, bounds are
natural numbers, announced sizes within `MaxLen`).

`DoneIsWhole` is not inductive: the step that writes Done writes it from the copy
the client holds. The invariant adds what ties the copy to the row. `HandIsOpen`:
the object the client is busy with has a row that is neither Done nor Removed, so
writing the copy back cannot undo a finished one. `HandFlag`: the copy says Done
only when the file has the size of the copy. `RunNumbered` and
`SessionHasObject`: indexes are in range where they are used. `ByeIsTrue`: a
farewell in transit that says the job is done is true, which carries
`JobDoneIsTrue` over the network to the sessions. `RunningRowsHaveAReceiver` is about all states
before the receiving application dies (`spent.deaths`), those after the sender's has died
included. Each step of the client, of a
session and of the environment is shown to preserve the conjuncts it can disturb;
`DoneIsFinal` and the refinement follow from the same invariant.

`SeamlessDataProofs` goes on from there, about what is in the files:

| theorem | statement |
|---|---|
| `StreamInvariant` | `Spec => []StreamInv` |
| `FilesAreAligned` | `Spec => []Aligned` |
| `OneVersionInvariant` | `Spec => []OneVersion` |
| `UnchangedFilesArrive` | `Spec => []UnchangedFileArrives` |
| `RetryInvariant` | `Spec => []RetryInv` |
| `RetriesBounded` | `Spec => []RetriesAreBounded` |

Why is a chunk that arrives the one after the last? The answer of the code is that request and
reply take turns, and that the size of the file is sent with the request. `StreamInv` says what
that comes to: one message is under way at most (`Awaiting`, `Silent`); a session that still tries
to connect does so for an old request, whose port is another, or for this one (`ConnectsForMe`); a
data connection is open between an accepted request and the end of the loop only (`NoStrayData`);
and the offset of the session is the length of the file and of what is under way (`Continues`),
although it came as a uint: a file that is asked for is shorter than its row says, and the row is
a uint (`Addressable`). `OneVersion` carries the size that was announced, as `ToUInt` leaves it,
and the version of the chunks along the same way. `RetryInv` counts: `Owed` is the retries behind
a run, the one it has decided on, and one for each object that can still fail; an action of the
user adds at most all objects once, anything else does not add.

Of the transfer only the liveness properties are left to TLC; this prover cannot express them.

`RingBufferProofs` proves for every size of the array, every set of messages whose
length fits into a byte and any number of producers, provided there is one consumer:

| theorem | statement |
|---|---|
| `RingInvariant` | `SingleConsumer /\ Spec => []RingInv`, the inductive invariant |
| `TypeCorrect` | `SingleConsumer /\ Spec => []TypeOK` |
| `OrderedDelivery` | `SingleConsumer /\ Spec => DeliversInOrder`, the refinement of `MessageFifo` |
| `BufferHoldsQueue` | `SingleConsumer /\ Spec => []RingHoldsQueue` |

The run checks the layout of the array with the recursive function `Offsets`. `RingInv` says
instead that offsets exist which begin behind the gap of the message being removed, grow by
length plus one, and end at the number of cells taken (`Layout`). The lemmas
`PosInjective`, `PosAdd` and `PosAround` are the arithmetic of the ring: different
offsets are different cells, and offsets add up around the end. With them
`StoredCells` shows that the two pieces of a push are one message, and
`ClearedCells` that a pop clears one message and no more. `PopInv`, the length that
was read is still in front, is where one consumer is needed; `ring_consumers` shows
what happens with two. For `BufferHoldsQueue` `Offsets`, which is
defined by recursion, is shown to be the layout. Everything about waiting is only
model-checked.

### Tables, selections and recursion

The library's induction theorems take an operator as parameter and cannot be used here.
`SelectionProofs` states induction of sets instead (`UpTo`: what holds of 0, and of the next
number whenever it holds of one, holds up to n), and proves for each recursive function that it
exists (`KeptExists`; in other modules `WalkExists`, `RemovalExists`) before it is unfolded.
`Selection` is written with such a function because the prover knows nothing of
`SelectSeq`. `AccessDatabaseProofs` has a lemma for each operation of the database: which
rows are there afterwards, which tables it leaves alone (`ChangesOnly`), and for the
cascades that nothing that refers to the removed row is left. They rest on no assumption about
the number of rows, devices or assignees.

### The desktop

`DesktopProofs` proves for every set of peers and all situations that meet
`SituationsAssumption` (devices are stored under their identities, what is shared at first is
shared with known devices, a group that comes in has one sender):

| theorem | statement |
|---|---|
| `StoredInvariant` | `DesktopSpec => []StoredInv` |
| `RemovalsLeaveNothing` | `DesktopSpec => []SharesHaveDevices` |
| `RequestsReachShown` | `DesktopSpec => []JobReachesShown` |
| `ClientsInvariant` | `DesktopSpec => []ClientsInv` |
| `StartsAreSingle` | `DesktopSpec => []OneClientPerShare` |
| `CopiesInvariant` | `DesktopSpec => []CopyInv` |
| `RefusalsStand` | `DesktopSpec => []RestrictedAreRefused` |

`StoredInv` is about the tables (`DataInv`: a device has one row, every assignee a device and
every row an assignee unless it is `orphaned`) and about the combo box, whose entry has to exist
and whose index 0 means *All* only while there are several entries. `ClientsInv` says of a
device that is not `doubled` that a thread past the test (`HasActive`) excludes a client, and
a second such thread: both between test and start is what `doubled` records. For
`RestrictedAreRefused` the invariant follows the copies. Who holds one of a device that is not
`mixed` holds the only one (`OneCopy`); what the user restricted is so in the rows and in the
copy that will be written back (`StaysRestricted`); a device that nobody knew is served once, and
from then on it is restricted or a thread is about to do it (`ServedOnce`). A thread may write
back a copy it took before the user's decision; only because it is then the second holder is the
device `mixed`, and this is why the exemption cannot be smaller.

### Offers

`TransferRequestsProofs` proves for every finite set of receivers, any number of dialogs and all
plans that meet `PlansAssumption` (devices are picked among the receivers; nobody asks
himself; a group has at least one file, as `FileAdditionProgressDialog` adds no group without,
and its files have different numbers, which `TransferUtils.cpp:61` counts up):

| theorem | statement |
|---|---|
| `RequestsInvariant` | `RequestsSpec => []TypesInv` |
| `RequestsAreTyped` | `RequestsSpec => []RequestsTypeOK` |
| `OffersInvariant` | `RequestsSpec => [](TypesInv /\ OfferedInv)` |
| `OffersHaveAssignees` | `RequestsSpec => []OutgoingHasAssignee` |
| `ListsInvariant` | `RequestsSpec => [](TypesInv /\ ReceiversInv /\ SenderListsInv)` |
| `ListsStayWhole` | `RequestsSpec => []ListsAreWhole` |

Rows are inserted long after the device has said yes, for one device after the other, inside a
transaction. So `OfferedInv` speaks of the devices that have said yes (`PassedInv`): each is an
assignee or was `early`, except the last while its share is about to be published. It says
the same of the database that a crash brings back: the transaction may have begun before an
answer removed the assignee, but then its device is `early`, and who is `early` stays so.
`TypesInv` says that a request inserts for `passed[at]`, that a device is asked while it is the
first in the list, and that a rollback is one database.

`ListsAreWhole` is true between the insertions only, and its invariant says what holds inside:
the rows of a device are exactly the first n of the list, and none is there twice
(`HoldsFirst`). At a receiver n is between the insertions the length of a list that has come
(`Settled`, over `counts`, to which every request adds what was read of it). A thread (`OfferInv`)
has found the group and inserts row n + 1 over the first n, or publishes over rows some of which
are there (`Further`), until its list is filled (`Filled`); what it found out before its
transaction remains true because it is alone (`ReceiverInv`, as long as the receiver is not in
`overlap`), and what the transaction would bring back is settled as well, so that a crash in the
middle leaves nothing of the list. At the sender (`SenderInv`) a device belongs to one request
that is not over (`Apart`), and the request inserts for it from its first row to its last
(`RowInv`, `RowsOf`). The transaction is the request's own until the first trouble
(`TransactionInv`): a crash as the first trouble rolls back to whole lists, and a crash after an
addition has ended somebody's transaction need not, which is why the property stops at
`trouble < 2`. An answer or a removal takes the list of a device as a whole; the device is
`early` if a request is at it.

### The small programs

`ProgramsProofs` proves for every value of the constants (`KeysAssumption`, `PiecesAssumption`,
`MarketAssumption`, `ImageAssumption`: types, and positive numbers of pieces and threads;
`CoresAssumption`, `TextAssumption`: at least two threads, and lines that `>>` has read;
`LengthsAssumption`, `PacketsAssumption`: lengths of at most 16 bits, ids of 32, and a garbled
packet that is as long as it says and shorter than `UINT`; nothing is assumed of the memory of
histograms or of the intensities of an image):

| theorem | statement |
|---|---|
| `MapInvariant` | `MapSpec => []MapInv`, types and a last node before each key that has one |
| `MapIsFunction` | `MapSpec => AssignsIntervals`, the refinement of `ValueOfKeys` |
| `FaultlessPictures` | `UdpSpec => []FaultlessPictureIsWhole` |
| `MarketInvariant` | `MarketSpec => []MarketInv` |
| `MarketIsNotCrossed` | `MarketSpec => []NotCrossed` |
| `MatchedInOrder` | `MarketSpec => []MatchingOrder` |
| `ImageInvariant` | `EqualizationSpec => []ImageInv` |
| `PixelsEqualizedOnce` | `EqualizationSpec => []EqualizedOnce` |
| `WordInvariant` | `WordSpec => []WordInv` |
| `EveryWordIsCounted` | `WordSpec => []CountsEveryWord` |
| `PacketsAreKept` | `PacketSpec => KeepsPackets`: `DeliversPackets`, the refinement of `PacketDelivery`, without its fairness |

*Interval map.* `upper_bound` finds the last node before a key. The specification chooses it, so
that the invariant has to say that there is one: an assignment puts its end or its beginning
where it has erased the old one (`NodesAfterAssign`), which also tells the value of
every key afterwards (`AssignAssigns`).

*Pictures.* Without a fault there is one request, or
one picture whose first pieces are in the array, the next under way and the last still to be
sent (`FaultlessInv`); the button is disabled meanwhile, and that is what keeps a second request away.

*Orders.* The walk over the resting orders is a recursive function. While the arriving order
wants something more, every order that matches and was passed has given all it has
(`WalkAfterwards`); so what is saved does not meet the best order of the other side, and
`PlaceOf` puts it where it belongs although orders in front of it have been removed. That sellers
of one price are in the order of their arrival follows because a new one is put behind them all.

*Images.* `ImageInv` says that the image is the original with those channels of pixels equalized
that a strip has been at. The histograms may hold anything, and an increment may have gone
elsewhere; when the strips begin the cumulated ones no longer change. That no step comes to a
place twice and none is left out is arithmetic: division with remainder is unique (`OneQuotient`),
a strip ends where the next one begins (`StripEnds`), and every pixel lies in one
(`PixelHasPlace`), also when there are more threads than columns and all but the last strip are
empty.

*Words.* That the words of a line are clean and have its letters is an invariant of the scan
(`ScanInv`), with one lemma for each kind of character: the word that is being read may end with a
dash only if the character before was one, so that a second dash is never added, and the one at
the end is cut off (`FinishedWord`). The invariant of the threads (`WordInv`) is a balance: what is
counted and what the waiting threads hold together have the words of the lines that have been read.
`LineGiven` proves it once for a thread's first line, its next one and its last; `SumChanges`
says that the sum over all threads changes by what the one thread gives and takes. Nothing is
assumed of who wakes whom, so that lost and spurious notifications are covered; a thread that
ends has seen the end of the file, and this is why at the end nothing is held.

*Packets.* A number written in two or four bytes is read again (`TwoBytes`, `FourBytes`), and
the five parts of a payload are found where they were put (`PartsFound`), so that `Parse`
returns what was serialized (`SerializedPacket`). The invariant (`PacketInv`) is about the
buffer and the bytes under way together, wherever they are cut: they are the packets of the
messages not yet handled, one after the other (`Framed`). A packet at the front is recognised
from as many bytes as have arrived (`PacketFound`), each turn of the loop takes it or leaves it
(`PacketTaken`), and what a read leaves is framed again (`FramedLess`). A connection that is
closing has a malformed packet at the front and takes nothing more. That all
messages that can be handled are handled in the end stays with the run.

### Only model-checked

- everything under fairness, and `RunEnds`, `PushReturns` and the like: liveness is out of this
  prover's reach;
- the fairness in `DeliversPackets`;
- `DesktopTypeOK`, because of its count of clients, and `ProgramsTypeOK`;
- `SmallAlgorithms`, which uses bit operations, so that no module that contains it can hold a
  theorem.

## Plan

Done: `SeamlessTransfer`, `RingBuffer`, `AccessDatabase`, `TransferRequests`, `Desktop` and the
seven small programs, with proofs of the safety of all of them but for what *Only
model-checked* lists.

Left: the search for a unique file name (`TransferUtils::getUniqueFileName`), when a transfer
saves files of the same name.

## Not modelled

- In `SeamlessTransfer` one client runs at a time; that two can be started is shown in
  `Desktop`, what two do to the same file is not modelled. One group and one pair of
  devices: groups share nothing but the database. Files are not rewritten while a session
  has them open.
- `SynchronizedList`: its mutex is meant for several threads, but every list that uses it
  is used on the main thread only. Its counter meets another scope only where a box executes an event loop
  inside one (`ConnectionReselectForDeviceDialog.cpp:48-54`), and a mutex is then unlocked
  that is not locked, which Qt leaves undefined; the model would have nothing to interleave.
- Presentation: texts, icons, sorting, progress figures, names, paths, MIME types, the
  storage location, drag and drop and the nickname. The search for unique file names.
- The text of SQL statements, the migration of a schema, JSON on the wire.
- Libraries: CoolSocket (an empty submodule; modelled from its use), KDNSSD, Qt's threads,
  Catch2 and the JPEG decoder. CMake files, forms and pictures have no behaviour.
- In the small programs: reading and writing of image files, the look of the windows, and
  what is undefined by the language beyond the memory of the histograms and what is counted
  behind them (the pointer to a local array that `pop` of the ring buffer returns; where bytes of
  a picture are read as signed characters).
- Some limits: ids of groups above 2^31 - 1, which a request to start a transfer does not find
  because it reads them with `toInt` (`CommunicationServer.cpp:209`); words of different lengths in
  `PermutationWords`; sums beyond an int in `TestChallenge_for_55_min`; messages of 2^32 - 4 bytes
  and more in `linux-server`.
- The transfer dialog falls back to the files of the group that belong to nobody yet when a
  device has no rows (`TransferObjectModel.cpp:128-131`); `ShownRows` are the rows of the device.
