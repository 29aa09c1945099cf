# TMSxxTC in TLA+

TMSxxTC is a management server for optical transmission racks.  It accepts TCP
connections from network managers and from device boards, speaks the glink
framing protocol with both, keeps tables of who is reachable through which
socket, and forwards, answers or executes the frames it receives.  This
directory models how bytes become frames and frames become bytes again, how
long a connection's node lives and how long the tables' socket numbers are
valid, what happens to a frame between its arrival and its copies, what is kept
in the database, and what becomes of a line that a user types.

Paths below are relative to the repository (`osnet/bipbuffer.c`), line numbers
are those of the modelled commit.

## The system

| component | state | operations | interacts with |
|---|---|---|---|
| bip buffer, `osnet/bipbuffer.c` | `struct bipbuffer`: memory, block A, block B, reservation | Reserve, Commit, DecommitBlock, DecommitMulti, DecommitTo, GetUnContiguousBlock, Clear, AllocateBuffer, FreeBuffer, searches | called by the receive path |
| receive path, `epFUI_OnRecv` in `src/ep_app.c`, `glink_FindFrame` in `protocol/glink.c` | `struct tmsxx_app`: `bb`, `lbb`, `enable_lbb`, `lbyte`, `morebyte` | receive, find a frame, hand it on, resynchronise, move to the large buffer | called by `ep_Recv`, calls `tms_Analyse` |
| connection nodes, `osnet/epollserver.c` | node list, `node_cnt`, the epoll set, `events[10]` on the worker's stack | accept, receive, remove, `ep_Connect`, `ep_Close`, `ep_StopServer` | worker thread, shell thread, callbacks of `src/ep_app.c` |
| tables, `protocol/tmsxx.c` | `sg_manage` (managers by address), `sg_devnet` (devices by frame and slot), `sg_cu_fd` | AddManage, DelManage, AddDev, RemoveDev, RemoveByLocation, lookups | written by callbacks and frame handlers |
| frame dispatch, `protocol/tmsxx.c` | three dispatch tables with a "do what" per command | `tms_Analyse`, Transmit2Dev, Transmit2Manager, SendAllManager, AckDevice, Copy2Use | calls the application's `tms_On...` |
| message codec, `protocol/tmsxx.c` | none (the frame, the receive buffer) | a builder and an analyser for each of some ninety messages | builders: shell and callbacks; analysers: dispatch |
| glink sending, `protocol/glink.c` | none (the socket) | Build, Send, SendSerial, SendHead, SendTail | worker and heartbeat thread |
| application, `src/tms_app.c` | wish to save a trace, automatic levels, modules of the racks | `tms_On...`, `ThreadConnectCU` | tables, files, shell |
| database, `src/tmsxxdb.c` | fourteen sqlite tables, of lines (routes), triggers, switches, traces | Insert, Delete, Select per table, checks of a line | shell thread, worker thread |
| shell, `shell/` | the chosen device and place, `sg_route`, reference levels | some two hundred lines of commands, lists, files | also run by the worker for command frames |

Four threads run: the main thread, one epoll worker (`ep_WorkThread`), the
heartbeat (`ThreadConnectCU`, every 10 s) and the shell.  They share the node
list, the epoll set, the nodes and the tables.  Only insertion into and removal
from the node list hold a mutex.

What makes the program hard to get right:

- **splitting**: TCP cuts frames anywhere, the ring cuts them again, and a frame
  longer than the ring takes a detour through a second buffer;
- **lifetime**: nodes are plain pointers held by epoll, by `events[]`, by the
  call in progress and by another thread, and any of several paths frees them;
- **identity**: tables hold socket numbers, which the kernel hands out again;
- **in place**: an analyser converts the frame where it lies in the receive
  buffer, before or after the same bytes are forwarded, with the next frame right
  behind;
- **statement by statement**: every function of the database opens a connection
  of its own without a busy handler, so that any statement can be refused;
- **by position**: which argument of a line ends up in which member, and which
  column in which member, is fixed only by the order of assignments;
- **progress**: one level-triggered worker serves everybody, so that a handler
  that makes no progress, or never returns, stops the server.

The correctness of each component: the bip buffer is a byte queue; the receive
path hands on exactly the correct frames, in order, and never gets stuck; no node
is used after it was freed, every admitted node is counted and every readable
socket is served; a table entry never outlives its connection; a frame reaches
whom it is for, once, as it arrived, and its reader in its own byte order; the
database holds, finds and loses exactly what was asked for; a line that is typed
reaches the device and the members it was meant for.  `PROJECT.json` lists the
main hazards, each at its line, with the properties aimed at it.

## Modules

| module | what it models |
|---|---|
| `ByteFifo` | abstract: a bounded queue of bytes |
| `BipBuffer` | `osnet/bipbuffer.c`, each function as an operator on the struct |
| `BipStream` | one bip buffer between a writer and a reader; implements `ByteFifo` |
| `BipStreamProofs`, `RecvPathProofs`, `EpollServerProofs`, `TmsRegistryProofs`, `TmsDispatchProofs`, `GlinkSendProofs` | proofs about the module of that name |
| `TmsShellProofs` | proofs about `TmsShell`, `TmsApp`, `TmsDb`, `TmsRoute` and `ListFile` |
| `Sublists` | what is left of a list when some entries stay (`Kept`) |
| `CommonLemmas` | facts on numbers, on counting, on `Kept` and on pieces of lists, for the proofs |
| `RecvPath` | `epFUI_OnRecv` and `glink_FindFrame` for one connection, with two `BipBuffer` values |
| `EpollServer` | connection nodes between the worker and the shell thread |
| `TmsRegistry` | manager and device tables while connections come and go |
| `TmsStructs` | structures of `protocol/tmsxx.h` as sequences of fields, and their byte order |
| `TmsBuild` | the builders of `protocol/tmsxx.c`: the frame each one sends |
| `TmsAnalyse` | the analysers: what each one does to the buffer |
| `TmsDispatch` | one frame at a time through `tms_Analyse`, with `TmsBuild` and `TmsAnalyse` |
| `Sqlite` | the lock on the database file |
| `TmsSchema` | the fourteen tables, and which member each function writes, reads, compares |
| `TmsDb` | the functions of `src/tmsxxdb.c` (constant `Functions`, given `tmsxxdb` of `TmsSchema`) statement by statement, beside another thread on the same tables |
| `TmsRoute` | lines of the route table: put together, checked, stored, looked up, listed, by two threads |
| `TmsCommands` | the lines a user types, and where each argument goes |
| `TmsShell` | the chosen device, devices that come and go, reference levels |
| `TmsApp` | files of traces and the table of modules, between worker and shell |
| `GlinkSend` | the pieces of frames from three threads on one descriptor |
| `ListFile` | `cf_howline`, the rows of a text file and the array they are printed from |
| `MC...` | constants for TLC; `MCTmsShell` puts the seven modules around the shell together |

Operators named `...Never`, `...Twice`, `...Open` and so on and commented as
faulty are not part of any model.  Each is the operation that follows
it with a plausible mistake; put in its place it must break the property that
`PROJECT.json` pairs it with.

### BipBuffer, BipStream, ByteFifo

The struct is a record with the fields of the C struct; the memory behind
`pBuffer` is a function.  `BipStream` has one action per function.  The rule the
header comment gives (Reserve and Commit in pairs) is the variable `pending`;
between the two the reader may release bytes, and it is not assumed that it does
not.  Compaction, clearing and allocation are taken not to happen in between,
which holds for the only caller.  Sizes go one beyond the buffer, and `Commit`
is called with the negative result of a failed `recv()`.  `ixb` turns out never
to leave 0, which the proof uses.

### RecvPath

A byte is a position in the stream; the stream knows of each position which
segment it belongs to and its offset there.  Segments are correct frames, frames
with a wrong tail, frames with a wrong length, and garbage.  So a byte that is
lost, repeated or out of order is visible without modelling content.  One call
of `epFUI_OnRecv` is a `recv()` step (`RecvToBB`, `RecvToLBB`, `RecvNoSpace`,
`RecvSpurious`) followed by passes of the loop at `_Again`, one per step
(`TooShort`, `Deliver`, `Skip`, `Incomplete`), each with all that the pass does.
The peer sends and closes at any moment.  The removal of the connection by
`ep_Recv` is part of the step that returns 0.

`FindFrame` follows `glink_FindFrame` to its off-by-ones: the search stops one
position early and keeps the last four bytes.

### EpollServer

The worker and the shell each have a program counter and the node they work on;
`events[]` is `batch`, the kernel's ready list is `ready` (level triggered, what
has been reported moves to the end).  Steps are cut where another thread can see
a difference: between adding a node and its callback, between the callback and
the test of the limit, between callback and removal.  In `ep_AddClient` and
`ep_AddEvent`, which are one step, nothing in between is visible except an
address that is not filled in yet.

A step that uses a freed node, or the missing `ptr` of one, is recorded in
`fault` and ends the behaviour: what C does then is not defined.  A freed cell is
handed out again only when no thread points to it.  That loses no behaviour that
matters: with an earlier reuse the dangling pointer would have been used in the
behaviour without reuse as well.  The lowest free cell stands for all.

What `recv()` leaves in the socket for want of space is the matter of `RecvPath`;
here a receive takes all.  The limit counts the listener and refuses at the
limit: with the 800 of the code, 798 connections.

`ep_StopServer` (the command "server stop", `StopBegin` and `StopFree`) first
takes every socket out of epoll, then frees node by node.  The first walk is one
step: what it can be interleaved with is a wait that reports a socket not taken
out yet, and `polled` keeps what was reported before.  The second walk has a
step per node, without the mutex.  `Sessions` says which commands a behaviour
may contain; "server stop" has one of its own, since the server is not started
again after it.

### TmsRegistry

`sg_manage` and `sg_devnet` with the code's index arithmetic (slot 16 is let in
and lands in the next row).  `accept()` returns the lowest free number, so numbers
are reused at once.  The worker closes in one step; the shell closes in the two
steps of `ep_Close`, callback first, socket later, and the worker may handle
frames in between.  The fields `stale` and the variables `announced`,
`reported`, `moved`, `raced` are history for the properties.  `moved` marks the case of a
device with several locations: `tms_RemoveDev` clears the first entry only, and the others
keep a descriptor that the next connection may get (`protocol/tmsxx.c:8553`).

### TmsStructs, TmsBuild, TmsAnalyse, TmsDispatch

A frame is a sequence of cells; a cell is a field with its width, its place, and
the order of its bytes: as this machine computes (`host`), as it travels
(`net`), a text, a text with exchanged halves, or never assigned.  Values are
kept where the code branches on them: addresses, places, counts, types.  `htonl`
twice is nothing, so a field that is converted once too often, or not at all,
or beyond the frame, shows.  Each builder is an operator that yields the frame it
sends, each analyser one that yields the buffer it leaves; both carry the name
of the C function.

`TmsDispatch` holds one frame (`rx`), the buffer as it arrived and as it is, and
what is left to do with it (`todo`), which `tms_Analyse` takes from the table
entry.  A step is one of these: acknowledge, copy to a device, copy to a
manager, analyse with the callback, hand on, release.  It assumes that managers
have addresses of their own (`ManagersNamed`).  Between frames
connections go, and the application reports to all managers.

Four lists name where code and rule differ, and the properties except them:
`LeftOut` (fields an analyser does not convert), `LeftAlone` (messages it does
not convert at all), `NamesSwapped` (texts whose bytes are exchanged on one side
only) and `ReadFurther` (analysers that convert a fixed number of words of
frames that may be shorter).

### Sqlite, TmsSchema, TmsDb, TmsRoute

The file's lock is that of sqlite with a rollback journal: a writer reserves, a
COMMIT waits for no one and is refused while somebody reads, and after that new
readers are kept out until the connection is closed.  No function sets a busy
handler, so a refused lock is an error at once.

`TmsSchema` says of each function which member goes into which column, comes out
of which and is compared with which; `TmsDb` runs it: open, each row's statement
by itself or within a transaction, COMMIT or ROLLBACK, close, while the other
thread takes and gives back the lock at any moment and, when the lock lets it,
stores and deletes rows of the same table (`OtherWrites`).  A call between whose
statements that happened is `disturbed`; of such a call the properties ask less.  A structure is a pattern of
bits over its members, so that a value in a wrong member or column shows for
some pattern.  The differences found are named:
`NotReadBack`, `NotCompared`, `NeverFinds` (queries that cannot succeed),
`Silent` (functions that report success whatever happened) and `AllOrNothing`
(tables written in a transaction).

`TmsRoute` is the command `route` on the table of lines.  A line is a chain of
links from the outside (0) over modules back to the outside; `sg_route` is put
together entry by entry, checked against the rows (`tmsdb_Check_route_oneline`),
stored by the transaction of `TmsDb`, or looked up link by link
(`tmsdb_Select_oneline`) and deleted by number.  Two threads do this: the shell, and
the worker, which runs any line that it receives through `sh_analyse`
(`src/tms_app.c:183-187`).  Both work on the one `sg_route` and the one table.
`user` and `call` are the command and the function of the thread whose turn it is,
`away` those of the other one; `Switch` changes the turns before any step, so that
every step of the one falls between any two of the other.  A call that stores reads
`sg_route` entry by entry, so that an edit reaches what is not stored yet (`Reread`).
Within one entry, whose eight words are copied one by one, nothing is interleaved.

Two variables keep the cases in which a line is torn.  `excused`: a line deleted from
a link in its middle on, and one of which a link was refused.  `raced`: one thread
edits the line that the other has checked, or is storing, or it stores or deletes
links that the other has looked up to delete.  The older command `insert tb_route`
and `atb` and the page lists are there, too.

### TmsCommands, TmsShell, TmsApp, GlinkSend, ListFile

`TmsCommands` lists the lines by command: which arguments it takes, under the
names the code gives them, and in which member each one lands.  `TmsShell` types them:
the device is a descriptor (`sg_sockfdid`) that outlives its connection, the
place is `sg_frameid` and `sg_slotid`; the reference levels are shared with the
worker's answer to `auto`.  `Misread`, `Unset`, `Widened` and `AtLimit` are the
lines that read another argument, hand on what was never set, ask for more than
was typed, or let in one position too many.

`TmsApp`: `sg_en_save` and `sg_file_path`, the file part by part, and the table
of modules with its 12 columns for 16 slots (`Twofold` are the slots that lie in
two rows).  `GlinkSend`: a frame goes out in pieces and each piece in as many
`send()` calls as the socket likes; `mixed` records that two threads were within
a frame at once, or that one went on here with a frame begun elsewhere, which the
code does not prevent.  `ListFile`: `cf_howline` block by block, with the array
`strout` that every block is read into and from which a row is printed.  The end of the
string is marked one byte late, so that behind each piece a byte of an earlier block,
of what the array held at first, or of what lies behind the array is printed (`stray`),
and with a piece that leaves no room for it the mark is written behind the array
(`spoiled`).  What is written there is nothing the function reads again.

## Runs

| run | checks | states | result |
|---|---|---|---|
| `bip` | `TypeOK`, `BlocksDisjoint`, `ReservationSafe`, `DecommitMultiExact`, `FreeSpaceRecoverable`, `FifoSpec` | 20 thousand | holds |
| `recv` | `DeliveredInOrder`, `NoFrameLost`, `HeldInOrder`, `LargeBufferExact`, `NoSpaceOnlyForLongFrame`, `ClosedDelivers`, `LateOnlyAfterJoin`, `FinRemoves` | 672 thousand | holds |
| `recv_stall` | `FramesThatFitAreDelivered` | | violated |
| `recv_again` | `FullLargeBufferIsReleased` | | violated |
| `registry` | `ManagerEntriesValidUnlessRaced`, `ManagersDistinct`, `AnnouncedManagersServed`, `SingleLocationDevicesValid`, `ManagerKeepsSlot` | 1.9 million | holds |
| `registry_shell` | `ManagerEntriesValid` | | violated |
| `epoll` | `LimitKept`, `OwnRemovalsClean`, `Served` | 456 thousand | holds |
| `epoll_close` | `NoUseAfterFree` | | violated |
| `dispatch` | `ForwardedAsReceived`, `ManagerReceivesOnce`, `DeviceReceivesOnce`, `AckedFirst`, `Understood`, `RefusedOnlyShortTraces`, `NeighbourUntouched`, `NeverConvertedBack` | 73 thousand | holds |
| `dispatch_overrun` | `WithinFrame` | | violated |
| `store` | `StoredAsAsked`, `DeletedAsAsked`, `FoundAsStored`, `LinesWhole`, `ListedWhole`, `SentAsTyped`, `TracesAsSaved`, `ModulesShown`, `FramesWhole`, `LineFound` | 3.2 million | holds |
| `route_race` | `CheckedHolds` | | violated |

What the violated properties show:

- `recv_stall`: a frame of more than half of the ring that starts behind other
  bytes fills the end of the ring, then the gap before it.  The bytes are not
  enough to join the blocks, the frame is not long enough for the large buffer,
  Reserve returns NULL, and the socket stays readable: the frame is never handed
  on and the worker goes round without end.  `protocol/tmsxx.h:1507` reserves the
  large buffer for longer frames.
- `recv_again`: an EAGAIN while the large buffer fills adds one to the missing
  bytes; the buffer is full and is kept, against `src/ep_app.c:268-269`.
- `registry_shell`: a frame handled between the callback and the `close()` of the
  shell's command puts the socket back into the table, against
  `protocol/tmsxx.c:8307`.
- `epoll_close`: the manager that takes the last of the six slots is closed by the
  handler of its own frame; if the same read held another frame, the loop goes on
  through the freed node, against `osnet/epollserver.c:807-808`.
- `dispatch_overrun`: `tms_AnalyseMCUtoDevice` is handed a number of bytes and
  converts as many words, so that the head of the next frame in the buffer is
  in the wrong order when its turn comes, against `protocol/tmsxx.c:638`.
- `route_race`: one thread runs `route go save` and has checked the line; a
  `route new` that the other thread runs, as the worker does for a frame with a
  command, sets the index back; the first thread then stores one entry, a link
  without the rest of its line, although the check "that it is valid"
  (`shell/cmd/cmd_tmsxx.c:2061`) was passed.  `CheckedHolds` is `LinesWhole` without
  its exception `raced`.

`store` is one run over ten subjects, of which a behaviour has one: the tables,
the lines with the other thread in between, lines put together and the older
command, the lists, the lines typed to devices, the reference levels, the
traces, the modules, the wire, and the rows of a file.  The subjects share no
variable, but for the three that are about lines, so that nothing is lost by not mixing them.  In `store` the other thread
holds the lock at any moment, writes the table of a function that runs, and triggers
while they are listed, and the command `route` is run by both threads.  `route_race`
is the subject `lines` alone, without the exception `raced`.

### Bounds

- `bip`: 6 bytes of 2 values are enough for both blocks with two bytes each and a
  gap on either side, and for a wrong byte order to show.  The theorems below make
  the bounds of `bip`, `recv`, `registry` and `epoll` unnecessary for all their
  properties but the two of liveness.
- `recv*`: a ring of 12 for 30000, frames of at least 4 bytes (40), tags of 2 (4),
  a first read of 6 (400) and later reads of 4 (40), 6 unread bytes in the socket.
  The proportions keep the code's cases: a tag cut by a read and by the ring's
  end, frames below and above half of the ring, of its length, and above it.  The
  streams are a dozen sequences of three to five segments, chosen so that every
  branch of `FindFrame` and of the loop is reached at every alignment; the cuts
  are all enumerated.  EAGAIN happens at most once (`MAXSPURIOUS`).
- `registry*`: 4 sockets and 3 managers' slots of 6 (2 in `registry_shell`), so that the
  table overfills and numbers return at once; one frame of two slots, and the
  extra row; two addresses, which managers may share.
- `epoll*`: refusal at 3, so that one connection is at rest, one is being
  accepted, one is being connected, and one cell can be freed but still be in
  `events[2]`.  One connection waits for `accept()`, one or two frames per read.
  A behaviour has `connect` and `close`, or `server stop` (`Sessions`).
- `dispatch*`: two managers and one device; one place with a device and one outside of the table; lists of
  no and of two entries; traces of no sample and event, of 10 and 11 samples
  (either side of the least length), of an event alone, and longer than
  `OTDR_SAMPLE` 12 (32000) and `OTDR_EVENT_MAX` 4, where the builder cuts.  Every
  message the library builds or analyses is sent from every peer.
- `store`, tables: two rows, numbers up to 3, so that a number is used again; the
  patterns all 0, all 1 and alternating distinguish neighbours; a mask names nothing,
  one member at a time, or two of which the code forgets one.  Lines, by two
  threads: room for 3 entries (16), two modules of which one comes first, and lines of both or of either, a line begins
  to be stored with up to 3 links and numbers up to 3 (`FewLinks`), so that a line taken away
  leaves its numbers to the next one while the other thread still holds them, and 4 links when
  both store at once.  One of three links is torn as soon as one entry is stored or deleted
  alone.  Of a torn table nothing is asked any more.  Drafts: one module, with
  `insert tb_route`, stale entries of equal ends, and locks that the other thread takes for
  other tables.
  What the other thread makes of a table before a call has begun, the call's own thread
  could have made of it, and two writes between the same two statements are as one: both
  are left out (`OtherWrote`).
  Lists: lines of one module, two at a time, numbers up to 6, pages of one row (10): a line
  that goes while it is listed, and one that is stored before, behind and within the page;
  triggers, written by the other thread while a page is read.  One thread lists at a time,
  since both would note what they show in the same two variables, and one at a time stores
  or takes away (`OneStores`).  Devices: two connections on
  two descriptors, two places, one line at a time.  Levels: 3 and 4 entries for
  8 and 6.  Traces: two files, two traces of different lengths.  Modules: 2 frames,
  rows of 2, 3 slots, for 16, 12 and 16, one or two modules in a report.  Wire: data of 0, 1 and 3 units, 8 units
  in the socket; what a peer with a mixed stream gets is not kept.  Files: up to 7
  characters, rows 0 to 4, blocks of 2 (10), an array that holds 3 characters at first
  (19) and shows 5 at a time (1024): a row is shorter than a block, than what the array
  held, than the array, just as long as each of them, and longer.

### Fairness

- `RecvPath`: weak fairness of `OnRecv`.  The socket is level triggered, and the
  worker calls `epoll_wait` again as soon as it is through.  The peer owes
  nothing.  `FinRemoves` needs streams without the stalling frames of
  `recv_stall`, and EAGAIN only for the ring.
- `EpollServer`: weak fairness of the worker's and of the shell's steps, for the
  scheduler runs both threads.  It assumes that every handler ends;
  `glink_SendSerial`, which repeats `send()` on EAGAIN without bound, can break
  that assumption and is listed as a hazard.
- `TmsDispatch` and the modules around the shell state safety only: a frame is
  handled in a fixed number of steps, and a command ends with its last statement.
- Deadlock is not checked for `RecvPath` and `EpollServer`: a removed connection
  and a silent peer, or a fault, are proper ends.

## Proofs

Seven modules hold the theorems about eleven parts of the system, each for all values of the
constants that the named assumption admits.  The model-checked runs above check
the same definitions on one small value.

| module | theorem | states |
|---|---|---|
| `BipStreamProofs` | `TypeCorrect` | `Spec => []TypeOK` |
| | `BlocksAlwaysDisjoint` | `Spec => []BlocksDisjoint` |
| | `ReservationsSafe` | `Spec => []ReservationSafe` |
| | `DecommitsExactly` | `Spec => []DecommitMultiExact` |
| | `FreeSpaceComesBack` | `Spec => []FreeSpaceRecoverable` |
| | `ImplementsFifo` | `Spec => FifoSpec` |
| `RecvPathProofs` | `BytesInOrder` | `Spec => []HeldInOrder` |
| | `LargeBufferCounted` | `Spec => []LargeBufferExact` |
| | `NoSpaceOnlyForLong` | `Spec => []NoSpaceOnlyForLongFrame` |
| | `FramesInOrder` | `Spec => []DeliveredInOrder` |
| | `FramesKept` | `Spec => []NoFrameLost` |
| | `ClosedComplete` | `Spec => []ClosedDelivers` |
| | `LateOnlyJoined` | `Spec => LateOnlyAfterJoin` |
| `TmsRegistryProofs` | `NoManagerTwice` | `Spec => []ManagersDistinct` |
| | `ManagersValid` | `Spec => []ManagerEntriesValidUnlessRaced` |
| | `ManagersServed` | `Spec => []AnnouncedManagersServed` |
| | `DevicesValid` | `Spec => []SingleLocationDevicesValid` |
| | `SlotsKept` | `Spec => ManagerKeepsSlot` |
| `EpollServerProofs` | `ConnectionLimit` | `Spec => []LimitKept` |
| | `RemovedForGood` | `Spec => []OwnRemovalsClean` |
| `GlinkSendProofs` | `FramesAreWhole` | `SendSpec => []FramesWhole` |
| `TmsDispatchProofs` | `ForwardedIsAsReceived` | `Spec => []ForwardedAsReceived` |
| | `AcknowledgedFirst` | `Spec => []AckedFirst` |
| | `DeviceGetsOne` | `Spec => []DeviceReceivesOnce` |
| | `ManagersGetOne` | `Spec => []ManagerReceivesOnce` |
| `TmsShellProofs` | `TracesSaved` | `TraceSpec => []TracesAsSaved` |
| | `ModulesAreShown` | `ModuleSpec => []ModulesShown` |
| | `RowsStored` | `Spec => []StoredAsAsked` (of `TmsDb`) |
| | `RowsDeleted` | `Spec => []DeletedAsAsked` (of `TmsDb`) |
| | `RowsSelected` | `Spec => []FoundAsStored` (of `TmsDb`) |
| | `LinesAreWhole` | `RouteSpec => []LinesWhole` |
| | `ListsAreWhole` | `RouteSpec => []ListedWhole` |
| | `TriggerListsAreWhole` | `TriggerSpec => []ListedWhole` |
| | `RowsFound` | `FileSpec => []LineFound` |
| | `LinesAreSentAsTyped` | `ShellSpec => []SentAsTyped` |

Each module has one lemma per operation, one per action, and one that puts the
actions together.  The first four also prove their type invariant as a theorem.

**`BipStreamProofs`.**  Assumed (`BufferAssumption`): the length is positive, and
the zero of fresh memory is a byte.  That a commit keeps the blocks apart depends on
the reservation it commits, and the reservation on the shape of the blocks; the
inductive invariant `IInv` is their conjunction.  One lemma per operation of
`BipBuffer` says what it does to the type, to the blocks and to an outstanding
reservation.  The refinement, and `DecommitsExactly`, rest on a lemma per
operation about `Contents`: a commit extends it, a release cuts it at the front,
compaction and promotion of B leave it alone.

**`RecvPathProofs`.**  Assumed (`RecvAssumption`): every stream is cut into
segments one behind the other (`Segmented`); a tag fits in the least frame, a
receive of either size fits in the ring behind an incomplete head, and the ring
holds at least two least frames.  The code's sizes are 30000 for the ring, 40 for
the least frame and the later reads, 4 for a tag and 400 for a first read.  None of
the properties is inductive.  What carries them is the position of the oldest
byte that is still held (`Low` for both buffers, `Base` for the ring):

- `BytesOK`: each buffer holds consecutive positions of the stream, the large
  buffer those before the ring's, the last one the byte received last;
- `FillingOK`: while the large buffer is filled the ring is empty, the first byte
  is the first of a packet as long as the buffer, and `lbyte` is the room left in
  it, or more by at most the EAGAINs met;
- `FullOK`: once full it has become `bb`, holds that one packet, and is handled
  before the next receive;
- `RingOK`, `WaitOK`: a block B exists only behind a block A that is too short to
  be looked at or starts a packet that has not arrived whole (`Opens`).  So
  the loop at `_Again` never looks for a tag in A while the rest of a frame lies
  in B, except at the frame whose length it knows;
- `ReleasedOK`: every frame with a byte at or before `Low` was handed on, and
  none with a byte behind it was;
- `EndOK`: at the end of the stream nothing is left in the socket, and what is
  left in the ring is no complete frame.

The hardest lemmas are about `glink_FindFrame`: what it takes for a packet begins
at the first byte of a segment, what it skips holds no correct frame, and its last
four bytes, which it keeps, can only be the beginning of one.

**`TmsRegistryProofs`.**  Assumed (`RegistryAssumption`): sockets and addresses
are positive, tables have at least one place.  `IInv` says besides the types that the last slot
of `sg_manage` is always free again after a step (whoever takes it is closed by
the same step), that an entry names a connection that is open and not being
closed, that an announced connection is in the table, and that a device entry is
the only one of its connection at a place that `tms_RemoveDev` searches.  The
history variable `raced` weakens exactly those parts that `registry_shell` refutes, and
`moved` those that do not hold of a device with several locations.

**`EpollServerProofs`.**  Assumed (`ServerAssumption`): cells are positive numbers,
`LIMIT` is at least 2.  The listener counts (`ep_Listen`), so that with a limit
of 1 nothing would ever be admitted; the code has 800.  `node_cnt` is the
cardinality of the set of live cells, and an admission under way accounts for each
node beyond the limit.  That no thread meets a node of its own removal needs that
epoll reports a socket once (`ListsOK`) and that the node a worker is busy with is
not in the rest of `events[]` (`WorkerHolds`).  What the other thread, or the
frame's own handler, has freed is not excluded: that is `epoll_close`.

**`GlinkSendProofs`.**  Assumed (`SendAssumption`): sizes are natural numbers, a
socket has room for a unit.  `FramesWhole` says nothing of the unit that comes
next; `Continued` adds that the one thread that is within a frame goes on right
behind the last unit on the wire, and that the wire ends with a frame if there is
none.

**`TmsDispatchProofs`.**  Whatever managers, devices, connections and messages
there are, and whatever an analyser does to the buffer: the seventy analysers are
not expanded in any proof.  `IInv` says

- `TodoOK`: what is left to do is the rest of what `tms_Analyse` planned for the
  command, each step once and in the order of `Rank`;
- `MemOK`: the buffer is as it arrived until the frame has been passed on.  Once
  a manager's copy was sent, the head names this machine as the source, so that
  the second call for an acknowledgement (`tms_OnSpAck`) is refused;
- `FrameOK`: the frame is one that a peer may send, laid out as `Filled` says;
- `AckOK`, `DeviceOK`, `ManagerOK`: of what a step sends there is nothing before
  it, and after it just what it owes.  The table that was searched stays as it is
  until the release: an analyser changes one only for commands that were not
  looked up in it;
- `ManageOK`: a slot in use holds the address that its connection writes;
- `ReportOK`: between frames, what was sent are the frames of one report, one for
  each address registered.

Assumed, besides `DispatchAssumption` (addresses of managers, positive sockets,
finitely many): `ManagersNamed`, no two managers write the same address.
`glink.h` (line 51) has sixteen addresses for at most sixteen managers; of two
with one address the second would never be found.  `FrameAssumption` and
`ReportAssumption` are about the layouts that builders produce: the words of
the head lie at two different places, in network order, with the addresses put
there, and words of the data name the place where the command is for a device.
Both can be computed for each message but not proved, as `Lay` and `Conv` fold
over its fields; TLC evaluates them for every message of the run.

**`TmsShellProofs`.**  Assumed (`AppAssumption`): traces have numbers of samples
and of events, tables have frames, a row and slots, and the last slot of a frame
is at most in the row behind it.  For traces, `TraceIInv` follows a name from the
line typed to the file: what nobody writes is the whole trace saved there
(`KeptOK`), what the worker writes is the beginning of one (`SavingOK`), what the
shell opened is still that long and the same unless the worker began anew
(`LoadingOK`), and between the switch and the name either nothing is being saved
or nothing counts as asked for (`AskedOK`).  `LayoutIs` shows that the two heads lie
where `cmd_otdr` computes its pointers.  For modules, a cell to which the last
report has entries holds the last of them, and a cell holds only what belongs
there; `OnePlace` is the arithmetic of rows that are shorter than a frame: two
places share a cell only if one of them is `Twofold`.  `TraceSpec` and
`ModuleSpec` are the steps that `MCTmsShell` takes for its subjects `traces` and
`modules`.

For the database, assumed (`DbAssumption`): the tables are those of
`tmsdb_CheckDb`.  And `SchemaAssumption`, what the three properties take from the
texts of the statements: a function that inserts uses a transaction, goes on after
an error or stops, by the table's group (`AllOrNothing`, `Silent`, the others); one
that deletes compares each member it can be asked for with the column that this
member is stored in, and without a condition does what its table's case says; one
that selects compares and reads each member in the column it is stored in, except
for the members that `LeftOut`, `Instead`, `NotReadBack` and `InItsColumn` name,
where the code does not.
These are constants of the code, and TLC evaluates the assumption for all the
functions of `TmsSchema`; rows, lists, conditions, the number of rows and whatever
the other thread does to the lock and to the table are left general.  `DbIInv` says of a running call:

- in a transaction nothing is stored, the table is as the first statement found it,
  since the lock keeps the other thread from writing (so that `before` is what is left when the lock is refused or the COMMIT fails),
  and the rows it works on are that table with the entries inserted so far behind
  it (`Grown`), or without the rows asked for so far (`Without`);
- with statements of their own, unless the call is disturbed, the table itself has grown
  by the entries so far, or, where the function goes on after an error, by entries from rising places of
  the list (`GrownBySome`);
- the lock is held only between the first statement of a transaction and its end,
  and `close`;
- rows rise by their numbers (`RowsOK`), and no other table changes.

What is stored is compared by position, what is left after deleting as a set of
rows: `SameRows` shows that two tables in the order of their numbers with the same
rows are equal, so that the rows which a list of statements leaves one after the
other are the ones that the property picks out of the first table at once.
`MeetsIsAsked` turns the text's comparison of columns into the comparison of members
that was asked for, from `SchemaAssumption`.

For what a function finds, `SelectIInv` says that a call that selects was asked
properly, and that what it has found is `Hits`.  `HitsAre` says which rows those are:
the ones of the table, in its order, that meet what the function compares
(`MeetsWhatIsCompared`), of which a page takes a piece (`PieceIs`).  `FilledAsStored` says that a structure filled from a row has
the row's members.

For lines, assumed (`RouteAssumption`, `RouteFunctions`): modules are positive
numbers, so that none is the outside; `sg_route` has room for two entries; and the
command calls a function that inserts, one that deletes and can be asked for a number,
and one that selects, all of the table of lines.  How many modules there are, how
long a line or the table gets, which of the statements the lock refuses, and how the
steps of the two threads fall between each other is left
general.  `RouteSpec` has the steps that `MCTmsShell` takes for its subjects `lines`,
`drafts` and `lists`.  `LinesWhole` is not
inductive: whether the table stays balanced when a call ends depends on what was checked
before the call that stores began, and on the links that were looked up before the
call that deletes.
What is needed of one command and its function is `OwnIInv`, the parts of `DbIInv` and:

- a list that is being stored leads from the outside to the outside (`IsLine`), from
  the check that the command made before it looked for the first module, as long as
  nothing `raced`;
- the links looked up so far are rows of the table, each the first one that begins
  where the one before it ends (`IsWalk`), while the lock is held for the first
  statement and not for a call (`Held`);
- what a delete leaves when it is through (`Leaving`) has as many links that end at a
  module as begin there, unless that command is `excused` or `raced`;
- so has the table itself, whatever runs.

`RouteIInv` asks the same of the command and the function of the other thread
(`AwayOK`), against the same table and the same `sg_route`, and that not both hold a
lock to write with (`LocksOK`).  With it a turn changes by exchanging the two parts, and
the proof of each action has two halves: what it does to its own thread's part, and what
it leaves of the other's.  A look-up holds the lock of a reader, so that no
COMMIT of the other thread gets through while a line is walked; a transaction that has
begun keeps the table; and between a look-up and the first statement that deletes,
nothing does, which is where `raced` comes from.

In a line, the link before each that begins at a module ends there, which counts
both alike (`ChainBalanced`); `LineStored` adds it to the table, whose numbers are other
ones, and `WalkDeleted` takes it away.  For the second the links have to differ: as each
is the first one of its place, a link met twice would be followed by the same
links for ever, and the outside never be reached (`WalkIsChain`).

For the lists that the shell shows page by page, assumed besides (`ListFunctions`):
the two commands call a function that selects a page of lines and of triggers.
`ListedWhole` says nothing of a page in progress.  `ListIInv` does, for whichever of the
two threads lists:

- the numbers shown rise, up to the place that the list has got to (`ListOK`);
- every row to show in the list's range was shown, or was stored while the list
  was under way (`Covered`): behind the place it has got to, which is noted as `fresh` by
  the step that stores, or while a page is read, noted as `late`;
- the function is asked for what the list shows (`PageAsked`), and for a next page
  for the numbers behind the last one shown;
- what it has found (`PageFound`) are all rows there are to show but the `late` ones, up
  to the last one found, from the first one found or, for a next page, from the last one
  shown.  Rows that go in the meantime only make this easier (`PageKept`).

A step that stores or deletes, by either thread, adds only rows that it notes (`NotedIs`),
and takes none from what has been shown (`ListWritten`); a page that is shown takes the
list on to its last row, with what was stored meanwhile as `fresh` (`ListGrows`).  `TriggerIInv` joins `ListIInv`
to `DbIInv` for `TriggerSpec`, the steps that `MCTmsShell` takes for its subject
`lists` on the table of triggers; for lines `RouteIInv` is joined to it.

For the rows of a file, assumed (`FileAssumption`): files are lists of characters and
line feeds; a block is shorter than what the array holds at first, and that shorter than
the array, as 10, 19 and 1024 are.  Files, rows and the three sizes are of any length.
`FileIInv` follows the three readings:

- while the start is looked for, the line feeds before the place read are those
  asked for but the ones still to go (`StartOK`);
- the start is then just behind line feed number `asked - 1` (`RowBegins`);
- while the end is looked for, no line feed lies between the start and what was read
  (`EndOK`), and the end is a whole number of blocks behind the start (`LastBlock`).
  So only a last row without a line feed, that does not end with a block, is
  overshot (`BetweenMultiples`);
- what was shown is the beginning of the row (`ShowOK`).

`StrayOK` follows the array beside it: until the row is shown only the front of the array,
a block long, has changed (`StillThere`); a row shorter than a block was found by the
line feed that lies behind it in the array (`FeedThere`); and every piece but the last
fills the array with characters of the row (`FullPieces`).  From this comes which byte
is behind a piece.

`CountBlock` adds the line feeds of a block to those before it.

For the lines that are typed, assumed besides the sizes (`ShellAssumption`):
`LinesAssumption`, what the texts of nearly two hundred lines say, each a constant of
the code for which TLC evaluates it: but for the exceptions that the property names, an
argument is assigned to the member of its name, and what names a position has a
limit.  Devices, places, descriptors, the number of levels, and who comes and goes in
between are left general; `ShellSpec` joins the steps that `MCTmsShell` takes for its
subjects `devices` and `levels`.  `ShellIInv` says that the device chosen last is, while
it is connected, the one that holds the shell's descriptor, and its place, if it was
chosen with one, the shell's (`Chosen`); and that each level names its own port unless an
answer has filled it (`LevelsOK`).  Once the device has gone nothing is said of the
lines, which whoever gets its descriptor receives.

`CommonLemmas` proves what these arguments share: a set of numbers has a least
element; a set that contains 0 and each successor contains all; finite sets matched
one to one have as many elements, also when joined (`SameCount`, `CountBoth`); the entries of
`Kept(s, positions)` are those at the positions, all of them, in order
(`KeptAre`); and what `SubSeq` takes of a list, or of a piece of it, entry by entry
(`PieceIs`, `PieceIsSub`).  The first two are stated for sets because the library's theorems take a
predicate, which the provers cannot instantiate.  For the same reason `EpollServer` and
`TmsDb` use `Kept`, and `GlinkSend` functions over index sets, where a fold or
`SelectSeq` would do for TLC alone.

What stays with TLC:

- liveness under fairness (`FinRemoves`, `Served`), which the prover does not
  handle;
- `Understood`, `RefusedOnlyShortTraces`, `NeighbourUntouched` and
  `NeverConvertedBack` of `TmsDispatch`: they compare some ninety pairs of
  builders and analysers word by word.  The layouts are constants of the code, so
  that TLC covers the cases themselves, and they are computed by folds over the
  fields of a message, which would need induction over data.

## Not modelled

- `tms_SetDoWhat` and all else that only builds with `_MANAGE` have;
  `tms_RetOTDRCycle`, and lines 2179 to 2835 of `shell/cmd/cmd_tmsxx.c`, which are
  not compiled; the command `im`, whose lines nothing reaches;
  `tmsdb_Check_route_multiline` and the searches of `osnet/bipbuffer.c`, which
  have no caller;
- `ep_Release`, a server started a second time, the unlocked list walk of
  `ep_Close`, `ep_Ergodic`, TCP keep-alive options, errors of `epoll_ctl`;
- in the receive path: errors of `recv()` other than EAGAIN, and lengths in a
  frame's head beyond the range of an int;
- counts in a frame that its length does not cover: every builder sends counts that
  fit, and the checks of most analysers are looser than the frame;
- values of fields beyond those the code branches on; what is printed, prompts,
  the keyboard, lookup and abbreviation of commands, argument splitting;
- `update com refurbish` (`AnalyseComposition`, `shell/cmd/cmd_tmsxx.c:4661-4684`), which
  enters places with the descriptor -1, is an action of `TmsRegistry` (`Composition`)
  only: the devices of `TmsShell` and `TmsDispatch` do not meet it, and no line is sent
  to such a place there;
- races of two threads within one entry of `sg_route`, whose eight words are written one
  by one, and of one thread's reference levels and chosen device with another thread's
  lines of the shell: `TmsRoute` and `TmsDb` have the lines that the worker runs, the
  other modules around the shell only its callbacks;
- `tms_OnSetIPAddress`, which sets addresses by system calls; callbacks that
  only show what they were given;
- options, md5, board utilities, examples.

Hazards seen while modelling that no model reaches, or no property asks about:

- head, data and tail of two frames interleave when the worker and the heartbeat send
  to one descriptor (`protocol/glink.c:160`): `GlinkSend` has these steps and records
  them as `mixed`, and `FramesWhole` excepts the streams in which they occurred, since
  the code does not prevent them and no doc says that it does;
- leaks: `epFUI_OnClose` and a refused connection keep the application's ring,
  `FreeSocketStruct` keeps the large buffer (`src/ep_app.c:447`, `76`),
  `tms_AlarmOPMChange` its memory (`protocol/tmsxx.c:4552`), an empty row its
  file (`shell/cmd/cmd_tmsxx.c:365`);
- one byte behind an array: `TEXT_COPY_S` (`src/tmsxxdb.c:738`); an index of a level below 0 (`cmd_tmsxx.c:3951`); the
  offset of `DispOneRoute` beyond its buffer (`cmd_tmsxx.c:5389`);
- senders whose length and bytes differ: `tms_RetTotalOPAlarm` to all managers
  (`tmsxx.c:6559`), `tms_RetTotalOPAlarmEx` (6604), `tms_RetDevProduce` (5880),
  `tms_AdjustTime` (7585), and answers under another command's number (6792,
  6847);
- `ep_Recv` reads `errno` after handlers have sent (`osnet/epollserver.c:141`),
  and the worker keeps the number of the listening socket after "server stop" (488);
- a reference file that cannot be opened is read through a null pointer
  (`cmd_tmsxx.c:4427`), and is written without a look (`tmsxx.c:3695`).

## Plan

`TmsDispatch` with `RecvPath`: the frame behind one that is converted too far, which
each of the two modules sees only one side of (`NeighbourUntouched`).
