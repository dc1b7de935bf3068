# Verification of the test_server programs

The repository is a collection of small network and system programs: servers
and clients written as gtest cases, an edge-triggered echo server, a framing
protocol, and samples of signals, threads, daemons and libraries. What is hard
to test in it is concurrent: threads handed a pointer to a local variable,
descriptors shared by three processes, events that arrive once, and two test
suites kept in step by nothing but their order. This directory models those
parts in TLA+, checks them with TLC and proves theorems about them with TLAPS.

## Inventory

| part | source | state it keeps | operations | status |
|---|---|---|---|---|
| thread-per-connection server | `sample_socket/test_server.cpp` 56-79, 372-403 | local `linkage_fd`, `func_data`; a detached thread per connection | accept, store `func_data`, `pthread_create`; thread: copy, write, read, close | `ThreadServer`, `ThreadServerProofs`, `ThreadServiceProofs` |
| process-per-connection server | same file, 405-460 | descriptor tables of server, child, grandson | accept, fork, waitpid, close; child: close, fork, exit; grandson: `pthread_func`, exit | `ProcessServer`, `ProcessServerProofs` |
| epoll client | `sample_client/test_client.cpp` 40-81, 119-225 | its socket | connect, write, `epoll_wait`, read, close | `CharClient` (CHAR messages), `StringSession` (STRING) |
| epoll echo server | `sample_epoll/echo_server.cpp` | `cur_fds`, `evs[]`, epoll's ready list | `epoll_wait`, accept, read, write, close | `EpollEcho`, `EpollEchoProofs` |
| test suites in lock step | `socket_basic/server.cpp`, `socket_basic/client.cpp` | the listening socket, the current test of each | listen, accept, one message each way, close; fork and thread variants | `SocketSuite`, `SocketSuiteProofs` |
| record codecs | same files, `read_chars` ... `write_structs` | none | encode, decode | `RecordCodec`, `SmallPartsProofs` |
| sequential server | `test_server.cpp` 340-370 | one connection | accept, write, read, close | `StringSession`, `StringSessionProofs` |
| select server | `test_server.cpp` 122-222 | array of 1024 descriptors | accept, select, read, write | `SelectServer`, `SelectServerProofs` |
| select client, poll client | `test_client.cpp` 231-312 | its socket | select or poll, read, write | `PollingClients` |
| RPC framing | `protocol/rpc.h`, `rpc.cpp` | none | length of a string, length of a frame, parse, serialize | `RpcFraming`, `FrameTrip`, `SmallPartsProofs` |
| string protocol | `read_string`, `write_string`, `parse` of both programs | receive buffer, `count_used`, `total_length` | write a frame, read a stream of frames | `StringSession`, `StringSessionProofs` |
| partial I/O loops | `sample_io/test_file.cpp` | bytes left | `readn`, `writen` | `IoLoops`, `SmallPartsProofs` |
| daemon | `deamon/deamon.cpp` | three processes, the descriptors of the last | double fork, `setsid`, `chdir`, `dup2` | `Daemon`, `SmallPartsProofs` |
| mutex sample | `sample_thread/test_thread.cpp` | a struct, a mutex | create, lock, join, free, destroy | `MutexSample`, `SmallPartsProofs` |
| ironman messages | `read_message`, `write_message` | none | calls of a library that is not in the repository | no |
| signals, `test_thread2.cpp`, process, library, string and protobuf samples, build files | the other directories | none | straight-line calls of libraries | no |

How the parts interact. The servers of `sample_socket` listen on port 9922 and
the clients of `sample_client` connect to it: the accept queue, one message in
each direction, FIN and RST are all they share. Within the thread server
`thread_accept` and its threads share the descriptor table of the process and
the stack slot of `func_data`. Within the process server `fork()` copies
descriptors, so a connection and the listening socket have several holders.
`socket_basic` is a pair of programs of its own on port 55555, as is the echo
server, for which the repository has no client. No program uses timeouts, and
nothing is persisted, so there are no restarts to recover from.

What makes each part correct, and at which line it can go wrong, is listed in
`PROJECT.json` under `hazards`; the properties below are aimed at them.

## The modules

Every action is one system call (or the code between two of them), because
that is where another process or thread can step in. A message is the fact
that it was sent: the clients and servers compare no contents. Only where the
code depends on more is there more: the kind of a message in `SocketSuite`, how
many bytes of it have arrived in `StringSession` and `RecordCodec`.

**`ConnService`** is the abstract specification of an accepting server:
connections are taken in order of arrival, get at most one message and are
closed only after it. After a failed system call (`trouble = "failed"`)
connections may be dropped; after a use of memory that is undefined or
overwritten (`"broken"`) nothing is promised.

**`CharClient`** is the client side shared by the two servers of
`sample_socket`. Clients are numbered in the order in which `connect()`
completes. `Dial` is `sample_connect`, `Say` and `Hear` are the two halves of
`epoll_client`. A connection that the server closed with the client's message
unread is reset (`resets`); a client that finds a reset where it expects a
message returns -1 (`"err"`).

**`ThreadServer`** models `thread_accept` as `Accept`, `StoreFuncData`,
`PthreadCreate` and its error returns `AcceptFail`, `PthreadCreateFail`; after
the return the test program may end (`ProcessExit`). Thread `k` runs
`pthread_func` as `CopyFuncData`, `WriteMessage`, `ReadMessage`, `ReadReturn`,
`CloseLinkage`. `slot` is the one stack slot in which `func_data` of every
round lies: the code passes its address to the thread and does not wait, so
`CopyFuncData` may read what a later round stored, and after the return of
`thread_accept` any number at all. `fds` is the descriptor table; a descriptor
is a number that can be reused, and a blocked `read()` keeps the file it found
(`pinned`) whatever happens to the number. `misuse` is a history variable: it
records that an argument was overwritten before it was copied, or read from a
dead frame.

**`ProcessServer`** models `process_accept` in its three processes: `Accept`,
`Fork`, `Waitpid`, `CloseLinkage` in the server, `ChildCloseListening`,
`ChildFork`, `ChildExit` in the child, and `pthread_func` followed by
`GrandsonExit` in the grandson, with the failures of `accept()` and of both
forks. `holds` says which process has a descriptor of which connection,
`listens` which of them has the listening socket. `Copy` (fork) and `Release`
(close, exit) are the kernel's part: a socket ends with its last holder.

**`EpollEcho`** models the loop of `echo_server.cpp`: `EpollWait` takes at most
`cur_fds` of the ready descriptors into `batch`, which the loop goes through in
an order that is the kernel's; each event is one `Accept`, or one read of at
most 50 bytes (`ReadData`, `ReadEnd`) followed by a blocking write (`Write`, and
`WriteToGone`, `WriteToReset` when the client has left), between which
`replying` holds the connection. `ready` is epoll's ready list with
edge-triggered semantics, as a set: a descriptor joins it when something
arrives or when it is registered (`Wake`), and leaves it when reported, whatever
is left in its queue. At the limit of `cur_fds` the event
of the listening socket runs the code for connections, which closes it
(`CloseListening`). Clients are external: anything TCP allows.

**`SocketSuite`** models both programs of `socket_basic`. The server goes
through `ServerTests`: `Listen`, `Accept`, one message each way, the two
closes. `FailTest` is a failed `ASSERT_GT`, which returns from the test and
leaves everything open. `FORK` (B.CHAR) and `THREAD` (C.CHAR) take three
connections; the forked child falls out of the test body into the remaining
tests (`ChildNextTests`) while the parent waits for it. The client runs through
`ClientTests`. `Decode` says what each `read_` function does with a message of
another kind: `read_chars` and `read_structs` trust the lengths they find, so
the outcome may be a crash.

**`PollingClients`** is the client side of the select server. Both clients pass
a timeout of 0: `select_client` goes round its loop with whatever `select()`
allows (`Select`, `Read`, `Write`) and leaves it when neither is possible, with
the socket open and no return statement (`"left"`, then `Leave`, the end of its
process); `poll_client` calls `poll()` once and then tests the same `revents`
for ever (`"spin"`) if nothing was there. A connection is the number of
bytes in each of its two streams; a write adds a message, a read takes up to
`ReadSize` bytes and may stop inside one (`AfterRead`). A client whose
`connect()` fails has no number, here and in `CharClient`: it calls nothing
that the server or another client uses, so it is left out.

**`SelectServer`** models `select_accept`: `SelectReturns` fills `rset` and
`wset` (what is left of `rfds` and `wfds` for the two loops), then one `Accept`
or `AcceptFail`, then `ReadMessage` and `WriteMessage` entry by entry. Entry `k`
of the array is connection `k`, because connections are accepted in order and
nothing is ever removed: `del_fd` is never called. `accept()` may fail
(`AcceptFail`), always when the descriptor table is full, and leaves its
connection in the queue, which keeps `select()` from waiting. `FD_ISSET` is also
applied to the entries that hold -1; `checked` is whether the build checks the
argument (`Abort`) or looks at a bit that stands for no connection of the array
(`ReadDone`).

**`RpcFraming`** holds the functions of `protocol/rpc.cpp` as operators on a
buffer, which is what they look at: the magic number, the length in the header
and the length of the string. **`FrameTrip`** is the use made of them: allocate,
`Serialize`, lose some bytes, `GetMessageLength`, `Parse`.

**`StringSession`** models one connection of the STRING protocol: `one_accept`
against `epoll_client`, both with `write_string` and `read_string`, which are
the same text in both programs. A frame travels as bytes (`away`, then `here`)
and may arrive in pieces of any size. `got` is what the current `readn` has,
`used` and `total` are `count_used` and `total_length`; `ParseBuffer` is
`parse`, the `strncpy` of the count it leaves and the test that ends the loop. A
count below 0 is a huge length to `strncpy` (`"crashed"`). What it keeps
otherwise is a part of a header, and `strncpy` copies nothing behind a zero
byte: for the frames the assumption admits (the lowest byte of the length is not
0, and the length is below 65536) only zeros come behind one, and the copy is
exact. The code's frames have 21 and 22 bytes. `readn` and `writen` belong to
ironman and are external; what `readn` makes of `EAGAIN` is not visible in this
repository, so `again` is chosen at the beginning among the three things it
could do.

**`RecordCodec`** models the loops of `read_chars` and `read_structs` over a
message cut anywhere, of their own or the other kind. **`IoLoops`** models
`writen` and `readn` of `test_file.cpp` with transfers of any size, interrupts
and errors. **`Daemon`** models `deamon()` in its three processes with every
failing call; it ends without a return statement in the starter, so the starter
goes back to `main` or `"astray"`. **`MutexSample`** models `test_thread.cpp`.
**`SmallParts`** is their union: `part` says which of them a behaviour belongs
to.

The theorems about a component are in a module of their own beside it:
**`ThreadServerProofs`** (its own invariants) and **`ThreadServiceProofs`**
(that it implements `ConnService`), **`ProcessServerProofs`**,
**`SelectServerProofs`**, **`EpollEchoProofs`**, **`SocketSuiteProofs`**,
**`StringSessionProofs`**, and **`SmallPartsProofs`** for `FrameTrip`,
`RecordCodec`, `IoLoops`, `Daemon` and `MutexSample`.

Definitions named `..._mutant` next to an action are plausible bugs in the code
that action models; no specification uses them.

## The runs

| run | question | properties |
|---|---|---|
| `ThreadServer` | how far does the race on `func_data` reach, and is the server right without it? | `TypeOK`, `ForwardOnly`, `OwnThreadOnly`, `InTimeClientsSucceed`, `ImplementsService` |
| `ThreadServer_race` | does every client succeed, as the client's test expects? No | `EpollClientReturnsZero` (violated) |
| `ProcessServer` | is every descriptor closed where it must be, in every interleaving and failure? | `TypeOK`, `GrandsonIsConfined`, `NothingAccumulates`, `IdleClientsDelayNobody`, `ConnectionsEnd`, `ImplementsService` |
| `EpollEcho` | with arbitrary clients, can the loop block, overrun, miscount or lose an edge? | `TypeOK`, `CurFdsCounts`, `EventsFitArray`, `NeverBlocksOnInput`, `BatchEnds`, `EdgesServed` |
| `SocketSuite_one` | one client against the whole suite | `InStep`, `FailureIsSticky`, `ClientFinishes` |
| `SocketSuite_many` | two clients against the forking and threading tests | `TypeOK`, `OneAtATime` |
| `SelectServer` | does the one thread ever block, fail a client or forget one? | `TypeOK`, `NeverBlocks`, `FailureMeansServerGone`, `EveryoneAnswered`, `ReadyPollReturns` |
| `StringSession` | are frames read whole, however they arrive, and do both sides close? | `TypeOK`, `WholeFrameOrError`, `SessionEnds`, `SessionImplementsService` |
| `SmallParts` | the small parts, through every cut, failure and interleaving | `FramesAgree`, `RecordsRecovered`, `OverrunOnlyByStructs`, `TransferExact`, `StarterReturns`, `DaemonDetached`, `FreedAfterUse` |
| `SocketSuite_connect` | do the client's later connects succeed? No | `AssertConnected` (violated) |
| `SelectServer_poll` | does every poll client return 0, as its test expects? No | `PollClientReturnsZero` (violated) |
| `StringSession_wait` | does the STRING test succeed with a `readn` that waits? No | `WaitingClientReturnsZero` (violated) |

What some of the passing runs show, beyond the names of their properties:

- `EpollEcho`: a connection or bytes may stay behind without an edge, but no
  edge that is there is lost (`EdgesServed`): the next connect or the next
  message gets them on. Once the limit is reached the listening socket is
  closed and the server is deaf for good; that is what the code does, and
  `CurFdsCounts` says only that it counts it.
- `SelectServer`: what `select()` said is still true when the loops come to it,
  since no other thread reads or writes these sockets, so the blocking calls
  never stop the server; but a client beyond the descriptor table is never
  accepted (`EveryoneAnswered` is about the first `MaxFd`), `poll_client`
  returns only if the message was there at its one `poll()`
  (`ReadyPollReturns`), and a client that ends with -1 means that the server has
  gone. In a build that checks the argument of `FD_ISSET` (`Abort`) that is its
  first round, and the properties say only what the clients can still rely on.
- `StringSession`: `epoll_client` never takes a part of a frame for a frame, but
  with a `readn` that returns what it has it may run into the negative count
  (`WholeFrameOrError` says only then). With that one and with one that fails on
  `EAGAIN` both programs close (`SessionEnds`; perhaps by a crash of the client
  in the first case, with -1 from `epoll_client` in the other); the third is the
  run `StringSession_wait`.
- `SmallParts`: however a message was cut the readers stop behind the last
  record that arrived (`RecordsRecovered`; `read_structs` never advances
  `index`, so it keeps that one only), and rows of `read_chars` are too short
  for the records of `write_structs` only (`OverrunOnlyByStructs`). An interrupt
  ends `readn` early and looks like the end of the file (`TransferExact` allows
  a short count only after one).

What the violated runs show:

- `ThreadServer_race`: client 1's thread has been created but has not run when
  `thread_accept` stores connection 2 in `func_data`. Both threads serve
  connection 2; client 1 gets no message and no end of file and waits in
  `epoll_wait` for ever, although its test expects 0 (`test_client.cpp:320`).
- `SocketSuite_connect`: the server closes its listening socket at the end of
  each test (`server.cpp:326`); a client whose next `connect()` comes before the
  next `Listen()` is refused, and one that was queued is reset
  (`client.cpp:321`).
- `SelectServer_poll`: the client polls before the server has written, with a
  timeout of 0, and tests the same `revents` for ever, while the server fills
  its connection and waits; the test expects 0 (`test_client.cpp:354-355`).
- `StringSession_wait`: both frames have arrived and both sides are in a `readn`
  of 1024 bytes, which only the other's close would end; the test expects
  `epoll_client` to return 0 (`test_client.cpp:328-329`).

### Bounds

- `N = 3` connections over `MaxFd = 2` descriptors in `ThreadServer`: two
  descriptors make numbers be reused while an earlier thread still has one,
  and let the table fill up; three connections are needed for a number to pass
  from one connection to another beside a third. The race needs two.
- `N = 3` in `ProcessServer`: one connection being served, one being
  accepted, one waiting. `Backlog = 1` (5 in the code) makes the accept queue
  full with three clients.
- `EpollEcho`: `MaxFds` is the 1000 of `evs[]` and of the accept condition,
  3 in the run: the listening socket and two of three connections, so
  the limit is reached, left and reached again. A client sends up to two read
  buffers (`MaxSend = 2`, `ReadSize = 1`), so a message may be longer than what
  one read takes. `Window = 1` reply fits before a write blocks.
- `SocketSuite`: all six tests of a client run, one run against all eight
  server tests (`First = 1`), or two at once against the last two
  (`First = 7`, what `--gtest_filter` selects), which take three connections
  each.

- `SelectServer`: `N = 3` clients of either kind over `MaxFd = 2`, so the third
  is never accepted and keeps the queue nonempty; `Backlog = 0` (5 in the code)
  makes a client wait with its `connect()`. Messages have 12 and 18 bytes in the
  code, a read takes up to 100 and a connection holds thousands. In the run one
  message fills a connection (`Buf = 1`), which makes every case of readable and
  writable occur in both directions and keeps the graph of all states, on which
  liveness is checked, small; whether a read leaves something makes no
  difference to who is written to. The theorems about `NeverBlocks` and
  `FailureMeansServerGone` are for all lengths; `SelectServer_poll` has two
  clients and messages that a read takes in parts. The only limit on the
  constants is that a message fits into a connection (`Buf` is not less than the
  two lengths), without which no socket would ever be writable, and that `MaxFd`
  does not exceed 1020, what `RLIMIT_NOFILE` of 1024 leaves: `add_fd` never
  finds its array full.
- `StringSession`: strings of 1 and 0 characters make frames of 10 and 9 bytes,
  so a part may be shorter than the header, the header alone, or longer and
  not whole, as for the strings of 13 and 12 characters in the code; nothing
  depends on more. `BufferLength = 20` leaves room for a frame, as 1024 does.
- `SmallParts`: `MaximumPacketLength = 14` with strings of up to 8 characters
  lies on both sides of the limit (1024000 in the code); the record sizes are
  those of the code. `IoLoops` transfers 3 bytes behind up to 3 old ones and
  reads up to 5 (26 and 200 in the code), so the end of the file comes before
  or after the end of the buffer.

`MayFail` lets `accept()`, `fork()`, `pthread_create()`, `select()` and
`epoll_ctl()` fail at any time; the runs for safety have it on.

### Fairness

Weak fairness of the server's own steps and of each thread or process says that
the scheduler runs what can run and that `accept()` returns when a connection
waits. Failures are never owed. Clients are fair only as far as their code makes
them: `epoll_client` returns from `epoll_wait` when something has arrived, but
in `ProcessServer` a client may stay idle before it writes (that is what
`IdleClientsDelayNobody` is about), and in `EpollEcho` clients only have to read
what they were sent (a client that does not blocks the server's `write()`, and
the run assumes none does). In `SelectServer` clients are fair once they are
connected, because neither waits for anything; nobody owes a connect. `accept()`
is strongly fair there: it may fail any number of times, but not for ever while
a connection waits and the table has room (in the other servers a failure of
`accept()` ends the loop). In `StringSession` what was sent arrives, and both
processes run; the step that an `EAGAIN` loop repeats changes nothing and is
owed nothing. In `Daemon` every process runs and no call lasts but `callback()`,
which may never return. `InTimeClientsSucceed` is conditional: it speaks of the
behaviours in which no argument is lost and no call fails.

## What is proved

With TLAPS, every safety invariant the runs check and the three refinements of
`ConnService`, for every value of the constants. The only assumptions are the
named `ASSUME`s on the constants, which TLC evaluates in every run: sizes and
numbers are naturals (buffers, windows and tables not empty), switches are
Booleans, and the limits explained under "Bounds" and with `StringSession`. Each
invariant theorem has the shape `Init => IInv`, `IInv /\ [Next]_vars => IInv'`,
`IInv => Inv` with one step per action; each `IInv` was also checked with TLC on
its run's bounds. All theorems are about `Spec`, which has no fairness, so they
hold of the fair specifications as well.

**The thread server** (`ThreadServerProofs`, `ThreadServiceProofs`).

- `TypeCorrect`: `TypeOK`.
- `ForwardOnlyHolds`. `ForwardOnly` speaks of running
  threads only and is not inductive: it needs where their numbers come from.
  `ForwardInv` adds that `func_data` holds a number that denotes connection `j`
  or a later one when it was stored for `j`, and that threads exist for accepted
  connections only (`Counts`). The argument is that a number changes its
  connection only when `accept()` gives it to the next one
  (`NumbersOnlyMoveOn`), so whatever was "at least `k`" stays so (`FromOnKept`).
- `OwnThreadOnlyHolds`. `OwnInv` adds that no
  connection has two numbers (`NumbersDistinct`), that while no argument was
  lost the one thread that has not copied `func_data` yet is the one whose
  number is there (`OwnFuncData`), and that an accepted connection is without a
  number exactly when its thread is done (`OwnEnds`).
- `ServiceImplemented`: `Spec => ImplementsService`, the thread server
  implements `ConnService`. The refinement mapping calls a connection closed
  when no descriptor and no blocked `read()` has it; `OwnThreadOnly` turns that
  into "its thread is done" (`PhaseIs`), and `Served` adds that a thread past
  its write has written and one before it has not. With these, one lemma per
  actor (`ClientRefines`, `MainRefines`, `ThreadRefines`) maps every action to
  one step of the service or to none. The step that loses an argument maps to
  `Break`, after which the service promises nothing: the theorem is about the
  server up to the race on `func_data`, no further.

**The process server** (`ProcessServerProofs`).

- `TypeCorrect`, `GrandsonIsConfinedHolds`, `NothingAccumulatesHolds`. The
  invariant `ServerInv` says where every descriptor is, given where the
  processes are (`Descriptors`); that is inductive because `waitpid` lets at
  most one child exist (`Rounds`) and a grandson is forked by a child that has
  closed the listening socket (`Grandsons`). `Copies` and `Releases` say what
  `fork()` and `close()` do to the holders.
- `ServiceImplemented`, without the condition the thread server needs. A socket
  ends with its last holder, so the mapping's "closed" is about three processes;
  `PhaseIs` turns it into where the server and the grandson are, and `LastClose`
  maps a close by whoever was last to `Finish`, or to `Drop` after a failure.

**The select server** (`SelectServerProofs`).

- `TypeCorrect`, `NeverBlocksHolds`, `FailureMeansServerGoneHolds`, for any
  number of clients, any accept queue, any lengths of messages and reads, and
  any buffer that holds a message.
  `NeverBlocks` speaks of the phase that uses an answer of `select()`;
  `ReportsLast` of every phase before, since the writes come after all the
  reads. The clients' half has the same form: what a client was told holds as
  long as the server keeps its end (`PollsLast`), and `poll_client`, which
  writes unasked, writes once to a stream it has put nothing into
  (`PollsOnce`). `MinIsMember`, that the loops over the array visit members of
  their set, is derived from the least-number principle.

**The echo server** (`EpollEchoProofs`).

- `TypeCorrect`, `CurFdsCountsHolds`, `EventsFitArrayHolds`,
  `NeverBlocksOnInputHolds`. `EchoInv` adds that what epoll knows of is
  registered and readable, also while a batch is being handled and in whatever
  order (`Batches`, `Streams`): a client's step can only make more readable, and
  the server's read is the one that reads the event. `cur_fds` is a cardinality,
  so the steps that register or close a connection cite the library's facts
  about adding an element to a finite set and removing one.

**The test suites** (`SocketSuiteProofs`).

- `TypeCorrect`, `OneAtATimeHolds`, `FailureIsStickyHolds`, for any number of
  clients, any first test and any failures. `SuiteInv` adds which steps have a
  listening socket (`Listens`) and that without a failed test the open
  connection is the one the test has accepted (`OpenIsCurrent`).
- `InStepHolds`, for one run of the client against the whole suite
  (`Runs = {r}` and `First = 1` are its hypotheses, as in the run; with two
  clients, or a server that starts elsewhere, the property is false by design
  of the programs). `OneRunInv` adds how far apart the two can be while nothing
  is lost: connections made exceed those accepted by at most the one in the
  queue (`Pace`), which is the one of the client's current test.

**The string session** (`StringSessionProofs`), for strings of every length that
`StringSessionAssumption` admits.

- `TypeCorrect`, `WholeFrameOrErrorHolds`. `WholeFrameOrError` says what holds
  when `read_string` has returned. `SessionInv` adds the account of bytes that
  makes it true: until a side has parsed a frame or given up, the bytes on their
  way, in the socket, in the current `readn` and kept from earlier ones add up
  to what its peer wrote (`Streams`); the end of a stream comes behind a frame,
  because each side has written before it closes (`Ends`, `Progress`); and
  `parse` sees the whole frame unless `readn` returned a part (`Parsing`).
- `BothWaitHolds`: with a `readn` that waits for the end of the stream on both
  sides neither program ever closes: the reason for `StringSession_wait`.
- `ServiceImplemented` (`SessionImplementsService`): `one_accept` implements
  `ConnService` for its only connection. That its `write_string` never meets a
  reset, which would close without a message, follows from `Ends` and
  `Progress`.

**The small parts** (`SmallPartsProofs`).

- `FramesAgreeHolds`: `TripSpec => []FramesAgree`, for strings
  and a `MaximumPacketLength` of any natural length. `FramesAgree` says of each
  step only what its caller sees; the inductive `TripInv` adds that a frame in
  the buffer keeps its magic number, length and string and is not longer than
  the limit (`Framed`). One lemma per function states what it returns
  (`SerializedLength`, `FrameAccepted`, `FrameParsed`).
- `TransferExactHolds`: `IoSpec => []TransferExact`, for transfers and files of
  any size. `IoInv` ties `nleft` to the part of `vptr` that is in the file
  (`Written`) and the position to the part of the file that is in the buffer
  (`ReadSoFar`); `WrittenGrows` and `ReadGrows` say that adjacent parts join.
- `RecordsRecoveredHolds`, `OverrunOnlyByStructsHolds`: for every beginning of
  every message. `CodecInv` says that a reader is at the beginning of a record
  of which something has arrived, and behind the last of those when it is done;
  `RowsKept` says what the rows hold by then. `OffsetStep` and `OffsetMonotone`
  show that the closed form of `Offset` is the sum of the lengths before it.
- `DaemonDetachedHolds`, `FreedAfterUseHolds`: like `RecordCodec` these parts
  have no constants, so the theorems add the reason to what TLC has enumerated:
  where each process or thread is says what it has done (`DaemonInv`) or who
  holds the mutex and what exists (`MutexInv`).

Model-checked only is liveness and everything conditional on fairness, which is
outside this prover's reach: `InTimeClientsSucceed`, `IdleClientsDelayNobody`,
`ConnectionsEnd`, `BatchEnds`, `EdgesServed`, `ClientFinishes`,
`EveryoneAnswered`, `ReadyPollReturns`, `SessionEnds`, `StarterReturns`.

## What is left out

- Failing `socket()`, `setsockopt()`, `bind()` and `listen()` in
  `sample_listen` and in the echo server: the programs end before anything can
  happen. In `SocketSuite`, where a failing `bind()` has consequences, it is
  modelled (`ListenFail`).
- Contents, logging, addresses and wording.
- A `write_func` pointer read from a dead stack frame may crash the program at
  once; `ThreadServer` has this as `ProcessExit`, which can happen at the same
  point.
- `EINTR` and `SIGPIPE`: no program installs a signal handler beside its loops
  (`readn` and `writen` of `test_file.cpp`, which test for `EINTR`, are modelled
  with it), and the `main`s of the sample servers and clients ignore `SIGPIPE`;
  the echo server does not, and ends (`WriteToReset`).
- The -1 of `GetMessageLength` as seen by `parse` of the string protocol, which
  tests for 0 only: `write_string` is the only writer, so no frame without the
  magic number can arrive. `FrameTrip` covers the function itself.
- Descriptor sets in which the bit looked at for -1 belongs to memory behind the
  set and happens to be 1: `read_message(-1)` fails and is logged.

Not modelled, and why:

- `read_message` and `write_message`: calls of ironman, whose protocol is not in
  the repository. Where they carry the clients' messages (`SelectServer`) they
  are one message each.
- The signal sample: it blocks a signal, sends it three times and unblocks it;
  how many are delivered is the kernel's rule for standard signals, the program
  decides nothing.
- `test_thread2.cpp`: a detached thread and one atomic with static storage that
  outlives `main`; there is nothing the two could do wrong.
- The process sample (a fork and two outputs), the library sample (`dlopen`,
  `dlsym`, a call, `dlclose`, with every library instance starting afresh), the
  string samples and the protobuf and gRPC samples: straight-line calls whose
  logic is in the libraries or in generated code.
- Build files.

## Plan

1. *(done)* The two concurrent servers of `sample_socket` with their clients and
   their common abstract specification, the echo server, the two test suites;
   the theorems about the thread server.
2. *(done)* The rest of the code: the select server and its clients, the
   sequential server with the string protocol as a further implementation of
   `ConnService`, the framing, the record codecs, the I/O loops, the daemon and
   the mutex sample; the theorem about frames.
3. *(done)* Proofs of the safety invariants of every component and of the
   refinements of `ConnService` by the process server and the sequential server.
4. Left: step properties behind the liveness properties (that an event of a
   batch is handled at most once, that a round of `select_accept` never grows);
   a service that the select server implements.
