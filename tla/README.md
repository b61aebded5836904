# StreamUP in TLA+

This directory is a verification development of StreamUP (`src/StreamUPLib/StreamUP`), a
UDP-based protocol library in C++: TLA+ modules translated from its sources, TLC runs that
check them on small instances, and proofs, checked by TLAPS, that hold for every value of
the constants. `PROJECT.json` is its index: components, runs, mutants, the source lines
behind each definition, findings, hazards and theorems.

Several headers do not compile at this commit: `ConnectionIdHandler` names the class template
`Connection` without its argument, `StreamUP.h:31` assigns nothing to `localSocket`,
`acceptClientHandshake` returns values from a `void` function, `Protocol::sendPacket` calls an
undeclared name, and the StreamUP layer's slots (a pair of a pointer and a `std::mutex`) cannot
be moved, as `resize` requires. The models take the code as written wherever its meaning is
plain despite such an error, and this file says where they do not.

## The system

About 1750 lines are the project's own; the rest of the tree is the vendored Asio and a
folder of design notes. Paths below are relative to `src/StreamUPLib/StreamUP`, and `P/` is
`Protocol/include/Protocol`.

| Component | Source | State | Operations | What makes it correct |
|---|---|---|---|---|
| Connection table | `P/connection/*.h` | the map from ids to connections; each connection's id list | `getConnection`, `addNewConnection`, `getNewConnectionId`, `addConnectionId` | map and lists agree; no connection is lost; routes are stable |
| Receive path | `Protocol/test/ProtocolUsageExample.cpp`, `P/Protocol.h` | one receive array, a length, the socket | receive, report an error, `getConnectionForPacket`, `advance_time` | a peer keeps its connection; every datagram with a whole id is dispatched; time advances |
| Send packet pool | `P/packet/*.h` | free packets by class size | `addClassSize`, `getSendPacket`, `releaseSendPacket` | a packet is large enough, wastes little, has one owner; the pool stays small |
| Stream creation | `StreamUP/include/StreamUP/Connection/Connection.h` | a slot with a mutex per stream id | `createStream`, `connect` | an id is granted once and refused only if granted; no lock is left behind |
| Client handshake | `P/Protocol.h`, `P/AuthEncryptionTypes.h` | read position, negotiated lists | `acceptClientHandshake`, `ephemeralGroupRank` | reads the documented format, never past the end; picks the best group and its key |
| Protocol creation | `P/Protocol.h` | SSL context, keys, configuration | `createProtocol`, constructor | an inconsistent configuration is refused with the right error; the context reaches the object |
| Congestion control | `P/congestioncontrol/*.h` | window, threshold, stage | `onAck`, `onTimeout` | window positive and bounded; stage agrees with the threshold |
| RTT estimation | `P/rtt/*.h`, `Protocol/src/rtt/*.cpp` | estimate and variance, twice | `addSample`, `getRTO` | samples reach the values `getRTO` reads |
| Connection admission | `StreamUP/src/StreamUP.cpp`, `StreamUP/include/StreamUP/{StreamUP.h,ConnectionManager}` | id counter, limits | `createConnection` | ids are unique; the limit holds |
| Buffers | `Data/include/Data/buffer/*.h` | data, length, index | `read`, `write`, `ensure...`, `setWriteIndex` | a value read is the value written; the index stays inside as long as its users ask first |
| Stream, interface and configuration headers | `P/stream/Stream.h`, `P/congestioncontrol/CongestionControl.h`, `StreamUP/include/StreamUP/Config.h` | fields | none | |
| Design notes | `src/Obsidian` | none | none: no code implements them | |

The program that uses the library runs the event loop. The loop gives each datagram to
`Protocol::getConnectionForPacket`, which asks the connection table and hands the packet to a
`Connection` (whose `handlePacket` is empty). Outgoing packets come from the pool through
`createSendPacket` and go to a handler of the application through `sendPacket`. The StreamUP layer
is separate so far: its connections are created through `StreamUP::createConnection` and shared by
the application's threads, which is what the atomic id counter and the mutex of every stream slot are for.

What is hard in this code: the network's order, loss and duplication against one receive array
that is never cleared; two structures kept in step by hand; a packet's past deciding what a later
caller gets; threads on the same slot with exceptions at every step; unsigned and narrowing
arithmetic. `PROJECT.json` lists each place under `hazards`, with the properties that watch it.

## Modules

| Module | Models | Checked by | Proved in |
|---|---|---|---|
| `ConnectionManager` | the connection table | `MCReceiveLoop` | `ReceiveLoopProofs` |
| `ReceiveLoop` (extends `ConnectionManager`) | socket, event loop, `getConnectionForPacket` and the table together | `MCReceiveLoop` | `ReceiveLoopProofs` |
| `SendPacketPool` | the pool and what callers hold | `MCSendPath` | `SendPathProofs` |
| `BufferUtil` | the integer codecs | `MCSendPath` | `SendPathProofs` |
| `SendPath` (extends both) | the pool with the packets' contents, their writers, and the datagrams sent | `MCSendPath` | `SendPathProofs` |
| `StreamTable` | `createStream` on several threads | `MCStreamTable` | `StreamTableProofs` |
| `StreamRegistry` | what `createStream` promises: calls decided one at a time | through `StreamTable`'s refinement | `StreamTableProofs` |
| `ClientHandshake` | `acceptClientHandshake` and its reader, one message | `MCServer`, `MCClientHandshake` | `ClientHandshakeProofs` |
| `CreateProtocol` | `createProtocol` and the constructor | `MCServer`, `MCCreateProtocol` | `ServerProofs` |
| `Server` (extends `ClientHandshake`, instantiates `CreateProtocol`) | an object from its configuration to the handshakes of its clients | `MCServer` | `ServerProofs` |
| `TCPCongestionControl` | window, threshold and stage in ints of bounded width | `MCTCPCongestionControl` | `TCPCongestionControlProofs` |
| `ConnectionAdmission` | `StreamUP::createConnection` on several threads | `MCConnectionAdmission` | `ConnectionAdmissionProofs` |
| `RTTEstimator` | the estimator's two classes | `MCRTTEstimator` | |

A definition with the code's name is that function. A definition headed "Faulty variant" is not
part of the model: it is what the code would be with a plausible bug, and is used to show that the
properties notice it (`mutants`).

### ConnectionManager

`connections` is the map, total, with `nullptr` where the map has no entry. `connectionIds[c]` is
the id list of connection `c`, as a set (the code only searches it); `{}` means the object does not
exist yet, which is sound because `addNewConnection` gives it an id at once and nothing takes one
away. `drawn` is a history variable. The twelve random bytes of an id are one value of
`ConnectionId`. `RandFails` says whether `RAND_bytes` may fail: if not, an id is a fresh one (96
random bits); if so it is any id, because the array is uninitialised and the result ignored. A
call is one atomic step: nothing in the library locks the table and the example uses one thread.

### ReceiveLoop

`pc` is the place in the loop of `ProtocolUsageExample.cpp:102-132`: `"advance"` (104-114),
`"receive"` (117), `"dispatch"` (125-127), `"sleep"` (131). `buf` is the array, of which a datagram
overwrites as many bytes as it has. The packet's id is `Header`, the first `CONNECTION_ID_SIZE`
bytes of the array: `getConnectionForPacket` does not look at the length. `inbox` is the socket's
receive buffer (external): any datagram of 0 to `BufSize` bytes may arrive at any moment, which
covers loss, duplication and reordering. An error other than `would_block` is printed and falls
through to the dispatch with `buf` and `n` as they are; before the first datagram `n` is
uninitialised, `Unset` here. `log` and `repeated` are history variables. The application's own calls
(`createNewConnection`, `addConnectionId`) come between two rounds, because the loop runs on its
thread. The example's socket lives behind a null `shared_ptr` (line 45); the model is of the loop
that a valid one would run.

### SendPacketPool

`classes` are the keys of the map and `sendPackets[k]` the vector of class `k`, last element taken
first. A packet that exists is in one vector or in `held`. `Upper` is computed modulo `SizeMod`, as
`size_t` is. `margin` is a number below `SizeMod` (the one caller passes 32). `sendPacket` gives the
packet to the application's handler, which can only destroy it: the pool is private. Nothing in the
repository calls `addClassSize` or `releaseSendPacket` yet, so the model lets callers use them in
any order, with any size of `RequestSize`. `request`, `registered`, `promised` and `peak` are history variables. The contents of a packet are
left to `SendPath`, as the pool never looks at them.

### SendPath and BufferUtil

A value has an integral type, a record of its size and sign. `writeInt` is the array of its bytes, most significant
first, where the code's `>>` is a division rounded down, also of a negative value; `readInt` or-s them
together again. `ByteMod` stands for 256. `SendPath` adds to the pool the bytes of every packet and the position of its
`WriteBufferWrapper`. A packet that comes from its vector keeps both, a new one is zeroed (`GetSendPacket`). So a packet
that is reused and not rewound sends its earlier holder's bytes in front of its new ones; the code does that, and
`before` remembers them.

The writer checks nothing and `setWriteIndex` takes any int, so `Write`, `writeFromArray` and `setWriteIndex` have no
guard but that the caller holds the packet. A write that leaves the packet, or a send with a position outside of it, is
undefined behaviour: `Stray` records the packet in `strayed`, and no step follows. What keeps a caller inside is the
question `ensureWritableBytes`, which changes nothing in the program; `Ask` remembers in `room` how many bytes were
answered for. `misused` has the packets whose position was put outside by `setWriteIndex`, and the one left by a
write of more than was asked for. `Send` is the handler of `ProtocolUsageExample.cpp:29-39`, for which `Datagram` is the
first `getWriteIndex()` bytes. `before`, `written`, `room` and `misused` are history variables. A packet's address is left out:
nothing sets it.

### StreamTable and StreamRegistry

Each thread's `pc` follows `createStream`: `check` (58), `lock` (63), `test` (64), `allocate` (67),
`initialize` (68), `unlock` (69), `return`. `owner` is the mutex of every slot. `Allocate` may throw,
which leaves the pointer null; `Initialize` (a method that exists nowhere in the repository) may
throw, which leaves it set; the guard unlocks in either case. `number`, `granted` and `orphans` (the ids
whose `Initialize` threw) are history variables. `StreamRegistry` has one set
`used` of ids and decides a call in one step. `StreamTable` implements it under the mapping in
`Registry`: a stream counts as existing once its thread is past `Initialize`, so that the time
in which the pointer is set and the stream is not yet initialised is invisible to callers.

### ClientHandshake

One action per part of `acceptClientHandshake` (`P/Protocol.h:195-283`), each with its early returns. The
reader (`ReadBufferWrapper`) is its position `readIndex`; how many bytes are left is a `size_t` difference,
computed modulo `SizeMod`. A byte is a number below `ByteMod`, a `uint16` two of them. The known suites have
ids from 0x1301 on, which the model needs only as "not below `MAX_NUMBER_NEGOTIABLES`": that is
why passing the loop index to `idToCipherSuite` (line 223) finds nothing. The function is `void` and returns
values: where it returns one, `result` is that value, a bare early return is `"rejected"`, and reaching the end is
`"completed"`. `offered` is a history variable. `NumVersions`, `NumCiphers` and `HeaderFits` are the documented header
(Message Formats.md:31-34), without a position: they count two bytes for each cipher suite, which the code never reads.
Behind the header of a message that offers suites the code and the document differ, so nothing is stated of what
follows there but what the code itself relies on (`AccessesInBounds`, `BestCommonGroup`, `InsecureOnlyIfAllowed`).

### Server

`CreateProtocol` is instantiated with a program counter of its own; its step `AssignMembers` (`P/Protocol.h:156-161`)
is where the members that `ClientHandshake` reads get their values. The configuration is five booleans there, so
that a non-empty list of groups becomes some ranking here, any one. The members
`supportedEphemeralGroups` and `allowInsecureConnections` stay as they are; the other variables of a handshake are
locals of one call of `acceptClientHandshake` and are reset when it ends (`FinishClient`). Only builds without
assertions get that far: with them `AssertContext` aborts.

### TCPCongestionControl

`onAck` and `onTimeout` in any order, with any number of bytes up to `MaxBytes`. `getMSS()` exists nowhere and
is the positive constant `MSS`. An `int` sum or product above `IntMax` sets `overflowed`: the window is
then any int and nothing more is said. `acked`, `base` and `ackedAtBase` are history variables.

### CreateProtocol

`createProtocol` is one action per check, the constructor one per part: initializer list, the assertion on
`ctx`, the assertions on the arguments, the assignments. Three variables are the three `unique_ptr`s that the SSL
context passes through, because the parameter `ctx` hides the member `ctx`. `NDEBUG` is a choice of the
initial state. A configuration is five booleans: what the checks ask of it.

### ConnectionAdmission

`createConnection` of `StreamUP.cpp`: `check` (14), `draw` (18), `construct` (19), three steps of a thread with others in
between. `make_unique` may throw (the constructor sizes a vector). `numberOutgoingConnections` is declared nowhere and is
taken to be the number of connections that exist. `next_connection_id_atomic` exists only as
`ConnectionManager::nextConnectionIdAtomic`, a `fetch_add` on an atomic `uint64_t`, a number below `IdMod`.
`draws` and `raced` are history variables. `StreamUP.h` has a second `createConnection`, without a limit; it is the
draw and the construction alone.

### RTTEstimator

`base` and `derived` are the two pairs of `rtt` and `variance` that an object of `DefaultRTTEstimator` has. Times are
in 64ths of a tick, which makes the default `alpha` = 1/8 exact; the variance is rounded down. A `double` that no
constructor initialises holds any number of `Uninitialized`. `heard` is a history variable.

## Runs

| Run | Bounds | States | Shows |
|---|---|---|---|
| `receive_loop` | ids of 2 bits in 2 bytes, 4 connections, random ids distinct, 2 arrivals, 1 error, 2 application calls | 2.0 million | no connection is lost, no route changes; a peer keeps its connection; a repeated packet goes where the previous went |
| `receive_loop_live` | ids of 1 byte, random ids may repeat, 4 connections, 2 arrivals, 1 error, 1 call | 221 thousand | every arrival with a whole id is dispatched; `advance_time` keeps being called; map and lists agree; a repeated id costs exactly one connection |
| `same_id_same_connection` | 2 arrivals | violated | two packets with one unknown id get two connections |
| `routed_by_own_bytes` | 2 arrivals, 1 call | violated | a packet shorter than an id goes to the connection of the peer whose datagram came before |
| `send_path` | 2 packets, a `size_t` of 0 to 2, packets of 1 and 2 bytes asked for, margin 1, bytes of 1 bit, values of 1 byte and signed ones of 2, positions -1 to 3 | 723 thousand (symmetric) | the pool's five invariants; who asks before writing stays inside; a datagram is the bytes found in front, then what was written |
| `stream_table` | 3 threads, 2 slots, 3 ids, 3 calls | 110 thousand | an id is granted once, refused only with a reason; refinement of the registry; every call returns |
| `server` | every configuration; bytes 0 to 4; all messages up to 5 bytes, two-key messages cut off anywhere, three and four keys | 1.2 million | the two functions check the same; reads stay inside, the best common group is chosen, the documented header decides; security as configured |
| `documented_ciphers` | messages of the documented form | violated | an offered, known cipher suite is not negotiated |
| `context_asserted` | every configuration | violated | the assertion on `ctx` looks at a null pointer |
| `congestion_control` | ints up to 16, initial window 3, segment 4, acknowledgements up to 5 bytes, 30 in a row | 40 thousand | window, stage and growth; no early overflow |
| `connection_admission` | 3 threads, limit 2, ids 0 to 2, 6 calls | 19 thousand (symmetric) | ids repeat only after the counter went round; the limit holds unless two calls raced |
| `rtt_estimate` | times 1 and 2, 2 samples | violated | no sample reaches the estimate |

Why the bounds are enough to be of use. In the receive loop an id has two
bytes, so a datagram may carry none, half or all of it, and the array holds exactly an id; two
arrivals and an error make up to three packets, with two application calls a second known peer exists
that could take a route over. In `receive_loop_live` ids may repeat, so that a new connection can take the entry of
an earlier one while others compete. On the send path, one packet may be in use while the other is free or
two in one class, size 2 with margin 1 makes `Upper` wrap around, and a packet of
two bytes takes a signed value exactly, a byte and another, or neither after a reuse; positions lie in front of a packet, on each of its bytes, and beyond its end. No size of 0 is asked for: such a packet takes no byte. In the stream table, three threads may be at one
slot, or two may race for an id that a third call has failed on. In the handshake a count or a length may be zero, at its
limit, above it, or larger than what the message has left; more than three keys add only repetitions of what two keys already
do to the choice; a server returns to the same state after each client, so the run covers any number of them. In
congestion control an int is a few windows wide, so that rounding, the threshold below the initial window and
overflow in both stages are a handful of steps away. In the admission six calls take the counter of three ids twice round,
with three threads between check and construction at once. Deadlock is checked except where
the callers may just stop calling or the model stops at a bound, an overflow or a write outside of a packet (`CHECK_DEADLOCK FALSE` in the runs of
the send path, the streams, congestion control, the admission and the estimator).

Fairness. `ReceiveLoop!FairSpec` assumes weak fairness of the loop's own steps: the socket is
non-blocking (`ProtocolUsageExample.cpp:51`), so no call waits, and the thread keeps running.
Nothing is assumed of the network. `TimeKeepsAdvancing` holds because the bounds make arrivals and
errors finite: the code itself stays in the inner loop as long as one follows another without a
pause. `StreamTable!FairSpec` assumes that a thread inside `createStream` keeps running and that a
mutex that stays free is taken; it does not assume that a mutex is granted in any order, and
`EveryCallReturns` holds because other threads call finitely often (`MaxCalls`).

## Findings

The first two are at `P/Protocol.h:168`, "Returns the corresponding connection for the packet".

* `same_id_same_connection`: an unknown id makes a connection under a fresh random id. The packet's own
  id is registered nowhere, so the next packet of the same peer makes another connection.
* `routed_by_own_bytes`: twelve bytes are read whatever the packet's length. After a peer's whole datagram was found by its id,
  the example's array still holds that id; the next datagram, though it is too short for an id, goes to that peer's connection.
* `documented_ciphers` (`P/Protocol.h:223`): the loop over the cipher suites passes its index and reads nothing, so no suite
  is ever negotiated. `src/Obsidian/StreamUP/Message Formats.md:34`: "Each value is uint16 and is an id representing the
  cipher number."
* `context_asserted` (`P/Protocol.h:143`, `assert(ctx != nullptr)`): `ctx` is the parameter, from which the initializer list has
  already moved. With assertions, every configuration that `createProtocol` accepts aborts the program; without
  them, line 156 moves the null pointer into the member and frees the context.

* `rtt_estimate` (`P/rtt/RTTEstimator.h:25`): `getRTTEstimate` returns the base class's `rtt`, `addSample` changes the one that
  `DefaultRTTEstimator` declares again, and no constructor initialises the first. `src/Obsidian/StreamUP/MultiPath Functionality.md:17`:
  "The RTTEstimator and CongestionControl algorithm will provide estimates of rtt, packet loss rate, and bandwidth."

No run shows what overshooting the limit leads to in `ConnectionAdmission`: two calls that race (`StreamUP.cpp:14`) make one
connection too many, and from then on `==` is false and nothing is refused until the number is back at the limit. No text of the
repository says what the limit is to be with several threads; `LimitHoldsUnlessRaced` says exactly when it holds.

No run shows the further differences between the code's Client Hello and the documented one. The suites' bytes are
never skipped; and where the design has a single key behind the suites (Message Formats.md:35), the code reads
a count and that many keys. `HeaderDecides` is about the documented header only, and about messages that offer no suite.

## Proofs

All theorems are about the modules as TLC checks them, with constants left open.

* `RecursionLemmas` is what the proofs about recursive definitions rest on. The library states induction and recursion for
  operators, which the provers cannot instantiate; here a predicate is the set of the numbers it holds of
  (`SetInduction`) and a step is a function (`RecursionDefines`: the recursion defines a function and it obeys its
  equations). `LeastNumber`, from which both follow, comes from the library's well-foundedness of finite sets under inclusion.
* `ReceiveLoopProofs`, the table first, from `nullptr \notin Connection`. The inductive invariant `ManagerInv` is the
  type invariant (keys of the map are drawn ids) with `RecheckNeverRejects` (an entry leads to a connection
  that lists its key). It gives `RecheckIsRedundant` whatever `RAND_bytes` does.
  Under `~RandFails` a new connection never takes an entry over: `RoutingIsStable`, `NoConnectionIsLost`.
  `LossesAreRepeatedIds` needs no such assumption: by `EntriesFollow` every drawn id has an entry and no two the same
  connection, so the entries are a bijection from the drawn ids to the connections that can be found.
  Then the loop, for every id length, array and number of connections. Each of its steps is a step of the
  table or leaves it alone (`LoopUsesTable`), so what holds of the table holds inside the loop.
  `PeerKeepsConnection` is not inductive: `KnownRoutesHold` ties the past packets to the present table.
  `RepeatsAreHarmless` needs `LastHeader` as well: outside of a dispatch the array holds the last packet's id.
* `SendPathProofs`, from a finite set of packets and `margin` below `SizeMod`. What a caller may rely on
  rests on `FreePacketsInPlace` (a reused packet takes its capacity from the past) and `RegisteredServed` (why
  a registered size never needs an on-demand packet). `PoolIsBounded` counts: a packet is
  allocated only when its vector is empty, so all packets of that capacity are then in use. `PathUsesPool`: every step
  of the path is one of the pool, so these theorems hold on the path. `AskedWritesStayInside` is about a writer that
  checks nothing: unless the packet is misused, `WriterFits` has the position and what was asked for inside of the packet's capacity, for free packets too
  (a position is carried over a release), so it needs that a capacity never changes while the packet exists
  (`HandOutKeepsOthers`, `GivingAwayKeepsOthers`).
  The codec, for every `ByteMod`, size and sign: `ReadIntInvertsWriteInt`. The bytes are the digits of the value
  (`WrittenBytes`), the loop of `readInt` brings it back up to what is above its bytes (`BitsRead`, by induction over the
  loop's turns), and that is the sign and nothing else (`SignAbove`). `DatagramsReadBack` then rests on `HeldEncoded`: what the holder wrote
  lies in its packet, one value behind the other (`PositionsAscend`), from the bytes it found up to the write position, where
  the next write leaves all of it alone (`AppendValue`).
* `StreamTableProofs`, for any number of threads and streams. `OneThreadPerSlot` ties the mutex to the program
  counters, `SlotsFollow` ties what a thread has tested to the slot. They give mutual exclusion and
  `StreamIdsAreGrantedOnce`; with `StreamsExplained` (a half-made stream has a thread at work on it or is an
  orphan) `RefusalsAreJustified`; and, step by step, the refinement `TableImplementsRegistry`.
* `ClientHandshakeProofs`, for every set of messages, widths and limits. `HandshakeStaysInBounds`: every read is behind a
  check, and `EnsureMeaning` says the `size_t` check is the arithmetic one while the position is inside.
  `BestGroupIsChosen` rests on `RankIsFirstPlace`: `ephemeralGroupRank` is the first place of a group in the list.
  `SecureUnlessAllowed` needs `ResultsFollow`, which ties the result to the place it was returned from.
  `HeaderDecidesAsDocumented`: the reader, which checks and moves as it goes, finds ill-formed exactly what the documented header
  makes so. Its invariant `FollowsHeader` says that behind each list the reader stands where the header has the next one, and
  that every check so far held of the header.
* `TCPCongestionControlProofs`, for every width of int, initial window and segment. The invariant adds
  `HistoryFollows` (between timeouts the window stays at or above `base` and at or below `initCwnd + MSS * acked`);
  `GrowthBound` bounds the rounded quotient by which it grows.

* `ServerProofs`, for every set of messages, rankings and limits. `ServerInv` has the handshake's invariant, `ChecksHold`
  (how far the configuration was checked, place by place in `createProtocol` and the constructor) and `MembersFollow` (the members a
  handshake reads are the configuration's). It gives `AssertionsAreRedundant`, `RefusalsAreRight`, and, with the choice of the
  group, `ServersAreAsSecureAsConfigured`: a property of neither module alone. `ServerHandshakesAreSound` carries the handshake's
  theorems over to any number of clients, and `ServersAreCreated` says that what a server does implements `CreateProtocol`.
* `ConnectionAdmissionProofs`, for any number of threads, limit and width of the counter. `ConnectionIdsAreUnique` needs to know where
  the counter stands relative to every id in use or about to be (`Follows`), because a new id is compared with old ones across the
  wrap. `LimitHoldsWithoutRaces` needs that without a race at most one call is past its check, and has room (`RoomInv`).

Every safety property that a passing run checks is proved. Only model-checked: `WholeIdsDispatched`,
`TimeKeepsAdvancing` and `EveryCallReturns`, because TLAPS does not prove liveness under fairness.

## Plan

Done: all components of the library that have behaviour, with proofs of all but liveness.
What would come next depends on the code:

1. `Server` over `ReceiveLoop`, once the code calls `acceptClientHandshake` from its receive path (nothing calls it yet).
2. `ConnectionAdmission` with `StreamTable`: the connections that `createConnection` makes are those whose slots
   `createStream` fills, but no code reaches one from the other yet.
3. The send path with an address per packet and a caller of `releaseSendPacket`, once there is one.

## Not modelled

* `Stream.h`, `CongestionControl.h` and `Config.h` have no behaviour.
* Floating-point codecs: TLC evaluates no reals, and nothing calls them.
* `SendPacket(int)`, which narrows a `size_t` (`P/packet/SendPacket.h:21`): sizes near `INT_MAX` are out of reach of an instance.
* `StreamUP::create` and `initializeStreamUP`: the socket is assigned nothing, and the sum of the limits goes to a constructor without a
  body. `Connection::connect` of the StreamUP layer assigns two fields that nothing reads.
* The design notes (message formats beyond the Client Hello, multipath, weighted priorities) have no code.
* Asio is third-party; the one call the example makes is modelled from its use. So is the one JavaScript file of the
  tree, the minified build of a plugin of the note editor under `src/Obsidian/StreamUP/.obsidian`: it is no part of StreamUP.
