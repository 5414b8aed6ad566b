# Formal models of ubloxcfg, cfgtool and cfggui

TLA+ modules for the parts of this repository in which order, timing, buffers
and failures matter. TLC checks them on small instances. TLAPS proves, for all
sizes, the safety properties of the stream parser, the epoch collector and its
database, the map tile cache, `rxGetConfig()`, `rxSetConfig()`, the logfile
player, the receiver input and the configuration window.

    tlc -config Parser.cfg MCParser        # check a run (see "Runs")
    tlapm ParserProofs.tla                 # check the proofs

## 1. The system and its parts

`ff/` is a C/C++ library for GNSS receivers, `ubloxcfg/` knows configuration
items, `cfgtool/` is a command line tool and `cfggui/` a GUI on top of both.

| Part | State it keeps | Operations | Talks to |
|---|---|---|---|
| Stream parser `ff/ff_parser.c` | `buf`, `size`, `offs`, `tmp`, counters | `parserInit/Add/Process`, four recognisers | every reader of a stream |
| Receiver handling `ff/ff_rx.c` | port, parser, callback, abort flag | open, autobaud, poll, send, get/set config, reset | ff_port, parser, ff_ubx |
| UBX messages `ff/ff_ubx.c` | none | make messages, split a configuration into UBX-CFG-VALSET | ff_rx, cfgtool |
| Ports `ff/ff_port.c` | file descriptor, telnet state, `tnInband` | open, read, write, baudrate (serial, TCP, telnet) | ff_rx, NTRIP client |
| Epoch collector `ff/ff_epoch.c` | collected epoch, detection marks | `epochCollect` | inputs, cfgtool status |
| `Ff::Thread` | thread, `_abort`, semaphore | Start, Stop (join), Sleep, Wakeup | both inputs, map tiles, NTRIP |
| Logfile player `cfggui/input/input_logfile.cpp` | play state, command and event queue, the thread's parser, step flags | Open, Close, Play, Stop, Pause, StepEpoch, StepMsg, Seek; `_Thread`; `Loop` | GUI (callbacks), parser, log file |
| Receiver input `cfggui/input/input_receiver.cpp` | state, queues, saturation flag, two pending callbacks | Start, Stop, Send, SetBaudrate, Reset, Get/SetConfig; `_Thread`; `Loop` | GUI (callbacks), ff_rx |
| Configuration window `cfggui/gui_win_data/gui_win_data_config.cpp` | poll and set state machines, values per layer, list of changes | load, clear, edit, reference, discard, apply | receiver input |
| Epoch database `cfggui/stuff/database.cpp` | ring of epochs, indices, reference position, statistics | `AddEpoch`, `Clear`, `SetRefPos`, `ProcEpochs`, `LatestEpoch` | input thread, windows |
| Map tile cache `cfggui/stuff/maptiles.cpp` | tiles (static), request queue and threads of each map | `GetTileTex`, `_Thread`, `_Cleanup` | map windows, network, files |
| NTRIP client `cfggui/stuff/ntripclient.cpp` | connection, response | connect, read | its window, network |
| cfgtool commands | arguments, file contents | cfg2rx, rx2cfg, cfg2ubx, parse, dump, reset, status, ... | ff_rx, ff_conffile, ubloxcfg |
| ubloxcfg library | generated tables | item lookup, make and parse key-values | everything |

What is hard here:

* **byte streams** that are cut anywhere, hold garbage and damaged messages or
  inband signalling, and buffers that must be large enough for any of it;
* **two threads** (main thread with one frame after the other, input thread)
  with queues both ways, flags without locks, `join()` in the main thread, and
  readers that use what they got under a mutex after they have let go of it;
* **requests and answers** over a link that loses and delays, with retries, and
  answers that carry too little to tell which request they belong to, through
  three levels (window, input, `ff_rx`), each with its own idea of a timeout;
* **sequences of steps of which each may fail** (cfg2rx, transactions);
* **epochs** that are put together from messages of two protocols, each with its
  own idea of where an epoch begins.

PROJECT.json lists every part, modelled or not, and each hazard at its line.
For each part, what makes it correct is what its run checks (section 4).

## 2. Modules

| Module | Models | Its state and actions in the code |
|---|---|---|
| `Recognisers` | `_isUbxMessage` and the other three, `kParserFuncs` | pure operators over byte sequences: -1 = more bytes needed, 0 = not mine, n = message of n bytes. Checksums are constants, any functions. |
| `Parser` | `ff_parser.c` | `buf`, `offs`, `tot` are those of `PARSER_t` (`Len(buf) - offs` is `size`). `Add`/`AddOverflow` are `parserAdd()`; `EmitGarbage`, `EmitMessage`, `NoMessage` are the three ways `parserProcess()` returns. `wire` is the stream still to arrive; `input` and `out` are history. |
| `Framer` | abstract | A reader that knows the whole stream: at each byte it skips, takes a message, or waits. No chunks, no buffer. |
| `LogfilePlayer` | `input_logfile.cpp`, its `Ff::Thread` and the GUI's controls | Main thread: `LoopEvent`/`LoopDone` (`Loop()`), `Click`, `PushCommand`, `Open`, `Close`, `Joined`, and `OpenShared`/`Restarted`, which are `Open()` and its `Ff::Thread::Start()` when the thread runs but has closed the file. Thread: `ThreadPrepare`, `Poll`, `PopCommand`, `OpenAgain` (the second half of STOP of a compressed file), `Go`, `Process...`, `WaitRoom`, `SendMsg`, `Read`, `ThreadCleanup`, split where the code releases a mutex or the other thread can come in between. `opens`, `issued`, `lastOp`, `run`, `base`, `got`, `reopened`, `shared` are history. |
| `ReceiverService` | abstract | What `InputReceiver` promises its callers: one request of each kind at a time, executed in order, each answer to its own callback; a request to set no layer is abandoned (`Abandon`). |
| `InputReceiver` | `input_receiver.cpp`, its `Ff::Thread`, callbacks | Main thread: `LoopEvent`, `Start`/`Started`, `Stop`/`Stopped`, `GetConfig`, `SetConfig`, `Request`. Thread: `ThreadPrepare`, `Connect`, `ConnectFails`, `Check`, `Pump`, `MsgCallback`, `PopCommand`, `PopThrows` (SETCONFIG without a layer), `Finish`, `Yield`, `ThreadCleanup`. |
| `ConfigWindow` | `gui_win_data_config.cpp`, any number of windows on one receiver | Built on `ReceiverService`. A frame is `Loop()` (`PollInit`, `PollLayer`, `PollDone`, `PollFail`, `SetStart`, ...), then `DeliverGet`, `DeliverSet`, `Timeout`, then drawing with at most one click (`Load`, `Clear`, `Refer`, `Edit`, `Discard`, `Apply`, ...). `Execute`, `Complete...`, `ThreadThrows`, `ThreadEnds` are the receiver thread. `clean`, `shown`, `seen` are history. |
| `RxGetConfig` | `rxGetConfig()`, `rxPollUbx()` | `Begin` a call, `Send` a poll, `Recv...` one message each, `Timeout`, `Return`. Receiver and link are external. |
| `RxSetConfig` | `rxSetConfig()`, `rxSendUbxCfg()`, `ubxKeyValToUbxCfgValset()` | `Valset` is the list of messages, `Begin`, `Pump`, `Send`, `Recv`, `Timeout` the loop over it. Receiver and link are external. |
| `Cfg2rx` | `cfg2rxRun()`, `rxReset()` as seen by it | One action per step of the command; the receiver's layers are variables. |
| `EpochCollector` | `ff_epoch.c` | `epochCollect()` as an operator: `Completes` and `Detected` are the detection, `Collected` chooses by `COLL_QUAL_t` and replaces what was there or, with `Adds`, adds to it, `EpochComplete` is `_epochComplete()`. |
| `BoundedLog` | abstract | A sequence of the newest `Size` entries, to append to and to clear. |
| `Database` | `database.cpp` and its readers | `AddEpoch`, `CopyEpoch`, `AddDone` are `AddEpoch()` cut where readers without the mutex can look in; `Clear`, `SetRefPos`, holding a pointer. Indices and counts are those of the class. |
| `Epochs` | an input thread, with the two before | A receiver sends the messages of a profile, at first maybe without knowing the time, some are lost; the collected epochs are added to the database. |
| `Telnet` | `ff_port.c`, telnet ports | `phase`, `tnState`, `inband`, `overflow` are the state of the port; `Normal` ... `Collect` are the branches of `_telnetProcessInband()` for a byte, `NegotiationRead`, `ReadReturns`, `Close` the calls, `Fill`, `Send`, `SendFails` writing. |
| `MapTiles` | `maptiles.cpp` | `GetTileTex`, opening and destroying a map (`CloseMap`, `Join`, `Destroyed`) in the main thread; `TakeRequest`, `Loaded`, `DownloadFails`, `Exit` in each thread. |
| `...Proofs` | theorems | of `Parser`, `Epochs`, `LogfilePlayer`, `InputReceiver`, `ConfigWindow` and `RxSetConfig`, of `RxGetConfig` and `Cfg2rx` (`ConfigProofs`), and of `MapTiles` and `Telnet` (`NetworkProofs`): section 6. |

`MC...` modules give constants that a .cfg cannot write. An operator whose name
ends in `Fault` is a plausible bug in the operator it is named for; each
property is tried against one, and fails.

How they fit together: `LogfilePlayer` uses of the parser what `Parser` shows
(whole messages in order, an add that may fail). `InputReceiver` abstracts
`rxGetConfig()` and `rxSetConfig()` to a command that takes its time and
succeeds or fails, which `RxGetConfig` and `RxSetConfig` model in detail, and
`Cfg2rx` uses as steps that may fail. To its callers it is a `ReceiverService`,
which the run `receiver` shows, and of which `ConfigWindow` takes its actions.
`Epochs` composes `EpochCollector` with `Database`.

## 3. Abstractions

* `msg` and `tot` of the parser are `uint32_t`; `Parser` uses naturals, which
  differs after 4 GiB of data only. `msg->info` and names are left out.
* A logfile is a sequence of whole messages. What a chunk boundary inside a
  message does is `Parser`'s subject. Seeking goes to message boundaries. Files
  have the same content; what is reopened may also be missing. Calls of
  `Logfile` are atomic: that both threads are within `OpenRead()` at once is a
  data race, and the model only says that they get there (`OpenShared`).
* `Sleep()`, `Wakeup()` and play speed only delay: a sleeping thread takes its
  next step at any later time, or never if nothing wakes it and it need not.
* The command queues are pushed and popped under different mutexes. In the model
  push and pop are atomic, which is what the two ends of a deque come to.
* Time is abstracted: a timeout may happen whenever the code waits. This
  includes an immediate one, as after a wrap of `TIME()`.
* The link is first in, first out, and loses and delays requests and answers.
  A receiver answers each request at most once.
* `rxAbort()` is left out: it is called by the destructor of `Ff::Rx`, on the
  thread that also makes the polls.
* `Cfg2rx` starts after the arguments were checked and the file was read. Only
  resets that reload RAM are in it. The uninitialised `reset` (line 170) is any
  value.
* A message for the epoch collector is its kind, its navigation epoch, whether
  it has a fix and, for NMEA, the milliseconds within the minute, which are 0 when
  the time is empty. Fields are one if every message sets them together: `fixOk`
  is apart from the fix since PVT sets it only with one, `haveFix` since GGA, RMC
  do not set it, and the orbit data of satellites apart from their other data since
  SAT adds to it. The quality of a field is that of `COLL_QUAL_t`. The orbit data
  is the messages it comes from: which bits they set is left out.
* In the database positions, and the statistics over them, are what they were
  computed from: a set of epochs, or the newest one.
* Bytes of the telnet protocol are names. The server's stream is a sequence of
  items (data, commands, suboptions), cut into reads anywhere.
* The age of map tiles is left open: what may expire does so at any time.
* The configuration window is seen by one item of the configuration. Another
  item behaves alike, and all share the states of polling and setting. BBR is a
  layer like FLASH. The window for messages sets other items. A click may come in
  every frame; a new connection follows one that failed or was stopped.

## 4. Runs

Each property has a comment in its module. `expect: pass` runs:

| Run | What it shows |
|---|---|
| `parser` | 236 streams (pairs of whole, damaged, cut, oversized messages of four kinds, messages nested in payloads, streams longer than the buffer, and more garbage than `tmp` holds), each in every split into chunks of 1, 2, 3, 20 and 22 bytes, with `parserProcess()` called as often as the caller likes. `TmpFits`: the unchecked `memcpy`s fit. `NoOverflowWhenDrained`: a caller that drains never loses a chunk that leaves room for a full garbage bin and the largest message (here up to 22 bytes; with the limits of `ff_parser.h` up to 24572, and the largest chunk in the repository is the 16384 of `input_logfile.cpp:620`. This answers the FIXME in `ff_parser.h:35` for callers that drain; the player does not always, see `InOrder`). `Conservation`: no byte lost, repeated, reordered. `FramingFinal`, `ImplementsFramer`: the messages are those of the whole stream, whatever the chunks. `DrainTerminates`: loops over `parserProcess()` end. |
| `logfile_player` | A file of three messages, read in two chunks, one of them an epoch's last and one a warning, compressed or not, opened twice, with up to three clicks after the first and two after the second time. `InOrder`: no message twice, out of order, or from before a seek. `UndisturbedPlayComplete`: none lost when the user leaves the player alone. `NoStaleCommand`: no command is left for the next file. `EventQueueBounded`: back-pressure works. `FileExclusive`: the thread has a file, and the main thread opens and closes it only when there is no thread; the only exception is what follows a STOP of a compressed file (`OpenShared`, see section 5), after which the other properties say what they except (`shared`, or `Open()` while it waits). `CommandsExecuted`, `CloseReturnsUnlessStuck`, `PlayEnds`: progress, except in the one situation that `logfile_close` shows. |
| `receiver` | Two connections, two requests, two messages per connection. `ImplementsService`: although the uid of all requests is the same address, a callback gets its own answer (as long as nobody calls `SetConfig()` without one, as `gui_win_data_messages.cpp:467` does), except that of a `SetConfig()` without a layer, which gets none. `IdleIsIdle`: `Start()` is safe whenever IDLE lets it happen, also twice. `GapsAnnounced`: the user is told of every gap. `StopReturns`, `GetConfigAnswered`: progress. |
| `config_window` | Two windows on one receiver, two initial configurations. `LoadedIsReal`: what a window shows after a clean load is what the receiver had, in spite of late answers to the other window or to an earlier load. `ChangesShown`: the list of changes is true, and is what Apply sends. Both also when Apply names no layer, the receiver thread dies of it and the window waits for ever. |
| `rx_get_config` | Four layers polled in turn: one that ends in a page, one without data, one that ends with a page, one that is too large. `CollectsPrefix`: late and repeated pages never mix in. `ExactUnlessNoData`: success means the complete layer, unless a "no data" answer was taken. `GetConfigReturns`. |
| `rx_set_config` | Two transactions, a single message, a list that is too long and an empty one. `SetConfigExact`: success means stored; `AllOrNothing`: no transaction in part, each unless misled by a late answer. |
| `cfg2rx` | All arguments, files and receivers of three items with two values; each request may fail. `SuccessMeansDone`, `SkippedOnlyIfCurrent`: what exit code 0 means. |
| `epochs` | Six profiles (UBX with and without UBX-NAV-EOE, NMEA, both in three orders), one message lost, one epoch without a fix, any number of epochs at the start without a time. `EpochsPure`: no epoch mixes two navigation epochs, none is split, if there is only UBX, or nothing is lost and the epochs can be told apart (`UbxMarks`, `NmeaTells`). `BestSource`: each field is from the best message, with the exceptions stated there (height above mean sea level, `fixOk` with a PVT without a fix, orbit data). `LatestIsComplete`, `HeldIntact`: the two ways to read without the mutex. `Synchronised`: what is cached is current. `ImplementsLog`: the ring is a log of the newest epochs. |
| `telnet` | Servers that agree, refuse, change their mind and say too much, suboptions of all kinds up to the size of the buffer, then data; every cut into reads; writes with escapes. `DataDelivered`: data and nothing else, all of it. `OpenMeansAgreed`: open only when all was agreed on. `WireExact`: what is written. The first two except after a suboption as in `telnet_suboption`. |
| `map_tiles` | Two maps with two threads each, three tiles and one that is not on the map, a queue of one. `LoadingIsRequested`: no tile is forgotten, unless its download failed or its map was closed. `RequestedOnce`: threads never insert into the map that the main thread searches without a lock. `RequestsEnd`: requests end. |

`expect: violation` runs, each with the statement of the repository that it
contradicts (quoted in PROJECT.json, "findings"):

| Run | What it shows |
|---|---|
| `logfile_close` | `Close()` joins a thread that waits for room in the event queue, which only the caller of `Close()` makes. It never returns. |
| `telnet_suboption` | When the buffer is full just as the IAC SE at the end of a suboption comes, the end is not seen, and what follows is swallowed. |

### Bounds

Sizes are scaled so that each limit is met with few steps: parser messages of up
to 17 bytes in a buffer of 40 and a garbage bin of 3 (in the code 4102, 32768
and 4096), PARSER_MAX_ANY_SIZE being half the buffer, and larger than any message,
in both; event queue limits of 1 (1000 in
the code), and 2 and 1 (1000 and 10); 2 items per page or message (64); 2
attempts per poll (as in the code); at most 2 VALSET messages (19); a ring of 3
epochs (10000) through which four navigation epochs go, so that it wraps; telnet
buffers of 4, packets and reads of 3 bytes, with suboptions shorter than, as long
as and longer than the buffer; a tile queue of 1 (250), so that it drops. Two of
each actor's rounds (opens, connections, requests, windows, maps) suffice for
anything left over from the first to meet the second; three clicks are what a
step, its interruption and a play take, or a seek during play and a stop, or two
loads and a clear of a configuration; after the second opening of a file two are
enough for what the first has left. A `Minute` has three of the four navigation
epochs, so that a time comes again; none, some or all of them are without a time.
`MaxOpens`, `MaxCommands`, `MaxStarts`, `MaxRequests`, `MaxMsgs`, `MaxNav`, `MaxLost`, `MaxClicks` are the only bounds
that the code does not have; connections are not counted in `ConfigWindow`. In
`logfile_player` the file is too short for the parser to overflow when a command
comes between two messages; that `InOrder` holds then too, and that nothing is
lost when no command comes, is proved.

`CHECK_DEADLOCK FALSE` is set where the system really stops: a stream, a list of
calls or a command ends, a port is closed, no tile is wanted, or (player)
`Close()` blocks.

### Fairness

`FairSpec` assumes weak fairness of each thread (player, receiver, each thread of
a map), as the operating system schedules them and every wait has a timeout; of
the main thread in `LogfilePlayer` and `InputReceiver`, where frames go on, and in
`MapTiles` only while it destroys a map; of the host in `RxGetConfig` as time
passes, and of a caller of `parserProcess()` that loops. Nothing is assumed of the
user, the link, the receiver, the server or the arrival of data.

## 5. Seen while modelling

Differences between code and intent that have no run of their own. Where the
model has one of them, and a property would not hold for it, the property or its
comment names it as an exception.

Receiver, configuration:

* `input_receiver.cpp:204`: disconnecting with a request under way leaves its
  callback set, and every later `GetConfig()` is refused as "pending", also after
  connecting again.
* `input_receiver.cpp:594`: after BAUD the state stays BUSY.
* `input_receiver.cpp:658`: a `SetConfig()` without any layer, as Apply with no
  layer checked makes, lets `layers.substr(1)` throw in the receiver thread. The thread
  ends, the request is never answered, and its callback stays set, so that after
  connecting again every `SetConfig()` is refused (`Abandon`, `PopThrows`).
* `ff_rx.c:905`: a late NAK or empty answer for one layer ends the poll of the
  next one with "no data", as success.
* `ff_rx.c:455`: any late UBX-ACK-ACK for a UBX-CFG-VALSET is taken for that of
  the next one: "Configuration set", and it is not.
* `cfgtool_cfg2rx.c:206`: with `-U`, a failed poll or an item that the receiver
  lacks counts as "up to date".
* `cfgtool_cfg2rx.c:170`: without `-r`, `reset` is read uninitialised (201, with `-U`).
* `cfgtool_cfg2rx.c:155`: allows 20 messages, `ff_ubx.c:76` allows 19.
* `gui_win_data_config.cpp:225`: `_DbSet()` moves on to the next layer in any
  state. The late answer to a poll that timed out resumes it, and the window then
  says that it has data while the earlier layers were cleared. An answer that
  comes between a click on load and its first poll makes that skip DEFAULT.
* `gui_win_data_config.cpp:174`: a `SetConfig()` that was refused as pending, or
  whose answer was lost with the connection, leaves the window in `SET_WAIT` for
  ever. The comment at 182 says "handled in ProcessData()", which only counts.
  A refused `GetConfig()` waits for the timeout, which only arriving data notices.
* `input_receiver.cpp:645`: a poll that failed is answered as an empty layer. When
  it is RAM, all values become 0, differ from the reference, and Apply sends them.
* `gui_win_data_config.cpp:599`: `_ClearData()` updates the changes before it
  resets the values, so after "Clear all data" the old changes are listed and can
  be applied, until the Items tab is shown (2099 updates them in every frame).
  Switching the reference after Clear makes a change of every item that is not 0.
* `gui_win_data_config.cpp:1017`: Apply sends the changes of the next frame. When
  a load has ended in this one, these are computed anew and not what was shown.
* `gui_win_data_config.cpp:1135`: `<=` lets `_dbPollLayers[NUM_LAYERS]` be read.
* `gui_win_input.cpp:258`: a data window can be closed, and destroyed, while the
  receiver still has a callback that is bound to it.

Logfile player and parser:

* `input_logfile.cpp:431`, `input_receiver.cpp:545`: commands are popped under
  `_eventMutex` and pushed under `_commandMutex` (335): a data race, and
  `empty()` and `size()` are read without any (145, 427, 596).
* `input_logfile.cpp:447`: STOP of a compressed file closes it in the player thread
  and opens it again, without a mutex. In between, or if that fails, `Open()` (207)
  finds no open file and does not call `Close()`: it opens another file in the
  `_logfile` that the thread uses, keeps the commands, and only `Ff::Thread::Start()`
  stops the thread; the new one begins where that left the position. This is the
  exception `reopened` of `FileExclusive`, without which TLC finds it (`OpenShared`).
* `input_logfile.cpp:448`: the result of `OpenRead()` is not looked at. When it has
  failed the name is gone, and STOP again makes the closed file seekable.
* `input_logfile.cpp:539`: STOP leaves `stepEpoch` and `stepMsg` set, so a later
  play pauses as if it were a step.
* `input_logfile.cpp:614`: when `ShouldAbort()` or a pending command ends the
  message loop, `intr` is false and another chunk is read first. A few of these
  overflow the parser and messages are lost (in order, as is proved).
* `input_logfile.cpp:272`: `SetPlaySpeed()` validates the old speed.
* `ff_parser.c:371`: sentences up to 405 bytes pass the limit of 400.

Epochs and their database:

* `ff_epoch.h:439` promises consistent epochs. In a mixed stream without
  UBX-NAV-EOE a start in the middle of an epoch, or one lost NMEA message, shifts
  the detection: all epochs then have data of two.
* `ff_epoch.c:262`: NMEA epochs are told apart by the milliseconds within the
  minute, which are 0 for an empty time field. Epochs of a receiver that does not
  know the time yet, or that puts out one per minute, are one epoch if nothing but
  NMEA tells them apart (`NmeaTells`).
* `ff_epoch.c`: RMC and GLL claim the quality `BETTER_NMEA` for a position without
  height, so a GGA after RMC loses it; `haveFix` is only set by PVT and GLL;
  `havePos` is false when llh and xyz have the same quality; `relPosValid` is only
  ever set; the counters of Galileo and BeiDou satellites are swapped; GGA's
  `fixOk` stays when PVT has no fix (`PvtWithoutFix`); the orbit data of GSV stays
  when SAT replaces all else.
* `database.cpp:278`: the time stamp of an epoch is that of the one before; the
  statistics stay when no epoch has a position; `NumEpochs()`, `GetUsage()` and
  `LatestEpoch()` do not lock.

Telnet and map tiles:

* `ff_port.c:1249`: beside the finding, an escaped IAC followed by SE in a
  suboption ends it early. Data in the read that ends the negotiation is lost.
  The messages at 1408 lack the IAC in front of SE, and setting the baudrate does
  not escape 0xff.
* `ff_port.c`: reading a serial port takes any error for EAGAIN; opening a TCP port
  gives up after the first address and leaks the list.
* `maptiles.cpp:434`: a tile whose download failed, or whose map was closed before,
  stays LOADING for ever. A part of a file that could not be written is taken for
  the tile by the next run. `_Cleanup()` erases without the mutex under
  which the threads use `_tiles[]`: a data race. `RequestedOnce` shows that threads
  never insert and that what they look up is there, but a lookup is one step of the
  model: it says nothing of a lookup during an erase.
* `maptiles.cpp:354`: the comment says that a tile is "loading" until it is loaded
  or has failed; one that has failed stays so.

## 6. Proofs

Each theorem is for every value of the constants that the module's `ASSUME`
allows, and every length of a behaviour.

| Module | Theorem | States |
|---|---|---|
| `ParserProofs` | `TypeCorrect` | `Spec => []TypeOK` |
| | `TmpNeverOverrun` | `Spec => []TmpFits` |
| | `BacklogBounded` | `Spec => []Backlog` |
| | `BufferLargeEnough` | `Spec => []NoOverflowWhenDrained` |
| | `BytesConserved` | `Spec => []Conservation` |
| | `FramingIndependentOfChunks` | `Spec => []FramingFinal` |
| | `Refinement` | `Spec => ImplementsFramer` |
| `EpochsProofs` | `TypeCorrect` | `Spec => []TypeOK` |
| | `LatestAlwaysComplete` | `Spec => []LatestIsComplete` |
| | `PointersProtected` | `Spec => []HeldIntact` |
| | `AlwaysSynchronised` | `Spec => []Synchronised` |
| | `Refinement` | `Spec => ImplementsLog` |
| | `EpochsUseDatabase` | `EpochsSpec => Spec` (of `Database`) |
| | `DatabaseHolds` | all of the above, of `EpochsSpec` |
| | `AlwaysBest` | `EpochsSpec => []BestSource` |
| | `AlwaysPure` | `EpochsSpec => []EpochsPure` |
| `NetworkProofs` | `TypeCorrect` | `Spec => []TypeOK` (of `MapTiles`) |
| | `NoTileTwice` | `Spec => []RequestedOnce` |
| | `NoTileForgotten` | `Spec => []LoadingIsRequested` |
| | `TelnetTypeCorrect` | `TelnetSpec => []TelnetTypeOK` |
| | `WrittenExactly` | `TelnetSpec => []WireExact` |
| | `AllDataDelivered` | `TelnetSpec => []DataDelivered` |
| | `AgreedBeforeOpen` | `TelnetSpec => []OpenMeansAgreed` |
| `RxSetConfigProofs` | `TypeCorrect` | `Spec => []TypeOK` |
| | `TrueMeansSet` | `Spec => []SetConfigExact` |
| | `WholeOrNot` | `Spec => []AllOrNothing` |
| `ConfigProofs` | `TypeCorrect` | `Spec => []TypeOK` (of `RxGetConfig`) |
| | `AlwaysPrefix` | `Spec => []CollectsPrefix` |
| | `SuccessIsExact` | `Spec => []ExactUnlessNoData` |
| | `CommandTypeCorrect` | `CmdSpec => []CmdTypeOK` (of `Cfg2rx`) |
| | `SuccessIsDone` | `CmdSpec => []SuccessMeansDone` |
| | `SkippedIsCurrent` | `CmdSpec => []SkippedOnlyIfCurrent` |
| `LogfilePlayerProofs` | `TypeCorrect` | `Spec => []TypeOK` |
| | `QueueBounded` | `Spec => []EventQueueBounded` |
| | `NoCommandLeft` | `Spec => []NoStaleCommand` |
| | `SharedOnlyAfterStop` | `Spec => FileExclusive` |
| | `AlwaysInOrder` | `Spec => []InOrder` |
| | `NothingLost` | `Spec => []UndisturbedPlayComplete` |
| `InputReceiverProofs` | `TypeCorrect` | `Spec => []TypeOK` |
| | `IdleMeansIdle` | `Spec => []IdleIsIdle` |
| | `GapsAreAnnounced` | `Spec => []GapsAnnounced` |
| | `Refinement` | `Spec => ImplementsService` |
| `ConfigWindowProofs` | `TypeCorrect` | `Spec => []TypeOK` |
| | `LoadedValuesReal` | `Spec => []LoadedIsReal` |
| | `ChangesAlwaysShown` | `Spec => []ChangesShown` |

Each rests on an inductive invariant `IInv`, with a lemma or a step per action.
Two modules of proofs are about two components each, which share nothing but a
few lemmas and the place; the names of `Cfg2rx` and `Telnet` differ from those of
the others for that (`CmdSpec`, `TelnetSpec`).

* **Parser.** `ParserProofs` first shows for each recogniser, and then for
  `Recognise`, that a verdict other than "wait" does not change when bytes are
  added behind, that a message lies within the bytes given, and that "wait" is
  only said of fewer bytes than the largest message. `IInv` adds to the properties
  that the garbage in front of `offs` is final (no message starts in it) and that
  the bin is never full between two calls, without which neither the bound on
  `tmp` nor that on the backlog is inductive. The refinement maps the position of
  the framer to `tot + offs`. Assumed are the relations between the limits in
  `ff_parser.h`; checksums are any functions. `LargestMessage` is what those
  limits admit (4102 bytes), which is less than PARSER_MAX_ANY_SIZE (16384): with
  the latter, a chunk as large as the player's would not be covered.
* **Database.** The properties speak of indices, counts and copies; `IInv` says
  which entries of the ring are in use, counting backwards from where the next one
  goes, that `epochsValidCnt` counts them, that `epochIxLast` is the one before, and
  how old an entry is that somebody holds. The refinement is from the ring to
  `BoundedLog`. These theorems are about `Database!Spec`, where any epoch may be
  added at any time.
* **Epoch collector.** `EInv` adds to the database's `IInv` what the stream sends
  next, what the collector has collected (each field is from the best of the
  messages taken: `CollectorInv`), where its detection stands (`UbxOnly`, and
  `NoneLost` when both protocols are used, as long as they tell the epochs apart) and that the log holds one navigation
  epoch after the other (`LogInv`). The theorems have the hypothesis
  `NotedEpochs \subseteq Raw`: the database can store what the collector makes,
  which `MCEpochs` satisfies by its definition of `Raw`. Of the profiles it is
  assumed that UBX-NAV-EOE is the last message of an epoch, if it is sent, and
  that otherwise an epoch starts with a message that has a time (`Proper`). An
  epoch that starts with a message without one, as GSV, would add that to the
  epoch before, which is what the code does. `EpochsUseDatabase` shows that the
  composition only uses the database as its specification allows, and
  `DatabaseHolds` takes over what is proved of that.
* **Map tiles.** What a thread processes is what it took; threads that run belong
  to a map that exists; only known tiles have a path (`Threads`, `Paths`).
* **`rxGetConfig()`.** What is on the link are answers to polls that were sent, of
  the pages that they asked for; what was collected is explained by those; a call
  that returned was exact, or somebody answered "no data".
* **`rxSetConfig()`.** First, what `Valset` makes of a list of keys: the first i
  messages have its first i * 64 keys, the last ones have all, and the kinds of
  transaction are in their places (`MessageIs`), by arithmetic without induction.
  `IInv` says that requests and answers on the link are in the order in which the
  host sent them and no later than where it is (`LinkInOrder`, `LinkSent`); that a
  message of a call that is not misled finds in the receiver exactly the keys of
  the messages before it (`InTurn`); and what the host may conclude from an answer
  (`Known`). That a later call wins (`InCallOrder`) is needed for what success
  means after several calls.
* **`cfg2rxRun()`.** `CmdIInv` says what each step knows: nothing was sent before
  the reset (`Untouched`), what was polled is what the receiver has as long as no
  poll failed (`Polled`), nothing is stored after a reset that deletes (`Deleted`),
  and the file is stored before it is applied (`Stored`). A reset that fails may
  have deleted what was stored, or started the receiver anew, all the same.
* **Logfile player.** `Control` says where the two threads can be at the same time.
  The queue's bound needs more: events are sent without a look at the limit, four
  at most, as between two times that the main thread sees the queue empty the user
  gives one command at most (`Room`, `Excess`). Order is about the four places
  where messages are (delivered, queued, in the thread's hands, in its parser),
  each before the next, and about runs: the events of a play before a seek.
  The file that STOP closes is in `Control`: a running thread has none only after
  `reopened`, and `Open()` waits for a thread only if `shared`. The bound and
  completeness except `shared`, as such an `Open()` leaves the queue and gives the
  user new clicks. Order only excepts the time while `Open()` waits, in which the
  old thread reads the new file; the part of the invariant that holds then too
  (`Begun`) is what `Restarted` begins with.
  Completeness (`CInv`) adds how often the user has clicked: a thread that plays
  has taken one command, so that an interruption, or a step to an epoch, means a
  second (`Count`). With one command, `Read` always finds the parser empty, and a
  chunk fits.
* **Receiver input.** `GapsAnnounced` is about what was delivered; `IInv` says the
  same of the queue, from any message to the next one (`GapsIn`, `GapBefore`), and
  that messages are only dropped when the last thing queued since the last
  message says so, or when the queue is short enough for the next event to end the
  saturation (`Dropping`). For the refinement, a request is in one place at most,
  queue, thread or answer, and is the one whose callback is set (`OneRequest`);
  if it names no layer it is never in the thread, and `PopThrows` is `Abandon`.
  The abstract queue is a selection of the concrete one: `Selected` is a recursive
  function, what it does to `Append` and `Tail` is shown by induction, of a set of
  numbers rather than of an operator, from a theorem on well-founded sets.
* **Configuration window.** At most one `GetConfig()` is queued, executed or
  answered, and it is the one whose callback is set (`OneRequest`); what a window
  has seen includes what the receiver has and the answer under way (`Seen`);
  outside the loops of a frame all parts of them are done (`Control`); and of each
  window what holds in each state of its polling and setting: where a load may
  begin and end within a frame, which layers have values, and that no load begins
  or ends between a click on Apply and the setting (`PollStart`, `PollEnd`,
  `Available`, `Applying`, `Clean`). The steps of the service are lemmas of their
  own.
* **Telnet.** For writing, `WInv` says that what is still to be written is the rest
  of the data, that what was sent and what is collected for the next packet are
  together the escaped bytes taken so far, and that the packet being collected is
  the escape of the last of them. What `FlattenSeq` does to `Append` is shown by
  induction over a set of numbers, as above. For reading, the types come first:
  the inband buffer is never overrun, and its last byte is read only if there is
  one (`Buffered`). `ReadingInv` then says what the code knows: `Within`, of the j
  bytes it has taken of an item that is not complete (the state of
  `_telnetProcessInband()`; of a suboption, how many bytes are in `tnInband` or
  that they were too many, and whether the last one was IAC: `Keeps`,
  `Collecting`); `Returned`, that what was returned and what this read has found
  so far are the data of the complete items behind the negotiation; `Negotiating`
  and `Agreed`, that an option is only agreed on if the server's last word on it
  says so. This is claimed as long as no blind suboption was begun (`Followed`,
  which never becomes true again). `ItemStep` shows for each kind of item, byte by
  byte, that this is preserved, and at the last byte what the item adds. The rest
  is where in the stream that is: `Finished`, a cardinality, goes up by one exactly
  at the end of an item (`FinishedNext`). A suboption too long for the buffer is
  included. `Streams` are any sequences of what a server may send (`IsItem`).

Model-checked only: liveness everywhere (fairness and ENABLED are beyond the
prover).

## 7. Plan

Done, in this order: (1) `Parser`, `Framer` and proofs; (2) `LogfilePlayer` with
`Ff::Thread`; (3) `InputReceiver`; (4) `RxGetConfig`, `RxSetConfig`; (5) `Cfg2rx`;
(6) `Telnet`; (7) `Database`, `BoundedLog` and proofs; (8) `EpochCollector`,
`Epochs`; (9) `MapTiles` and proofs; (10) `ReceiverService`, `ConfigWindow` and
proofs; (11) proofs of `RxGetConfig` and `LogfilePlayer`; (12) proofs of
`InputReceiver`, `RxSetConfig` and `Epochs`, and of completeness of
`LogfilePlayer`; (13) proofs of `Cfg2rx` and `Telnet`.

Next: (14) `rxOpen()`, `rxAutobaud()` and the steps of `rxReset()`; (15) making and
parsing key-values (`ubloxcfg.c`); (16) the NTRIP client.

Not modelled, and not planned: drawing, OpenGL, formatting and decoding of
single messages, coordinate transformations (floating point), generated tables
(most of the lines of the repository are these: `gui_fonts.cpp`, `ubloxcfg_gen.*`,
`glmatrix.cpp`), third-party code.
