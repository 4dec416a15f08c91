# A verification project for tqdc-controller-rust

The repository controls an AFI Electronics TQDC2 digitizer over UDP and serves
the data it takes to the Numass control system. This directory holds TLA+
models of its code, TLC configurations that check them on small instances and
TLAPS proofs about them. Paths are relative to the repository (`src/` in
`PROJECT.json`).

## The system

| Part | Code | State | Operations | Talks to |
|---|---|---|---|---|
| Acquisition of frames | `tqdc/src/lib.rs` 43-267 | the calling task, the `gather_frames` task it spawns, a control and a stream socket both share, the frames received | `acquire_frames`, `start_acquisition`, `check_run_state`, `stop_acquisition`, `gather_frames` | the board, by UDP |
| Assembly of events | `tqdc/src/lib.rs` 275-318 | a map from packet id to the entry being assembled, the closed entries | `frames_to_events` | the merge below |
| Merge of a packet | `tqdc/src/mstream.rs` 106-169 | a 16-bit running offset, a flag, a buffer | `TryFrom<&[&MStreamFragment]>` | - |
| Data blocks | `tqdc/src/mstream.rs` 171-216 | an offset into the packet | `extract_data_blocks` | - |
| M-Link codec | `tqdc/src/mlink.rs`, `tqdc/src/regs.rs` | an offset into the register list | `from_datagram`, `to_datagram` | - |
| Server | `apps/src/bin/tqdc-server.rs` | the task of the latest connection, backup files | accept, abort, read, acquire, back up, reply | clients by TCP, acquisition, points |
| Points | `apps/src/lib.rs` | frames by channel, the time of the first | `events_to_point` | - |
| frame-viewer | `apps/src/bin/frame-viewer.rs` | fragments by packet, histogram, counts, waveforms under locks | receive, acknowledge, refresh, draw | the board |
| sound-alarm | `apps/src/bin/sound-alarm.rs` | two watching threads, the panic hook | look for the newest backup by SSH, poll the battery, sound | the detector, by the names of the server's backups |
| likhovid-converter | `apps/src/bin/likhovid-converter.rs` | frames by time and channel | convert | files |
| Command line tools | `apps/src/bin/{start-acquisition,get-board-id,init-acquisition}.rs` | - | one request, one reply | the board |

How they interact: a client sends the server a command over TCP. For
`AcquirePoint` the task of the connection calls `TQDC::acquire_point`, that is
`acquire_frames` and then `frames_to_events`. `acquire_frames` spawns
`gather_frames`, and the two share the sockets: the caller starts the run and
waits for the end of the task, the task subscribes to the stream, acknowledges
and keeps what arrives, and after 500 ms of silence asks the board for its run
state. The frames are put together packet by packet, cut into data blocks, made
a point, written to the backup folder and sent to the client. A new connection
aborts the task of the one before, wherever it is; the gather task of the
aborted call is detached and goes on.

What is hard, and what each part has to get right:

- **Acquisition.** Two tasks read the same socket and take whatever datagram is
  first; replies carry no reference to their request; datagrams are lost, late
  and repeated; a task that belongs to a call that is over goes on. A call that
  returns Ok must have measured (its own start was executed, a run went on to
  its limit), must have stopped the board, must return its own frames and every
  one of them it acknowledged; every call and every task must end.
- **Assembly and merge.** Packet ids wrap, so packets of one id are told apart
  by a distance in frames; fragments come late, repeated or not at all; offsets
  wrap at 16 bits. As long as packets of one id are far enough apart, no packet
  may be mixed with another, split or delivered short; and no frame may be dropped
  on the way.
- **Codec.** Lengths are in words, of 16 bits, and registers of one or two words;
  what is read must be what was written.
- **Server.** Aborts at any await, panics in place of errors, files named by
  the second and written in the background. No two calls may go on beside each
  other (one that is dropped as it is entered cannot be excluded), every request
  must be answered or its connection end, and a point that was answered must be in
  the backup folder.
- **Data blocks, points, converter.** Lengths that come from the data, times
  relative to the first frame kept, events in the order of their ids and rows in
  the order of their times. Every block of every packet must be in the point and in
  the file once, with its own channel, time and waveform.
- **Viewer.** A receiving thread, a thread for each refresh and the GUI under three
  locks that are held together, any of which may panic. A packet must be counted
  in the interval it came in, rates must be those of one interval, and nobody may
  wait for ever.
- **Alarm.** A thread that polls a remote folder whose order and names are not of
  the same time, one that polls the battery, and an alarm that is a panic hook. An
  alarm must be true, and its absence must mean something.

`PROJECT.json` lists every hazard at its line with the properties that watch it,
or says why there is none.

## The modules

| Module | Models | Uses |
|---|---|---|
| `KeyOrder` | the order a `BTreeMap` is iterated in | |
| `MStream` | fragments; `Merge`, what `try_from` returns, as one expression | |
| `MStreamMerge` | `try_from` as the loop it is; shown to compute `Merge` | `MStream` |
| `FrameAssembly` | `frames_to_events`, one action for each way a turn of its loop can go | `MStream` (`Merge`), `KeyOrder` |
| `Acquisition` | `acquire_frames` with everything it calls, `gather_frames`, abort, the board, the network, time | |
| `AcquireContract` | what a call promises: the abstract specification `Acquisition` implements | |
| `DataBlocks` | `extract_data_blocks`, and what the board packs | |
| `Points` | from events to a point: the last part of `frames_to_events`, `acquire_point`, `events_to_point` | `FrameAssembly`, `DataBlocks` |
| `Likhovid` | likhovid-converter on that point | `Points` |
| `Server` | the accept loop, the connection tasks, the backup files | the contract, informally |
| `MLink` | building and reading a datagram | |
| `FrameViewer` | the threads of frame-viewer, their locks, the GUI | `MStream` (`Merge`), `KeyOrder` |
| `SoundAlarm` | the threads of sound-alarm and what they watch | |
| `MC*` | values for TLC (`MCAssembly` for `Likhovid` and all it extends) | |
| `AcquisitionProofs`, `AssemblyProofs`, `FrameViewerProofs`, `MLinkProofs`, `MStreamMergeProofs`, `ServerProofs`, `SoundAlarmProofs` | theorems | the module they are about (`AssemblyProofs`: `Likhovid` and all it extends, the chain from frames to rows) |
| `SequenceLemmas` | what `InOrder`, concatenation and the flattening of sequences give, for any set and any length | `KeyOrder` |

**MStream, MStreamMerge.** A fragment is its offset, its length and its LF flag;
of the bytes only their position counts. `TakeFragment` and `MissingFragment`
are the two ways through the body of the loop (lines 117-127), with
`current_offset` a u16 that wraps in a release build and panics in a debug build
(`overflow_checks`, chosen at the start); `Finish` is lines 129-168, with the copy of the payloads and
the panic of a header that does not fit. `buffer` holds which bytes of which
fragment were copied.

**FrameAssembly.** The whole input is known before the loop starts, so a
behaviour is one call. `idx` is the loop variable, `fragments` the map from id to
`(usize, BTreeMap)`, `blocks` the entries closed by the eviction at line 288. An
inner map is the set of the frames whose fragments it holds, at most one for each
offset (`Insert` is `BTreeMap::insert`); its values in order are `Slice`. `InOrder`
says which element comes at which place by how many are before it: the library's
sorting operator is defined by a choice that no proof can look into. Each
frame also names the packet it was cut from. No action reads that: it is there so
that properties can say that packets were mixed or split. `Finish` merges every
entry with `Merge` of `MStream`, whose failure is unwrapped and panics the call.

**DataBlocks, Points, Likhovid.** They extend `FrameAssembly`, so that one
behaviour goes from the frames of a run to the rows of the converter's file
(`AllSpec`). A packet's user data is any of `Lists` as the board packs it, or
malformed; `given` remembers which. `Extract` is the loop of `extract_data_blocks`,
in words instead of bytes, as a function from the number of turns to what the loop
has read; `LengthModulus` is where the two bytes of a length end, so that a malformed
packet may hold any word where a length is looked for. `events_to_point` takes one
data block a step. Whether zero
suppression keeps a block depends on sums of floating-point numbers and is a choice
(`Suppress`, `AppendFrame`); whether there is a maximum to unwrap depends on
lengths and on the reset at the start of a waveform, and is modelled
(`SuppressionPanics`). The subtraction at line 95 panics in a debug build when it
underflows and wraps in a release build (`AppendPanics`, `TimeModulus`). The map of
maps of the converter is the set `Rows`, of which `Taken` is what a limit leaves;
`Key` is the place of a row in the two maps as one number, by which `InOrder` lists
them.

**Acquisition.** A session is one call of `acquire_frames` with its two sockets.
`caller[s]` is the await the call is in (`sleep`; `start` and `stop` for the
replies; `join` for the gather task), `gather[s]` the await of its task. Every
action of the two goes from one await to the next, so that the interleavings are
those of the program; whatever the code sends in a step is sent in that action.
The `?` operators are `CallerGivesUp` and `CallerIOError`, a panic or an error of
the task `GatherFails`, the server's `runner.abort()` is `Abort`: the caller is
gone, the task is not. `BeginAborted` is a call that the server's aborted task
still enters (see *Server*): it binds its sockets and spawns its task, and is dropped
in the sleep that follows, at any time, also beside another call. Sessions are
numbered as calls are entered. `net` is a set of datagrams: one stays there until someone
takes it, so that it may be late, overtaken or (never taken) lost, and at most
`MaxDups` times it is delivered and kept, which repeats it. A reply carries no
reference to its request beyond its socket, as in the code: any datagram ends the
waits of `start_acquisition` and `stop_acquisition`, while `check_run_state` fails
on anything but a run state.

The *board* is not in the repository. It is modelled as the code and the
documents of `docs/` use it: the last subscriber gets the stream; a start request
restarts the run and may drop unsent frames; frames are sent again until they are
acknowledged and never after; a run ends at its time limit; a stop out of a run may
leave the state as it was. Where that is uncertain the model allows both.

*Time* is in ticks of 100 ms. `Tick` needs every task whose timer has run out, and
every task just spawned, to run first: a task may not oversleep by a whole tick.
That is the assumption under which the timeouts of the code (100, 100 and 500 ms)
mean anything, and `NoControlRace` shows how much hangs on it.

`quiet[s]` is a history variable: whether the board was out of its run, and
whether all gather tasks were over, when call `s` began.

**AcquireContract** has the calls and the runs and nothing else: a call begins
after the ones before it, or is over as soon as it is entered; it may fail at any
time, and succeeds only after a run of its own was begun and a run went on to its
end from there. `Acquisition` maps
`call` to `caller` (every await is "running") and `runs` to the runs of the board.

**Server.** A connection is the task the accept loop spawns for it. `Accept`
aborts the task before and spawns the next one in one step, as `accept` returns;
a task that waits for the board is dropped at once, any other goes on beside the
new one until its next await that is not ready (`Dropped`), for at most
`LingerTicks`: `frames_to_events` and `events_to_point` can take long and have no
await that is not ready. So an aborted task may answer a request, find the next one
already there and enter `acquire_frames`: binding the sockets is ready at once, the
gather task is spawned, and the sleep drops the call (`ReadPointAborted`, one step
since nothing in it waits; `dropped` remembers that it happened). An
acquisition of any other task is one state that ends in a panic, an
error or, after `AcquireTicks`, a point. `File::create` and the write are handed
to the runtime (`pending`) and carried out even if the task is dropped.
`CallsFollowOneAnother` is what `Acquisition` assumes of its environment: calls
follow one another, but for those that are dropped as they are entered. A client that
is gone and one that sends what is no message are the same to the task, which panics
at its next read (`ClientCloses`, `Panics`).

**MLink.** `ToDatagram` is what the constructors and `to_datagram` build, the
actions are `from_datagram` and the loop of `extract_regs`. A word is its read
flag, its address and its value; the addresses are those of `regs.rs`. The
length of a datagram is of 16 bits wherever the code says so (`LenModulus`): a list
that is too long panics while it is built in a debug build (`BuildPanics`), where the
product at line 134 overflows before the sums do, and wraps in a release build
(`RegsLen`, `ToDatagram`; there the product is a capacity only). Every
`assert!`, out-of-range slice and unknown register is the result "panic".

**FrameViewer.** A step of a thread goes from one lock to the next: `counts`,
`histogram` and `count_rate` are held over several steps and taken one inside the
other, as lines 126, 127 and 177 do; `update` holds `count_rate` while it draws the
rates (`LockRate` to `RatesDrawn`) and takes `histogram` for a clone
(`DrawHistogram`). A refresh thread may be of any speed, so that the next overlaps
it. Every entry of `counts`, `histogram` and `count_rate` names the thread that made
it, which the program does not know and the properties need; `got` is what was
received in each interval. The threads panic where the code does, at any packet and
before or after its own event was added (the libraries behind the filter, the
histogram and the waveforms may all panic); an `egui` mutex
is not poisoned, so that the next thread goes on with what was left in it. Every
packet is one event above the threshold: the filter is not modelled.

**SoundAlarm.** Time goes by the second. `newest` is the age, by its name, of the
backup that `ls -t` names, and `lastCreated` that of the last one the server
created: the two differ when an older one is still being written to (`writing`).
`Listed` is when the remote `ls` looks, and the check comes with the answer, up to
`ReplyTicks` after the question; a detector that hangs never answers. Both panic and
`expect` end in the hook, which sounds and does not return (`Sounding`), except that
it aborts the process when `speaker-test` cannot be run (`SpeakerFails`). `Cap` is
where ages are no longer told apart, beyond all that the properties compare.

## What is checked

Every run passes but the three that show a disagreement (see *Findings*). No run
takes more than about three minutes on two cores.

| Run | Configuration | Shows | Bounds, and why they are enough |
|---|---|---|---|
| `merge` | `MCMStreamMerge.cfg` | the loop computes `Merge`; what it accepts is gapless and copied once; fragments of a packet are accepted only whole and in order; whole packets are accepted | both builds; offsets modulo 4, header of 1 byte, all slices of up to 3 fragments: a wrap, a gap, an overlap, a header too short, a packet that ends at the modulus all occur |
| `assembly` | `MCAssembly.cfg` | entries are well formed, no frame is lost or used twice, packets are not mixed or split, complete input becomes its events, the call returns only events without a gap, which on spaced input are whole packets; blocks are read back; the point has every block; the rows of the file are the blocks in the order of their true times | all sequences of up to 5 frames of three packets, two with the same id and shape, distance 2: late, repeated, missing and reordered fragments, two evictions, a mixture that would pass for a packet; a packet older than the first by more than the lead, one older by less; per event two lists of blocks (two channels, a TDC block between, an empty waveform, one with a reset at its start) or two malformed ones; a debug build, since a wrapped time is outside what the properties speak of |
| `two_calls` | `MCAcquisition.cfg` | all safety properties of `Acquisition` with a call that leaves its task behind for the next one, or that is dropped beside it | 2 calls, 1 frame a run; stream timeout of 3 ticks, the least that is more than sleep plus reply |
| `one_call` | `MCOneCall.cfg` | `OkRunFinished`, `AckedFramesReturned` with frames overtaking each other, sent again, repeated, and stray datagrams | 1 call, 2 frames, 1 resend, 1 repetition |
| `two_calls_live` | `MCTwoCallsLive.cfg` | `Acquisition` implements `AcquireContract`; every call returns and every task ends, the detached one included | 2 calls and no frames: a frame only starts the 500 ms again, which a bounded number of frames can do a bounded number of times |
| `server` | `MCServer.cfg` | only the latest connection acquires, and a call an aborted one enters is dropped and its last; a point that was answered keeps its file; every request is answered or its connection ends | 2 connections of 2 requests, an acquisition of 2 ticks, a second and a lingering task of 1, 5 ticks: two points in a row, a task aborted while it assembles and one of the next connection |
| `mlink` | `MCMLink.cfg` | what is read is what is written, for any datagram; what the program builds is read back exactly when its length fits | words around `RunMode`, whose second half has the address of `RunState`, and one address of no register; up to 3 words, wrong lengths included; every list of up to 3 registers, and up to 13 copies of one, 26 words, against a length modulo 24, in a debug and a release build: lists that fit both, that only a release build can build, that wrap below the header and that wrap above it |
| `viewer` | `MCFrameViewer.cfg` | rates are of one batch; a packet is counted in its interval or not at all; nobody waits for ever | 2 refreshes, so that two threads overlap; three packets, two of one id, one of them in two fragments: split over a refresh, repeated, mixed, merged with a fragment of another; a debug build |
| `alarm` | `MCSoundAlarm.cfg` | silence is bounded, alarms are true, a power failure sounds | interval 4, sleep 3, answers up to 2, backups written for 2, clocks apart by 1: two checks within an interval, ages around every bound, backups that overlap |
| `merge_wrong_order`, `mlink_no_crc`, `likhovid_limit` | `MCMStreamMergeWrongOrder.cfg`, `MCMLinkNoCrc.cfg`, `MCLikhovidLimit.cfg` | violations, see *Findings* | the least instance |

`CHECK_DEADLOCK FALSE` is in the configurations of the server, where clients stop
sending and connecting, since both are bounded; of the viewer, whose window may be
closed; and of the alarm, which may abort or end. (`NobodyWaitsForever` is what
excludes a deadlock of the viewer's threads.) It is also in `MCLikhovidLimit.cfg`,
which has a release build only. Everywhere else an action
(`Returned`, `AllOver`) marks the states in which the program is done, so that any
other stop is an error.

`MCAcquisition` gives TLC a `VIEW` that leaves out datagrams no task can take any
more: those for the sockets of a session whose caller and gather task are both
over. No property of its runs speaks of them. The liveness runs have no view.

`OnlyOwnFrames`, `OkLeavesBoardIdle` and `AckedFramesReturned` have a premise in
`quiet`, and it is needed. Without `"tasks"` TLC shows this: a call fails after the
board has executed its start; its gather task is still subscribed when the next
call starts the board; the board goes on sending to the old socket until it reads
the new subscription; the old task acknowledges a frame of the new run and keeps
it where nobody looks; the new call returns Ok without it. Likewise `dups = 0`
stands where a repeated acknowledgement of the start could pass for that of the
stop. The properties say what the code does guarantee, and from where on.
A call that is dropped beside this one leaves a task of the same kind, so that
`AckedFramesReturned` leaves out a call beside which another was entered.
`AckedFramesReturned` speaks of a call until the next one begins: from then on the
board may be sent an acknowledgement of one of its frames by the next call, to which
it sent the frame again.

`BackupHasPoint` has a premise on time: `AcquireTicks >= LingerTicks +
TicksPerSecond`. With a shorter acquisition TLC finds two points of one second,
the second of which replaces the file of the first, and an aborted task whose
`File::create` empties the file of the connection that took its place.

`ReturnsOnlyWholePackets` names the packet on spaced input only. On other input two
packets of one id of which each lost the fragment the other brought make one gapless
event, which no frame tells from a packet; what is left then is that no frame is
missing from the events and that none of them has a gap.

`PointIsWhole` and `RowsInTrueOrder` have a premise on time: no packet is older
than the first block kept by more than the lead of a millisecond. Events come in the order of their
ids, so that after a wrap of the id the first of them may be younger than the last;
without the premise TLC shows the panic, or in a release build a time near the
modulus. `RowsInTrueOrder` also needs that no channel has two blocks of one time,
of which the converter keeps the last.

`RateOfOneBatch` allows one exception, and it is needed: a refresh thread that
panics leaves what it had counted, and the next thread's rates include it.
`PacketsCountedInTheirBatch` speaks of packets that share the interval with no
other of their id, and that can be joined at all: a packet of 64 KiB cannot, nor one
whose first piece is shorter than the header. What it does not say, because it is not so: a fragment that is sent again after
a refresh may complete a packet in two intervals, and the threads of two refreshes
may publish in either order.

`SilenceBounded` speaks of a detector that answers or refuses. A connection that
hangs is in the model, and silences the watcher for good: the code has no timeout.
The bound is the interval, a sleep and an answer, and not the interval alone: with
the sleep left out TLC finds a check just before the interval ends.

### Fairness

- `Acquisition`: weak fairness of the steps of each caller and each gather task
  (tokio runs a task that can run), of `Tick` (time passes) and of
  `BoardFinishes` (the board keeps its own time limit). Nothing is assumed of the
  network or of the board's replies: all of them may be lost. Sending a frame
  again is bounded (`MaxResends`), as is the number of frames; a board that sends
  frames for ever does keep the task for ever.
- `Server`: weak fairness of each connection's task, of file operations and of
  time. An acquisition ends because a call returns (`CallsReturn`, checked of
  `Acquisition`). A client may send or close whenever it likes, or never; but the
  fairness of `ReplyPoint`, `AcquireFails` and `ReadOther` takes a client that reads
  its replies, or is gone: the write of a reply waits for room in the socket, without
  a limit.
- `FrameViewer`: strong fairness of each refresh thread and of the GUI's
  `DrawHistogram`, weak fairness of its other steps. A lock that others take again
  and again is free again and again, and the mutexes of `egui` are those of
  `parking_lot`, which hands a lock over to a waiter in time (eventual fairness).
  The operating system schedules the threads. The receiver and the network owe
  nothing.
- `SoundAlarm`: weak fairness of `Poll`, a thread that loops without a pause. The
  safety properties need none.

## What is proved

The theorems hold for every value of the constants that satisfies the named
assumptions (`AcquisitionAssumption`, `FrameAssumption`, `MStreamAssumption`, `ChannelAssumption`,
`PointsAssumption`, `InputsAssumption` of `MStreamMerge` and of `MLink`, `ServerAssumption`, `ViewerAssumption`,
`AlarmAssumption`):
any number of calls, any timeouts with `StreamTicks > SleepTicks + ControlTicks`,
any losses, delays and repetitions; any frames, ids and distance; any user data in
the packets, any times the board may stamp them with, any suppression and limit; any
slices of fragments; any connections and requests; any packets and any number of refreshes; any
intervals, delays and difference of clocks; any datagram and any list of registers.

- **`AcquisitionProofs!TypeCorrect`.** `TypeOK` needs `RunsMatchState`: a board
  that is in a run, or has finished one, has a run to speak of. `Ready` is what
  keeps timers from going below 0.
- **`AcquisitionProofs!ControlSocketNotShared`** (`NoControlRace`). By `Apart`:
  while the caller sleeps, the timer of the gather task is more than the rest of
  the sleep plus the timeout of the reply, and while it waits for the reply, more
  than the rest of that. `Tick` takes one from both; a frame only adds to the
  task's. So the task asks its first question after the caller has left the
  control socket, and is over before the caller comes back to it.
- **`AcquisitionProofs!OkMeansRunFinished`** (`OkRunFinished`). By `RunInv`, which
  says what every datagram on its way *tells*: an acknowledgement of a start, that
  a run of that session exists; a question or a run state, that the session is past
  its start; a stop, that its task has returned; the state "Finished", that a run
  of that session began and a run has finished since, unless the call has failed.
  Runs only grow and calls only go forward, so what is told stays true however late
  a datagram is or how often it comes.
- **`AcquisitionProofs!OkMeansStopped`, `OkMeansIdle`** (`OkStopped`, `OkLeavesBoardIdle`).
  By `ControlInv`: unless the network repeats datagrams there is at most one
  datagram on a control socket or on its way to or from it, of the kind the caller
  is waiting for, since the code asks again only after an answer or gives up. So the
  datagram that ends the wait of `stop_acquisition` answers the stop. `QuietInv`
  adds, for the latest call, that everything that was on its way when it began, or
  that the board was doing, is over or its own, so nothing restarts the board after
  that stop.
- **`AcquisitionProofs!FramesAreOwn`** (`OnlyOwnFrames`). By `QuietInv` what the board has
  to send is of the call's own run, so `OwnInv`, what the task has kept is.
- **`AcquisitionProofs!AckedAreReturned`** (`AckedFramesReturned`). By `AckInv`: no other
  gather task is alive, and as long as its own has not failed, whatever was
  acknowledged, or is on its way to be, is in its frames. Ok means that it has not
  failed.
- **`AcquisitionProofs!AcquisitionImplementsContract`** (`ImplementsContract`). From
  `RunInv` and `StartsAsked` (a start request is on its way only after its call
  has begun), every step maps to one of the contract or changes nothing it sees.
- **`AssemblyProofs!TypeCorrect`, `WellFormedCorrect`** (`EntriesWellFormed`).
  `ShapeInv` adds that the frame that opened an entry has the entry's id.
- **`AssemblyProofs!NothingLostCorrect`** (`NothingLost`). By `CoverInv`: each
  frame read is in an entry that was open when it came or replaced there by one that
  stands for it, and entries are disjoint. That the entry was open then bounds the
  distance of the replacement.
- **`AssemblyProofs!PacketsKeptApartCorrect`** (`PacketsKeptApart`). By
  `PacketInv`: on spaced input packets and entries are one for one, and the first
  frame of an entry is the first of its packet; so the code's test of the distance
  is the test of the packet.
- **`AssemblyProofs!ReturnsOnlyWholePacketsCorrect`** (`ReturnsOnlyWholePackets`).
  By `ReturnInv`: "done" means that every event merged (`EndsAsMerged`), which of a
  slice says that it is gapless from 0 and has a last fragment; and `NothingLost` says
  that each frame, or one that stands for it, is in an entry, which is an event
  (`EventsFacts`: the events are the closed entries and then the open ones by id,
  each once). On spaced input that entry holds fragments of the frame's own packet
  and of no other (`CoveredIsOfPacket`), and a slice of one packet that joins is the
  packet (`SliceIsCut`).
- **`AssemblyProofs!CompleteInputCorrect`** (`CompleteInputBecomesEvents`). On
  spaced and complete input an entry holds one frame for each fragment of its
  packet (`WholeEntry`), and a map that holds each fragment once is iterated as the
  packet was cut, since `InOrder` is the only listing by increasing key
  (`InOrderUnique`). So every entry merges, and packets and events are one for one.
- **`AssemblyProofs!ChainImplementsAssembly`, `ChainKeepsFrames`.** `AllSpec`,
  which the run `assembly` checks, implements the specification of `FrameAssembly`:
  every step after the assembly leaves frames and entries alone. So the theorems
  hold in the chain.
- **`AssemblyProofs!BlocksReadBackCorrect`** (`BlocksReadBack`). At the beginning of a
  packed block one turn of the loop of `extract_data_blocks` pushes what was packed
  and stops at the next one (`TurnAt`, from `PackedFacts`: a payload is shorter
  than a length can say, and a channel less than its modulus, so both are read as
  written). So after as many turns as there are blocks everything is read
  (`PackedIsRead`), and the turns that are left do nothing. `EventsInv` says that the
  events are what `Extract` gives of the packets, one for each, in the order of the
  entries.
- **`AssemblyProofs!PointIsWholeCorrect`** (`PointIsWhole`). By `MakingInv`: what was
  kept and what is still to do are all blocks, `begin_time` is a lead before the first
  one kept, and each channel has the frames of its blocks. That no packet is older than
  the lead makes the 64 bits of the time the true difference (`TimesOfFrames`), and
  `WholeEntry` that the events are those of all packets (`TimesOfEvents`).
- **`AssemblyProofs!RowsInTrueOrderCorrect`** (`RowsInTrueOrder`). By `ConvertInv` the
  rows are what was taken, listed by key. With distinct times and channels the last
  frame of a key is the only one (`OnlyOfKey`), so rows and blocks kept are one for
  one, and the key orders them as their times and channels do (`KeyFacts`); the place
  of a row is then the number of blocks before it (`InOrderFacts` of
  `SequenceLemmas`).
- **`MStreamMergeProofs!TypeCorrect`, `LoopComputesMerge`** (`ComputesMerge`). By
  `LoopInv`: the fragments behind the loop have no gap, the running offset is the
  one expected here, and the flag is set if one of them was the last.
- **`MStreamMergeProofs!AcceptedSlicesGapless`, `OnlyWholePacketsAccepted`,
  `WholePacketsAccepted`** (`AcceptedIsGapless`, `AcceptsOnlyWholePacket`,
  `WholePacketAccepted`). From `Merge`, with what a packet is cut into: offsets that
  grow by the length of each piece, so that a chain from offset 0 cannot leave one
  out, and, in a slice in order, never come back to 0 by a wrap.
- **`ServerProofs!TypeCorrect`, `CallsFollow`** (`CallsFollowOneAnother`). By
  `OrderInv`: connections are accepted in order, a task that waits for the board
  is dropped when it is aborted, and one that is aborted already enters a call only to
  be dropped in it.
- **`ServerProofs!BackupKeepsPoint`** (`BackupHasPoint`). By `RaceInv` an aborted
  task is over a second before the call that took its place, so one task at most
  has a point at a time; by `NamesInv` the name it gives its file is later than all
  that are in use; so its file is empty when it is created, and nothing but its
  write is on its way to it (`CreatingInv`), which stays so (`StoredInv`).
- **`FrameViewerProofs!TypeCorrect`, `RateIsOfOneBatch`** (`RateOfOneBatch`). The
  buffer, and each batch that was handed over, has one fragment for an id and offset,
  since an insertion replaces and a batch is never touched again. By
  `Exclusive` (at most one thread between taking `counts` and releasing it), what is
  in `counts` is of the thread that holds it or of threads that panicked
  (`CountsInv`), and what was published stays so (`RateInv`): a thread that has
  panicked or ended goes nowhere.
- **`FrameViewerProofs!PacketsAreCountedInTheirBatch`** (`PacketsCountedInTheirBatch`).
  By `ArrivedInv`, the batch of an interval holds, for each offset, a fragment that
  came in it, and an offset of each that came; by `HistogramInv`, which adds that a
  thread past its filling has in the histogram what its batch could join and nothing
  else. Of a packet alone with its id, what can be joined is its whole cut or has
  none missing (`CombinedIsWhole`): a slice in order without a gap cannot have left
  out a piece (`SortedChainIsCut`, from `MStreamMergeProofs` by the instance `Join`).
- **`MLinkProofs!WhatIsReadWasWritten`** (`ReadIsWritten`). By an invariant of the
  loop: the words of the registers read so far are the words passed over.
- **`MLinkProofs!WrittenIsReadBack`** (`OwnReadBack`). If the length fits, the words
  of a list are laid out one register after the other (the `Flatten` lemmas of
  `SequenceLemmas`), so that the loop always stands at the beginning of a register of
  the list. What a fold over a list of any length gives is shown by the least length
  at which it would fail: induction over a set of numbers instead of over an
  operator. If it does not fit, a debug build panicked before, and in a release build
  the slice is shorter than the list, so that what was read cannot be all of it.
- **`SoundAlarmProofs!TypeCorrect`, `SilenceIsBounded`** (`SilenceBounded`). By
  `FolderInv` (the name `ls` gives lags behind the last creation by no more than a
  backup is written to), `SeenInv` (so does what `ls` has seen) and `FreshInv`: what
  the last check found, plus the time since, is what the points can have aged to,
  and the first check is over by `Settled`.
- **`SoundAlarmProofs!AlarmsAreTrue`** (`NoFalseAlarm`). An action property, from
  `SeenInv` before the step.

Only model-checked: all liveness (`CallsReturn`, `GathersEnd`,
`EveryRequestAnswered`, `NobodyWaitsForever`, `PowerFailureSounds`), which the
prover cannot do. Every safety property of a passing run is a theorem.
`BlocksReadBack` speaks of packets of any number of blocks; where that takes an
induction, it is over a set of numbers, as for the lists of registers, and `Extract`
is a recursive function and not a `RECURSIVE` operator for its sake.

## Findings

- `tqdc/src/mstream.rs` 243-258: the test `test_multifragment_wrong_order` unwraps
  the merge of two fragments given in the wrong order. The code returns
  `Err("missing intermediate fragment")` (line 118), so the test panics
  (`merge_wrong_order`). `frames_to_events` sorts them first, so the program is not
  affected: `CompleteInputBecomesEvents` holds.
- `tqdc/src/mlink.rs` 176: "data should not contain header and crc". The loop stops
  one word before the end of its argument, so the caller must pass the CRC word
  along, as it does; without it the last register is lost (`mlink_no_crc`).
- `apps/src/bin/likhovid-converter.rs` 25: "limit output to N frames". The code
  takes the first N times, with the frames of all channels at each
  (`likhovid_limit`).

## Not modelled, and the plan

Every part with behaviour of its own is modelled. What is left out of each module
is said above; in particular the values that floating-point filters give, the
bytes of headers and metadata, and memory.

`start-acquisition`, `get-board-id` and `init-acquisition` send one request and wait
for one reply without a limit; there is nothing to interleave. The build script, the
default values and `resources/scripts/init-network.sh` have no behaviour at run
time.

The plan is done: every safety property that is checked is proved, and what
remains with TLC alone is liveness.
