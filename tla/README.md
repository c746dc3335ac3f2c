# Verification of go-ntrip

go-ntrip is a set of Go programs that read the byte stream of a GNSS device, cut
it into RTCM 3 messages (and whatever lies between them), decode the messages
and filter, display, log or forward them.  This directory holds TLA+ models of
the parts of it that carry state, the TLC runs that check them on small
instances, and proofs, checked by TLAPS, of what holds for every instance.

## 1. The system

Paths are relative to `src/`.

| Component | State | Operations | What makes it correct |
|---|---|---|---|
| **RTCM framer** `rtcm/handler/handler.go`, `rtcm/pushback/byte_channel.go` | pushback buffer, frame buffer, phase of `FetchNextMessageFrame` | `HandleMessages`, `FetchNextMessageFrame`, `eatUntilStartOfFrame`, `getMessageLengthAndType`, `GetMessage`, `CheckCRC`, `GetNextByte`, `PushBack` | no byte is lost, duplicated or reordered; only valid frames get an RTCM type; a valid frame is not cut; the end of the input flushes what is held |
| **File handler** `file_handler/file_handler.go` | time of the first of a run of EOFs, buffered reader | `Handle` | every byte read is sent; it gives up only after the device has been silent for `TimeoutOnEOF`; a silent device does make it give up |
| **Input connection** `jsonconfig/jsonconfig.go` | `connectionFailureLogged`, the read deadline of the open file | `WaitAndConnectToInput`, `getInputFile` | the first file that opens is used; one log entry for a run of failures; the deadline does not cut a live connection |
| **AppCore** `apps/appcore/app_core.go` | the message in hand, the channels | `HandleMessages`, `HandleMessagesUntilEOF` | every message to every channel, in order, also across reconnections |
| **rtcmfilter, displayrtcm3** `apps/rtcmfilter/main.go`, `apps/displayrtcm3/main.go` | one goroutine per channel | `HandleMessages`, `writeRTCMMessages`, `writeReadableMessages`, `DisplayMessages` | what was received is written before the program ends; one failing output does not stop the others |
| **Times of messages** `rtcm/handler/handler.go` (`New`, `get*FromTimestamp`, `getUTCFrom*`) | start of the current week, previous timestamp (per constellation), previous GLONASS day | `GetMessage` on an MSM | a timestamp is turned into the UTC time at which it was sent, over week rollovers |
| **MSM decoding** `rtcm/header`, `rtcm/type_msm4`, `rtcm/type_msm7`, `rtcm/type1005`, `rtcm/type1006`, `rtcm/utils` | none | `GetMSMHeader`, `GetSatelliteCells`, `GetSignalCells`, `GetMessage`, `GetBitsAsUint64`, `GetBitsAsInt64`, scaled ranges | every cell is decoded with the satellite and the signal it belongs to; nothing is read past the message |
| **Circular queue** `apps/proxy/circular_queue/circular_queue.go` | map from index to message, next index, lock | `Add`, `GetMessages` | it holds the last `MaxItems` messages, in order |
| **Report feed** `apps/proxy/reportfeed/reportfeed.go` | last client and server buffer, lock | `RecordClientBuffer`, `RecordServerBuffer`, `Status`, `SetLogLevel` | what a status page shows stays while it is made; no deadlock between the feed's lock and the queue's |
| **Proxy** `apps/proxy/tcpprox.go`, `apps/proxy/tls.go` | connections, sessions, byte and message channels | `start`, `handleClientMessages`, `handleServerMessages`, `connectToServer` | each side gets the other's bytes unchanged; what clients send is recorded once and in order while the log is on; sessions end |
| **rtcmlogger** `apps/rtcmlogger/main.go` | error flags, recorder channel | `main`, `recorder`, `writeRTCMLog`, `writeToStdout` | every block is written to stdout and to the log; a run of errors is reported once |
| **Log pusher** `apps/rtcmlogger/logger/writer.go` | current log file, time of the last push | `Write`, `maybePush`, `pushLogs`, `logControl` | old logs are pushed once a day |
| **Serial grabber** `apps/serial_usb_grabber/main.go` | current port | `GrabFromPorts`, `GetConnection` | bytes are copied; a lost port is replaced |
| **Command line, config** `apps/*/config`, `apps/proxy/tcpprox.go` (`SetConfig`) | config | `GetConfig`, `SetConfig` | the command line overrides the file |
| **Thermostat pages** `app.js`, `settings.js` | browser local storage | settings and override handlers | unrelated to GNSS |
| **RTKLIB's RTCM 3 codec** `c/rtklib` | `rtcm_t`: time, station, buffer of observations, tables of lock times and phases, ephemerides, corrections, station record | `gen_rtcm3` and the encoders, `input_rtcm3` and the decoders | an epoch is handed over once and is of one time and station; times, weeks and phases that were cut to their fields are found again; a slip is shown, and only a slip |
| **BNC's RTCM 3 decoder** `c/BNC` | `_CurrentTime`, list of observations, buffer | `Decode` | the same as the decoder above; not built |

### How the parts interact

    device -> [bufio.Reader] -> file handler --byteChan--> RTCM framer --messageChan--> AppCore
                                                                         |-> channel 1 -> writer
                                                                         |-> channel 2 -> display
                                                                         `-> channel 3 -> recorder

The file handler, the framer, AppCore and every consumer are goroutines.  All
the channels are unbuffered (displayrtcm3's has room for two messages), so a
consumer that stops holds up everything behind it.  The end of a session runs
down the pipeline as a chain of channel closings: `Handle` closes the byte
channel when it returns, `HandleMessages` then closes the message channel,
AppCore sees that and returns (or connects to the input again).

The proxy has two goroutines per client session, which share one framer and,
with the status page, the report feed and the circular queue.

    client <--> session --byteChan--> RTCM framer --messageChan--> keeper --> queue, log
                   |                                                            |
                   `--> report feed (lock) <------------ status page -----------'

The C code is the reference from which the Go decoders were made, and the only
encoder in the repository.  Encoder and decoder run at the two ends of a line and
share nothing but the frames.

### What is hard here

  - interleaving: three or more goroutines between a byte and a file, sessions
    of the proxy that share a framer, a report that reads what sessions write;
  - stopping: a chain of closings, a program that ends while its writers are
    still writing, two owners of one channel;
  - failure: a writer that stops reading its channel, a device that goes
    silent, a read deadline that passes, a port that cannot be opened;
  - time: retries and timeouts, weeks that roll over, a daily push;
  - framing: false start bytes, corrupt lengths, the input ending anywhere;
  - fields that are too short for what they mean (times of week, week numbers,
    phases, lock times): the receiver has to find the rest in what it remembers,
    while frames are lost and either end restarts.

## 2. The plan

In the order of what matters most to a user: first the way of a byte from the
device to a file, then the times that the messages show, then the proxy, then the
programs at the edge.

| | Modules | Composes | Abstract specification | Theorems | State |
|---|---|---|---|---|---|
| 1 | `RtcmFramer` | - | `MessageStream`: the stream is cut into messages, in order, nothing left out | conservation, typing, framing, refinement | done |
| 2 | `FileHandler` | - | - | nothing taken is lost, a timeout has its reason | done |
| 3 | `Pipeline` | file handler, framer and consumers, each reduced to what the others see of it | `Broadcast`: every listener gets every message before anyone gets the next | no loss, no mixing, flush, lag, refinement | done |
| 4 | `CircularQueue` | - | - | latest messages, snapshots | done |
| 5 | `MessageTime` | - | - | right times for a week, none in the future | done |
| 6 | `Proxy` | sessions, a framer reduced as in `Pipeline`, the queue and the report feed with their locks | `Relay`: each end gets the other's bytes, in order | copied once, refinement, reports that hold still | done |
| 7 | `Rtklib`, `RtklibDecoder`, `RtklibEncoder`, `RtklibLink` | encoders of base stations, a line that loses frames, a decoder | - (what was measured, kept beside the link) | what the helpers find again, lock times; every message keeps the buffer; the link's invariant, right times, corrections and ephemerides | done |
| 8 | `RtcmLogger`, `LogPusher` | reader and recorder | a run of errors is reported once | what is written at the end | not done |
| 9 | `MsmDecoder` | - | reference definitions of cells and scaled ranges | each cell once, nothing read past the end | not done |
| 10 | `SerialGrabber`, `InputConnection`, `ProxyConfig` | - | - | a working port is found | not done |

`Loops` models nothing: it is induction for the loops of the code, for the proofs.

Modules about which something is proved have no `RECURSIVE` operator, take what
varies as CONSTANTS with a named assumption, and have one action per step of the
code.  The `MC*` modules give the constants values.  Where a number of runs asks
more or less the same question, the project keeps the one with the larger bounds.

## 3. The modules

Each step of a model is what a goroutine does between two operations that
another goroutine can see: a channel operation, a lock, an access to shared
data, or a reading of the clock.

### RtcmFramer (and MessageStream)

One action per way in which the loop of `FetchNextMessageFrame` can go on with the
next byte: `EatOther`, `EatStart`, `EatStartAfterOther` (phase 1, with the start
byte pushed back), `LeaderByte` (phase 2, with the check of the leader), `BodyByte`
(phases 3 and 4, ending in `GetMessage`), `EndWithData` and `EndWithoutData` (the
error returns of `GetNextByte`), and `Send`.  Bytes are numbers, so that the leader,
length and type are computed as the code computes them; the CRC is the constant
`Hash`, any function, so what is proved holds for crc24q.  `phase = "panic"` is the
index out of range in the reading of an MSM timestamp.  `stream` is what the file
handler will send; `closed` is set at any point.

`MessageStream` says what is promised whatever the framing: `RtcmFramer` implements
it with the residue `message.raw \o frame \o pushback`.

### FileHandler

`phase` is the place in `Handle`.  The buffered reader takes any number of the bytes
that wait; a failed read is one step (`ReadFails`) and what is made of it another
(`ReturnOnEOF`, `FirstEOF`, `LaterEOF`, `GiveUp`), because time passes and bytes come
between them.  Time is a `Tick` at any point; clock readings are kept as ages, cut off
above the timeout, so the handler can run for ever in a finite model.  The read
deadline is set once, at opening, as in `getInputFile`, and counts down; when it has passed,
reads of the device fail, whatever waits there.  `None` is a device that takes none.

### Pipeline (and Broadcast)

File handler, RTCM handler, AppCore and `NumChannels` consumers.  The framing is left
to `RtcmFramer`: here each byte may complete a message, or be a start byte that ends
other data and is pushed back.  Messages are intervals of the device's bytes, so a
gap, an overlap and a mixing of connections can be seen.  A send on an unbuffered
channel is one step of sender and receiver.  `reconnect`, which `Init` takes from `Reconnects`, tells
`AppCore.HandleMessages` (any number of connections) from `HandleMessagesUntilEOF` (what rtcmfilter
and displayrtcm3 call; no shipped program calls the loop).  `StopOnError` is
`writeRTCMMessages` and `DisplayMessages`, which return after a failed write, its
complement `writeReadableMessages`, which ignores it.  `ClosedAtExit` is the first
channel only, as in both programs.

`Broadcast` is what the listeners rely on; `Pipeline` implements it with `sent` and
`received` as they are.

### CircularQueue

`items` is the Go map, `nextIndex` an int that wraps around.  `Add` is `CallAdd`, `Lock`,
one `Evict` per key removed, `EvictedEnough`, `Insert` (and unlock); `GetMessages` is
`CallGetMessages`, `RLock` (and the listing of the keys), one `CopyItem` per key, `Return`.
The lock is sync.RWMutex, in which a writer that waits keeps new readers out.

### MessageTime

The handler's four starts of weeks and previous timestamps as `New` sets them, the
conversions of `getUTCFromTimestamp` and `getUTCFromGlonassTime`, and a device whose
clock ticks.  `GetMessage` leaves `handler` unchanged, because
`getTimeDisplayFromTimestamp` has a value receiver: all that the conversion sets is in
a copy.  Galileo times are worked out from the start of the GPS week, as in the code.

### Proxy (and Relay)

One action per step of the two goroutines of a session (`up` is the place in
`handleClientMessages`, `down` in `handleServerMessages`), of the goroutine that keeps the queue
and the log (`keeper`) and of a status report (`status`), and one for a change of the log's level.  A byte goes to the RTCM handler
one at a time, so bytes of several sessions mix in one message; a byte is the pair of its
session and number.  The queue is that of `CircularQueue`, whose proofs allow it to be a
sequence with a lock here.  `log` is the file: `rtcmLog.Write` adds its text, or nothing while `logging`
is off, as -q leaves it and as `SetLogLevel` may turn it at any moment; it has the two lines that the proxy
writes when it starts (`TextLines`), and then the messages.  `skipped` is history: the bytes that came
while it was off.  `ClientBreaks` and `ServerBreaks` end a connection at any moment; after
them the loops that only end at EOF go on for ever, as in the code.  `Relay` is what the two
ends of a session see, and `Proxy` implements it with `clientRead`, `serverRead` as what was sent.

### Rtklib, RtklibDecoder, RtklibEncoder, RtklibLink

Each C function that writes `rtcm_t` is an operator from the structure to the new structure
(with the return value beside it): helpers that both ends use in `Rtklib`, one operator per
message type in the other two.  A frame is a record with the fields of the message and its
length, so that the decoders' checks of the length are there; a value that no property tells
apart is the issue it came from.  Fields that are too short are cut as the encoder cuts them,
and found again as the decoder does: times of week and of day, week numbers modulo 1024, legacy
phases in 1500 cycles and 20 bits, fine phases of MSM, lock times in 7, 4 and 10 bits.
The buffer has `MAXOBS` places and an observation `NFREQ + NEXOBS` slots, filled by the
code priorities of rtkcmn.c.

`RtklibLink` puts stations and a receiver at the ends of a line.  `Measure` is the program that
fills `rtcm_t` for the next epoch (phases drift against ranges and slip, records are renewed),
`Send` one call of `gen_rtcm3` and of `input_rtcm3`, whose frame may be damaged, and
`RestartSender`, `RestartReceiver` start an end with an empty `rtcm_t`.  `last`, `handed`, `intact` and
`refused` are history.  A `plan` (chosen first) says what is in view, which messages make an
epoch and what may go wrong, so one run shows fourteen uses of the library.

A loop of the C code over observations, cells or satellites is a `FoldLeft` whose step is an
operator of its own (`SaveCells`, `AddCell`, `SsrSat`, ...), and the satellites of a correction
message are those of the table, in its order (`InOrder`).

## 4. The runs

| Run | Instance | Shows |
|---|---|---|
| `framer` | all streams of up to three segments out of eight kinds (valid frames, start bytes inside, corrupt CRC, zero length, bad leader, other data, a lone start byte), closed after any byte | conservation, typing, framing, the end of the input, refinement of `MessageStream` |
| `framer_complete_header` | the same, and an MSM of two bytes | **finding**: a valid MSM frame shorter than its timestamp stops the handler |
| `file_handler` | up to 3 bytes waiting, waits of 0, 1, 3 and timeouts of 0, 1, 2 ticks; no deadline, one that is past and one after 3 ticks | nothing is lost, a timeout means silence or a passed deadline, silence ends it |
| `file_handler_deadline` | a wait of 2, a timeout of 1, a deadline after 2 ticks | **finding**: Handle gives up with a byte waiting that came less than the timeout before |
| `pipeline` | with and without reconnecting: 4 bytes, 3 connections, one unbuffered channel and one with room for 2, writes that fail | no loss, no mixing, flush before reconnecting, bounded lag, the chain of closings up to the end of the program, refinement of `Broadcast` |
| `rtcmfilter_exit` | 2 bytes, 2 unbuffered channels of which one is closed at the end, writes that do not fail | **finding**: the program may end before its last writes |
| `circular_queue` | 2 places, 5 messages, 2 readers | latest messages, snapshots, readers do not keep `Add` out |
| `message_time` | days of 4 ticks, leads of 1, 2 and 3, every start time of a week, 65 ticks (over two weeks) | right for a week, never in the future |
| `message_time_rollovers` | the same | **finding**: at the first end of a GLONASS week after the start, GLONASS messages are dated a week early |
| `proxy` | 2 sessions of 2 and 1 client bytes and 1 byte of a server, one with ends that may break and a server that may stop reading, a log that starts on and may be turned off and on, a queue of 1, 1 report at a time; four of the bytes, the breaks and the log's going off in a behaviour | traffic unchanged; recorded once, or not at all while the log is off; what a report reads stays; no deadlock of locks and channels |
| `rtklib` | 14 plans: legacy and MSM observations of six systems, ephemerides, corrections, station data; up to 5 epochs, 3 lost frames, 1 restart, over the ends of GPS week 2048 and of a Moscow day | what the decoder says is what was measured |
| `rtklib_rollover` | a legacy plan in which the phase climbs for 5 epochs | **finding**: a second rollover of the phase is a jump that nothing shows |

The properties of each run, with the theorem that states the same for every value of the
constants where there is one (type invariants, `TypeOK` and `TypeCorrect`, are in every module):

| Run | Property | Theorem |
|---|---|---|
| `framer` | `ByteConservation` | `Conservation` |
| | `TypedOnlyIfValid` | `OnlyValidFramesTyped` |
| | `AlignedFrameSentWhole` | `AlignedFramesSentWhole` |
| | `SegmentsSpec` | `FramerImplementsMessageStream` |
| | `InputEndReachesOutput` | |
| `framer_complete_header` | `CompleteHeader` (violated) | |
| `file_handler` | `ReturnsEmptyHanded` | `NothingTakenIsLost` |
| | `GivesUpForAReason` | `TimeoutHasItsReason` |
| | `SilenceEndsIt` | |
| `file_handler_deadline` | `GivesUpInSilence` (violated) | |
| `pipeline` | `NothingLostAtReconnect` | `NoLossAtReconnect` |
| | `NoMessageAcrossConnections` | `MessagesKeepToConnections` |
| | `FlushedBeforeConnect` | `FlushBeforeConnect` |
| | `UnwrittenBounded` | `BoundedLag` |
| | `FanOutSpec` | `FanOutImplementsBroadcast` |
| | `InputEndGetsThrough`, `EndsWithInput` | |
| `rtcmfilter_exit` | `WrittenBeforeExit` (violated) | |
| `circular_queue` | `HoldsMostRecent` | `QueueHoldsMostRecent` |
| | `SnapshotOfRecent` | `GetMessagesIsSnapshot` |
| | `AddReturns` | |
| `message_time` | `RightForAWeek` | `RightTimesForAWeek` |
| | `GlonassRightInItsWeek` | `GlonassRightTimes` |
| | `NeverInTheFuture` | `NoTimeInTheFuture` |
| `message_time_rollovers` | `RightWeekAfterWeek` (violated) | |
| `proxy` | `CopiedOnceUnlessOff` | `CopiedOnce` |
| | `ReportHoldsStill` | `ReportsHoldStill` |
| | `EndToEndSpec` | `ProxyRelays` |
| | `TrafficGetsThrough` | |
| `rtklib` | `EpochAsSent`, `EachEpochOnce`, `StationsApart` | (`BufferOfOneEpoch`, `MessageDecoded`) |
| | `TypeOK` | `LinkTypeCorrect` |
| | `TimeRight` | `TimesAreRight` |
| | `EphAsSent` | `EphemeridesAsSent` |
| | `PhaseContinuous`, `NoFalseSlip` | (`PhaseResolved`, `LockIndicator`, `RestartOfLockIsSeen`) |
| | `CorrectionsOfTheirIssue` | `CorrectionsKeepToIssues` |
| `rtklib_rollover` | `PhaseContinuous` (violated) | |

Theorems in brackets do not state the property but what it rests on in the helpers.  Two theorems
are about formulas that no run checks any more: `OtherDataSentUpToStartByte` (data between messages is
not cut before the next start byte) and `WeekShown` (the start of week shown with a message).

Why the bounds are enough:

- The framer carries nothing over from one message to the next but one pushed back
  byte, so three segments show each kind between two of any others.
- The file handler compares ages with one timeout; two ticks show an age below, at
  and above it, and a wait that is longer than the timeout is among the values.  A deadline of
  three ticks comes before, in and after a pause of each length.
- Three connections show one that begins and ends between two others; four
  messages fill a channel with room for two and the hands of its consumer.
- A queue of two shows an oldest and a newest message; five messages turn it over
  twice while a reader is at work.
- With days of four ticks the three beginnings of weeks fall on different ticks, and
  each lies inside a day, as the 18 seconds of GPS, the 4 of Beidou and the 3 hours of GLONASS do.

- Two sessions show bytes of one between those of the other, in the framer, the feed and the
  queue; buffers of 2 bytes are filled and cut; a queue of 1 turns over.
  `MaxEvents` = 4 lets all four bytes come, or three and a break or the log's going off, or any two of
  these with two bytes.
- The decoder keeps one time, one buffer and, per satellite and slot, one lock time and one
  phase from earlier epochs: four epochs show a first, a lost, a slipped and a later one.
  The steps between epochs lie on both sides of what the lock fields tell apart (1 and 30 s,
  1 and 200 s, 1 and 700 s) and of half a day (six hours, three of them lost).  `MAXOBS` is 4,
  and one plan has five satellites in view.

Deadlock is checked everywhere.  The models have a step for a program that has ended
(`Quiet`, `Terminated`, `Done`).

### Fairness

- The framer, AppCore and the consumers: weak fairness of their steps.  A goroutine
  that can go on is scheduled, and a write to a file returns.
- The file handler: weak fairness of its own steps and of time.  Its reads return: a
  serial line that is opened with a timeout, or has a read deadline, gives EOF or
  an error.  No fairness for bytes, read errors or the loss of a device.
- The queue: weak fairness for a call that has begun, none for calls.  That a waiting
  writer gets the lock is what sync.RWMutex documents, and here comes from readers
  that wait behind it.
- The proxy: weak fairness of the keeper (with the RTCM handler it receives from), of reports that
  have begun and of writes to servers that read; strong fairness of a session that waits
  for the byte channel or the feed's lock, which Go hands on in the order of asking.  None
  for connections, clients, and sessions whose server may stop reading.
- `RtklibLink` has no fairness: nothing there must happen.

## 5. The proofs

TLAPS proves the following for all values of the constants, under the assumptions
named in the modules (each of them is evaluated by a run).

**RtcmFramerProofs**, for all streams and hashes.  The inductive invariant is the types with
`PhaseShape`: what each phase says of the buffers (a frame in phase "leader" is 1 to 4
bytes and starts with a start byte, nothing is pushed back but while other data is
eaten or sent, and so on).  It is needed because the code indexes `frame` on the strength
of the phase it is in.  Conservation then follows step by step, typing from the CRC check
being the only way to a type.  `AlignedFrameSentWhole` needs that the frame held is where
the last message ended, and that its leader has already fixed its length.  For the refinement of
`MessageStream` a byte taken from the channel is its `Take`, one that comes back from the pushback
buffer a stutter, and the residue is the same before and after it.

**FileHandlerProofs**.  `HeldInv` says what is unsent: the buffered bytes, and the one in
hand while it is sent.  A read fails only when the buffer is empty, so Handle returns
with nothing.  `Silence` says that as long as the deadline has not passed the age of the first EOF is at most
the age of the last byte, which is what makes the timeout mean silence; after the deadline a read may fail
while bytes come, and there is nothing more to say (`file_handler_deadline`).  `TimeoutHasItsReason` assumes
nothing of deadlines.

**PipelineProofs**.  `HandlerInv` relates the file handler, the framer and AppCore
(a returned framer has cut everything, AppCore connects only after that), `FanOutInv` says
how far AppCore is with the message in hand, and `FlowInv` that the messages made are
adjacent intervals, none of which contains a start of a connection inside it.  `ConsumerInv` counts
what is in a channel, in a consumer's hands and dealt with.

**CircularQueueProofs**.  The keys are an interval that ends just before `nextIndex`, and the
message at a key is the key plus one; during an `Add` the interval may be shorter at its
lower end.  A reader's result and the keys it has left make up such an interval, which
cannot change while it holds the lock.  All of it assumes `MaxAdds < IntSize`, that the index
does not overflow.

**MessageTimeProofs**.  `Clock`: the handler is as `New` made it, and each constellation's week
is the one before the week that New found, that one, the next, or a later one.
For a week after the start only two of these are left, and the comparison of timestamps
tells them apart.

**ProxyProofs**, for any number of sessions, reports, bytes and breaking ends.  `UpInv` says of each session
that its buffer holds the bytes read last, and that the server has all the others, or, after a write
that failed, the beginning of them; `DownInv` says the same the other way.  What the RTCM handler,
the keeper and the log hold is, one after the other, what the handler was given (`Recorded`), without what came to
the log while that was off (`skipped`): only `TakeByte` adds to it, one byte of one session, and only `WriteLog`
takes from it, a message from the middle (`CopySkips`), so the bytes of each session in the two stay
those from 1 to `Taken`, in one of the two and in order (`CopyOf`), although the sessions mix.  `FeedInv` says that whoever makes
a report holds the feed's lock.  The refinement of `Relay` follows from the first two: a read is its `Send`,
a write that works its `Deliver` of all that was read, and every other step a stutter.

**Loops**.  The loops of the models are folds of the community modules, and the library's
induction theorems take an operator, which the provers cannot instantiate.  So the module takes
the pass of a loop and what each pass keeps as operator CONSTANTS (`Step`, `Good`) and proves
`LoopKeeps` from the least counterexample in a well-founded order; a loop instantiates the module, and
the instance is a first-order fact.  What else the loop may read (`ctx`) is a parameter.

**RtklibProofs**, for all times, phases, lock times, sizes and messages.  First what the helpers
promise: a time is cut into a number of periods and a rest (`Cut`), two times less
than half a period apart are in the same or in neighbouring periods, and then the two
comparisons of adjweek, adjday_glot or adjcp (`Near`) find the distance between them.  That the phase may
leave its range once only is an assumption of `PhaseResolved`, and what `rtklib_rollover` violates.
`BufferOfOneEpoch` is one pass over a message: the buffer it leaves is again one that the next pass may find.

Then the two ends.  `Sound` is what the decoder relies on in `rtcm_t`: the buffer is within `MAXOBS`,
with each satellite once and of one time, and the tables have their places.  `MessageDecoded` says that
decode_rtcm3 keeps it and gives one of its six answers, whatever well formed message comes, of whatever
type, station, cells and satellites; and that it sets the time to the one nearest to the time
known, unless it refuses the message.  `Sender` is the same for an encoder; `FrameIsSound` says that gen_rtcm3 keeps it, writes nothing but
lock times, phases, the lists and the sequence number, and makes a message that is well formed in the sense of
`MessageDecoded` and tells the time of its epoch, or none.  Messages and cells are
loops, and both proofs use `Loops` for each of them.

`LinkInv` puts them together and is the inductive invariant of `RtklibLink`: the encoders of all
stations are `Sender`s whose time is that of the epoch, the decoder is `Sound` and has the options of the
plan.  From it follow `LinkTypeCorrect`, and `TimesAreRight`: the time that a message tells
is that of the epoch (`FrameIsSound`), so the decoder's is the one nearest to what it knew
(`MessageDecoded`), which `WeekResolved` and `DayResolved` make the epoch's.  The assumptions are that there are
finitely many satellites, each of a system and with a number, and that the plans have their types
(`PlansAssumption`); nothing is assumed of the messages a plan sends, of what it loses, or of when an end restarts.

`IssueInv` adds the corrections, which a receiver that has lost some of the messages of an issue holds of several issues
at once.  What a station has for the satellites in view is of one issue, not newer than the epoch, and nothing for
others; of each kind of correction the receiver's table has the issue (`iod`) that its value belongs to (`Table`).  A
restart of the station keeps the issue, one of the receiver empties the table.  A message says of each
satellite only what the station has for it and carries the issue of all of them (`IssuesEncoded`);
decode_ssr writes value and issue of the same kinds (`IssuesDecoded`), for a combined message those of orbit and clock.
That the list of satellites in a message holds each of the station's satellites follows from counting ranks (`RanksReached`):
the encoder goes through its table in order, and `SatellitesListed` finds the place of each.
`CorrectionsKeepToIssues` assumes that a plan has fewer than 255 epochs: an issue's number must fit the shortest field
of an IODE, which has 8 bits; with more issues than that one IODE would stand for two of them.

`EphInv` adds the ephemerides.  Every ephemeris that a station or the receiver holds is that of some issue of the plan, and
the issue determines all of its fields (`Held`, `StockedEph`); a station's are all of one issue, not newer than the epoch.  A message carries
the issue's fields cut to their sizes (`EphSent`), and the decoder finds the week again from the receiver's
clock or last time (`WeekNumberResolved`, `EphDecoded`), for GLONASS the day (`DayResolved`), because the issue is near enough
to both (`InReach`).  An ephemeris that is dropped as unchanged has the IODE and the time of the one held, and two issues of a
plan with the same ones are the same issue.  So `EphInv` with `EphAsSent` is inductive beside `LinkInv`.  `EphemeridesAsSent`
assumes of each plan that it is `Paced`: epochs at most `S` seconds apart, fewer than 255 of them (31 with
BeiDou's IODE of 5 bits), the first in a week that the code can know (1560 to 5000), the whole with the error
of the receiver's clock within 500 weeks, and with GLONASS messages within half a day, the half hours between its
ephemerides counted; and that no GPS satellite has the number of one of SBAS (`GpsIsNotSbs`; `MAXPRNGPS` is 32).  TLC
evaluates that the plans of the run are so (`PaceAssumption` in `MCRtklibLink`).

Only model-checked:

- everything under fairness (`InputEndReachesOutput`, `SilenceEndsIt`, `InputEndGetsThrough`, `EndsWithInput`,
  `AddReturns`, `TrafficGetsThrough`), which is beyond the prover;
- `EpochAsSent`, `EachEpochOnce`, `StationsApart` and `PhaseContinuous`: these hold of plans, not of all of them.  A legacy
  message with `sync` FALSE that has no satellites (or `MAXOBS` of them) hands over what is in
  the buffer, be it the epoch before; a plan that sends only types 1002 and 1010, which do not set
  `obsflag`, may mix stations; a phase that rolls over twice jumps (`rtklib_rollover`);
- `NoFalseSlip`: it relates what the decoder keeps to what an encoder had at an earlier epoch, for which
  `LinkInv` has to be extended by a history of lock times.

## 6. Not modelled, and noticed on the way

Not modelled: rtcmlogger and the log pusher, the MSM decoder in Go, the serial grabber, the
search for an input file, the merging of configurations (see the plan); BNC's decoder, which
does the work of RTKLIB's with classes that are not in the repository; of RTKLIB, what the RTCM 3
codec does not call, and the reading and writing of files.  Not to be modelled: the text of
displays and pages, command lines, the thermostat pages.

Left out of what is modelled: AppCore's stop message (no handler produces one, since a is a 12-bit number or -1) and nil channels (no program passes one).

Met while modelling, and seen in the models with other constants, but without a run of
their own:

- The README of the proxy (`apps/proxy/README.md:41-43`) says of `proxy -c proxy.json -q` that it "makes a verbatim copy of the
  data that passes through" in the log.  It does not: -q turns the log off (`tcpprox.go:116`), as a control
  request may (`reportfeed.go:50`); what a server sends is never given to the log (`tcpprox.go:263-280`); and the
  proxy's own lines of text go to the same file (`tcpprox.go:174`, `:375`).  In the model the log stays
  empty with `Verbose = FALSE`, unless a control request turns it on.  `CopiedOnceUnlessOff` says what does hold of it.
- With writes that fail in rtcmfilter (`StopOnError` all, `WritesFail`) `EndsWithInput` fails and the
  program hangs: nobody receives from the channel of a writer that has returned (`rtcmfilter/main.go:129`).
- A message sent in the week of the start time, but before it, is dated a week late
  (`handler.go:162`), while `README.md` allows any start time in the week of the first observation.

Noticed while reading:

- A second way to the wrong week, beside that of `message_time_rollovers`: of GPS, Galileo and Beidou, whose previous
  timestamps `New` does set, the first end of a week is seen (`RightForAWeek`), but as what is found is lost with the copy of the
  handler, at the second the week is wrong for these too.
- Data between two messages is cut at each false start byte, while
  `rtcm/utils/utils.go:24` speaks of a single non-RTCM message.
- From the second EOF on `Handle` sleeps for `TimeoutOnEOF` (`file_handler.go:140`), not
  for `WaitTimeOnEOF`.
- The start of week shown with a message after a rollover is that of the week before
  (`handler.go:476`), by the value receiver that `message_time_rollovers` is about.
- When `NextIndex` overflows (`circular_queue.go:69`) the newest messages have the smallest
  keys and are the ones removed.
- A session of the proxy whose client fails with anything but EOF never ends
  (`tcpprox.go:256`), nor does its other goroutine after an EOF of the server (`:275`).
- RTKLIB: half-cycle ambiguity adds 3 to a loss of lock of 1 (`rtcm3.c:1735`); an old
  epoch is never cleared from a full buffer by types 1002, 1004, 1010 and 1012 (`rtcm3.c:267`); the code of
  signal 8I is missing from `obscodes` (`rtkcmn.c:227`); `update` of a correction is set by the
  decoder and never cleared (`rtcm3e.c:1379`); the C2 term is encoded in units of 1E-8 and decoded
  in units of 2E-8.

## 7. Running it

    tlc -config MCPipeline.cfg MCPipeline.tla
    tlapm PipelineProofs.tla

A run is a configuration `MC<module>[_<question>].cfg` of the module `MC<module>`.  Definitions
whose comment begins with "Mutant of" are variants of the definition they name with
a plausible bug in it; put in its place, each of them makes a property of the module's
run fail.  `PROJECT.json` lists components, runs, mutants, theorems and hazards, and maps each
definition to the lines of the source that it stands for.
