# A TLA+ verification of SimonSays (ESP32-S3 + INMP441 voice trigger and its server)

SimonSays is a voice trigger in two programs. The **device** (`firmware/`, C on
ESP-IDF) wakes, confirms a wake word, brings up Wi-Fi, streams PCM to the server as
a chunked HTTP POST and goes back to sleep. The **server** (`server/`, C, POSIX
sockets, one thread) ingests the stream, feeds a speech recogniser, matches intents
and decides when to cut the connection. The cut is what sends the device to sleep.

This directory holds TLA+ modules translated from that code, TLC configurations
that check them on small instances, and TLAPS proofs for every value of the
constants. `PROJECT.json` maps every definition to the lines it models and lists
the runs, mutants, hazards, findings and theorems.

    tlc -config MCDebounce.cfg MCDebounce      # one run
    tlapm DebounceProofs.tla                   # one module's proofs

## 1. Inventory

| component | state it keeps | operations | correct when | module |
|---|---|---|---|---|
| cut timer, `server/src/debounce.c` | `debounce_t`: state, reason, three uint32 stamps, command count | init, note_speech, note_command, should_cut | cuts on time, for a limit that is due, once; a clock wrap is not noticed | `Debounce`, `DebounceTimer`, abstract `CutPolicy` |
| connection loop and session, `main.c`, `session.c` | socket, `now_ms`, session's own command count, parser state | recv, feed, tick, answer, close | keeps the timer's contract; answers exactly the cut sessions; always ends; comes back to the devices that wait | `ServerConn`, `SessionTiming` |
| device FSM, `core/src/fsm.c` | `fsm_t`: state, last wake cause, four counters | dispatch of nine events | see the runner | `Fsm` |
| session runner, power, hooks, `app.c`, `power.c`, `power_esp.c`, `app_main.c` | cycles, sleep and false-wake counts, the socket, the Wi-Fi link | one cycle: wake, confirm, connect, stream, sleep | runner and FSM agree; every cycle ends and is counted once; nothing leaks; audio leaves only when asked for | `DeviceApp` |
| streaming client, `core/src/net/stream_client.c`, `net_socket.c` | chunk and poll counters, the scratch buffer | header, poll, read, send, finalise, drain | well-formed stream; true result; always returns; waits long enough for the cut | `StreamClient`, `SessionTiming` |
| protocol encoder, `stream_proto.c` | none | sizes of header, chunk, final | never overruns its buffer | `StreamProto` |
| microphone source, `mic_i2s.c` | speech seen, silence run, frames | read samples, read a frame or end the stream | ends by silence or cap; a short read is not taken for a full one | in `StreamClient`, `SessionTiming`, `KwsModel` |
| Wi-Fi station, `net_wifi.c` | event bits, driver state | init, connect, disconnect, event handler | an attempt is decided by its own events; the radio is off between sessions | `WifiSta`, composed with the runner in `DeviceWifi` |
| HTTP ingest, `http_ingest.c` | parser state, line buffer, chunk remainder | init, feed | result independent of how TCP splits the stream | `HttpIngest`, `IngestWire` |
| recogniser backends, `stt_stub.c`, `stt_whisper.c` | utterance counters, sample buffer, ring of pending transcripts | reset, feed, poll | every transcript delivered once, to the session that spoke it; no overrun | `SttSegmenter` |
| intents, defaults, energy, `intent.c`, `config.c`, `vad.c` | none | table lookup, mean magnitude | first matching entry | not modelled |
| ring buffer, `ringbuf.c` | storage, head, tail, count | write, overwrite, read, peek, reset | a FIFO that counts what it discards | `RingBuf`, abstract `Fifo` |
| wake-word model, `nn/`, `kws_*.c`, `hook_run_kws` | capture window, two scratch buffers | front end, layers, rescaling, decision | no overrun, nothing stale is read, logits accurate and equal to the training framework's | `KwsModel`, `Quant` |
| FFT, mel features, host tools; the training framework but for `quant.py` | — | floating point, offline, file I/O | — | not modelled |

How they interact: `app_run_cycle` calls the hooks, each hook returns an FSM event
and the FSM's action selects the next hook. `hook_connect` and `hook_stream` share
the socket in `app_ctx_t`; Wi-Fi events arrive on another task. Device and server
meet only in TCP. On the server the parser calls back into the session, which feeds
the recogniser, drains its transcripts and reports speech and commands to the timer.

What is hard here, and untested by the repository's host tests: a clock that wraps;
time that passes between reading the clock and using the reading; timers that fall
due together; a server that cuts while the device sends; resets that overtake
closes; a client that never closes; devices that wait in the backlog and block in `send`
while the server recognises; Wi-Fi events that arrive after their attempt is over; a stream cut into buffers at any byte; a recogniser
shared by sessions that are broken off at any sample; resets of the device at any moment; buffers
whose size is chosen in one file and demanded in another. `PROJECT.json` lists each
hazard at its line.

## 2. Modules

**`Debounce`** is `debounce.c` as operators over the record; `ClockMod` stands for
2^32 and `elapsed` is unsigned subtraction. A limit of 0 disables its timer, as in
the code.

**`DebounceTimer`** runs one such record. `Tick` advances the wrapping clock,
`NoteSpeech(late)` and `NoteCommand(late)` report with a reading taken up to `late`
ms ago but not before the last evaluation, `ShouldCut` evaluates. Three history
variables hold the true ages that the stamps should represent. The caller's
contract is `gap <= MaxGap`: timers are evaluated at least that often.

**`CutPolicy`** is the abstract specification: what `debounce.h` promises, in true
ages with no clock and no stamps. Its `Slack` is the timer's `MaxGap`.

**`ServerConn`** is `handle_conn` step by step: `Sample` (the reading before
`recv`), `RecvData`, `RecvNothing` (timeout or EINTR), `RecvEnds`, one `Feed` step
per payload span, and the one or two evaluations at the end of a turn. `Tick` may
fall between any two steps: up to `RecvTimeout` in `recv` and up to `BusyMax` outside
it per turn, which is where a slow recogniser is. A received buffer is a sequence of
spans, each quiet, speech, a command, the final chunk or malformed. It implements
`DebounceTimer` with `MaxGap = RecvTimeout + BusyMax`.

**`Fsm`** is `fsm.c` as a pure function; counters wrap at `CounterMod`.
**`DeviceApp`** composes it with `app_run_cycle`, the power controller and the hooks.
`pc` is the place in the cycle. A *wiring* is a power mode and a backend: `esp`
(deep sleep does not return and the wake cause is that of the boot) or the host
tests' `mock` (returns, any cause). `Reset` is a panic or power cycle at any moment.

**`StreamProto`** computes the encoders' lengths. **`StreamClient`** is
`stream_client_run` with `mic_src_read` and the socket transport, against a server
that reads, cuts with an answer, or drops, at any moment. TCP is external and
modelled by what the code relies on: ordered delivery, reset on data for a closed
socket or on closing with unread data. `KindStack` chooses between a stack that
keeps received data and the close across a reset and one that may lose them.

**`HttpIngest`** is `http_ingest_feed`: one step per turn of its loop, that is, one
line or one payload span. `FeedCall(k)` is a `recv` of any `k` bytes up to `BufMax`.
Bytes are classes (CR, LF, a hex digit, any other byte), header names are one byte long
and the array sizes are small constants. `Decode` is the sample decode of
`session_on_pcm`. **`IngestWire`** holds what the device's encoder writes for any frames,
path, host, session id and confidence, and `Reference`, a parser that works by position on
the whole stream; `MCIngest` adds 15 malformed or unusual streams.

**`SttSegmenter`** is both recogniser backends under `session_on_pcm`: `OnPcm` takes a
span, `FeedSample` and `EndUtterance` consume it sample by sample, `Poll` and `Drained`
empty the ring, and `SessionInit` hands the backend to the next connection. Recognition
and `realloc` are choices. History variables record which session's audio a
transcript was made of, what was made and what was delivered.

**`WifiSta`** is `net_wifi.c`: the main task's steps inside `ss_wifi_connect` and
`ss_wifi_disconnect`, the event task's `on_wifi_event`, and an external driver that
posts events to a queue and may connect, fail or lose the link at any moment. Leaving
a connection posts a disconnect event too, so every session leaves one behind. The
station's contract is that an attempt begins when that queue is empty.
**`DeviceWifi`** puts the station under `DeviceApp`'s hooks: `hook_connect` becomes a
sequence of steps interleaved with the event task, and a reset loses both. That the
queue is empty at the next attempt is not a wait for it but `app_main`'s pause of 2 s
(`Paused`), in which the event task, of higher priority, runs; without the pause the
run finds an attempt failed by the disconnect of the session before.

**`SessionTiming`** puts several devices and the server into one timed model: time is
counted in frames, and it passes when the server is waiting in a call (`ServerWaits`) and no
device has a result to act on (`DeviceWaits`): everything that takes no time happens before the
next tick. Devices connect into the backlog, stream into buffers of `Window` frames, block when these are
full, finalise, drain and may vanish; the server accepts, reads, recognises for some of
`Recogs` frames during which it reads nothing, and evaluates the timers. The timer is `CutPolicy`,
which `ServerConn` implements through `DebounceTimer`. A frame is two things to the two
sides, chosen independently (`FrameKinds`): the device takes it for speech or not (a mean of
300 or more, `mic_i2s.c:157`), and the server hears it as loud (a mean above 500,
`session.c:50` and `config.c:23`), as noise (not loud, but with samples that the recogniser
takes for speech) or as quiet. So the band between the two thresholds is there, and so are frames
that `recv` cuts in the middle of a sample: the server misreads the rest of the chunk
(`session.c:30`, finding 3) and may hear it as anything. The damage ends with the chunk, that is,
with the frame, which is why what will be heard can be chosen when the frame is captured.

**`RingBuf`** is `ringbuf.c`, with the storage and both copies of a wrapping transfer;
**`Fifo`** is what `ringbuf.h` promises, a bounded queue.

**`Quant`** is `quant.c` in words of `2 * Half` values (`Half` is 2^31 in the code), and the same functions of `quant.py`
(`py_...`) in Python's unbounded integers and flooring division. **`KwsModel`** is
`hook_run_kws` with everything it calls: `mic_i2s_read` block by block, the front end,
and each layer of `kws_model_infer` with the cells it reads and writes and the guard
in front of it, over the two static buffers. A cell holds the name of the step that
wrote it in this inference, or "old". Layer values are left out up to the last layer,
whose sums are any that the model allows and whose rescaling is `Quant`'s.

`MCDebounce`, `MCDevice`, `MCStream`, `MCServer`, `MCIngest`, `MCStt`, `MCSession`, `MCRingBuf`
and `MCKws` hold the instances; operators whose names carry a suffix after an
underscore (`Drain_Forever`) are the mutants, each a
plausible bug of the definition below it, used only to show that a property can fail.

## 3. Runs

| run | shows | bounds and why they suffice |
|---|---|---|
| `debounce` | `StampsTrue`, `Punctual`, `CutJustified`, `RefinesPolicy`, `EventuallyCut` | 12 clock values, limits 3/8/5, gap 3: every start, most sessions cross the wrap, all three timers can fall due in one gap, in every order; speech for ever is possible |
| `server` | `CountsAgree`, `AnsweredIffCut`, `RefinesTimer`, `EventuallyClosed` | a turn of up to 3 ms against limits 2/3/4: a limit may fall due inside a turn; buffers with two commands, data after the end, errors; a client that stays silent or sends for ever |
| `device` | `FsmInStep`, `Accounted`, `NoLeak`, `NoUnaskedStream`, `CycleEnds`; with the station: `OwnEventsDecide`, `RadioOff`, `KeepsStationContract` | all six wirings; counters of 3 values wrap; hooks may return every event `app.h` allows; the queue of Wi-Fi events needs no bound, an attempt posts at most three |
| `stream` | `EncodeFits`, `WireFormat`, `CapBeforeBudget`, `CleanCutNoError`, `ResultTrue`, `Terminates` | frames on both sides of a hex digit; scratch one below and at the guard; three chunks, a source that ends before and one that outlives the budget; cut, drop, reset and link loss at every point |
| `stream_cut` (violation) | a mid-stream cut may be an error | kind stack |
| `stream_device` (violation) | the device's buffer is refused | the device's sizes |
| `ingest` | `RoundTrip`, `SegmentationFree` | every cut of 19 streams into buffers of 1 to 7 bytes, longer than any token; payloads made of CR, LF and digits, one- and two-digit lengths, every field at and past its limit |
| `ingest_odd` (violation) | a span of odd length shifts the samples after it | the device's streams |
| `stt` | `EachTranscriptOnce`, `NoCrossTalk`, `AccInBounds` | both backends; the smallest ring, the longest span the assumption allows, a buffer that reaches its limit; two utterances per session, two sessions |
| `session` | `CommandIsCut`, `SilenceEndsUtterance`, `NotCutWhileTalking`, `EverySessionEnds` | a device that captures anything and is heard as anything, with a cap of four frames against a hang of two, and one that never stops talking, a backlog of one (a full one refuses), buffers of three frames under a recognition of three: devices do block, and an utterance fits in front of the final chunk; the drain budget one that is too short and `CutDelay` itself, which is within one of the shortest that suffices |
| `ringbuf` | `Consistent`, `RefinesFifo` | capacities 0, 1 and 3, inputs and requests from nothing to longer than the buffer: every wrap position, every partial and full overwrite |
| `kws` | `ReadsFresh`, `WritesSafe`, `LogitsAccurate`, `OrderKept`, `Parity` | 3,328 geometries, among them maps one cell too large for every guard, filters larger than the padded map, empty maps with more channels than a buffer has cells, models with and without the optional block; a 6-bit word with every sum it holds, shifts of both signs, multipliers over their whole range |

Deadlock is checked in every run; the states in which the
program has ended or waits for a peer stutter explicitly (`Closed`, `Done`,
`Finished`, `Wait`). Every module has a `TypeOK`; where it is not an invariant of a run by
itself it is a conjunct of one (`WireFormat`, `AnsweredIffCut`, ...) or proved.

`CommandIsCut` says that a session in which a command was recognised is ended by the
server and not by the device's patience, provided the drain budget covers `CutDelay`: the
debounce window or a recognition that outlasts it, whichever is longer, one `recv` timeout,
and what the recogniser has fallen behind (`Lag`: a recognition for every utterance that fits into
the buffers in front of the final chunk). The device polls 650 times at about 2 ms, 1.3 s;
the window is 1.0 s and the timeout 0.1 s. So the promise holds while a recognition takes
less than about 1.2 s and keeps up with the utterances; with a slower one the device
may sleep without the answer.

`SilenceEndsUtterance` says when the last utterance is recognised although the recogniser has
no flush: when the device stopped after its hang, which is longer than the recogniser's, and the
server heard the frames of that silence as quiet. Each condition is needed, and
TLC shows an utterance left open without it: the device may stop at its cap in the middle of a word, noise
below its threshold keeps the utterance open, and so does a quiet frame with a torn sample (50
read one byte off is 12800). No sentence of the repository promises more.

**Fairness.** `DebounceTimer`: time passes and the caller evaluates, which
`ServerConn` shows of `handle_conn`, whose `recv` has a timeout. `ServerConn`: time
passes and the thread runs; nothing is asked of the client. `DeviceApp` and `DeviceWifi`:
weak fairness of the main task, whose wait for the Wi-Fi bits times out, and of the event
task; none of the driver, the reset or the wake. `StreamClient`: weak fairness of the
client alone; neither server nor network owes it anything, but every `send` returns.
`SessionTiming`: weak fairness of time, of the server and of the devices that are there;
a device that has vanished owes nothing, and a `send` returns only when the server reads
or closes.

**Findings.** Three runs end in a violation on purpose: each states a sentence of the
repository's documentation that the code does not keep. (1) A cut while streaming can be
reported as an error. (2) `app_main.c`'s scratch buffer (704 bytes) is below what
`stream_client_run` demands (1287), so the device never streams. (3) A `recv` that ends
between the two bytes of a sample makes `session_on_pcm` drop one byte and misread the
rest of the chunk. A fourth divergence is stated in a passing run, because the property says
exactly where it happens: (4) `kws_model.h:80` says that `kws_model_infer` "Returns false if
intermediate sizes exceed KWS_MODEL_SCRATCH", but the global average pool writes one cell per channel
without a guard (`kws_model.c:52`). The guards before it test the sizes of whole maps, so a map
without cells passes with any number of channels. `WritesSafe` says that this is the one way a layer
writes outside its buffer, and that it is always that; the run's `ManyChannels` models reach it.
The models the repository trains are far from it. Three more differences between text and code are modelled as the code
has them: the debounce window is not extended by new speech; the DRYRUN mode really
powers down on the device; a command is stamped with the clock read before the recogniser
ran, so a slow recognition is taken out of the debounce window.

## 4. Proofs

All theorems hold for every value of the constants under the named assumptions, which TLC
evaluates in the runs: `DebounceAssumption`, `TimerAssumption`, `ConnAssumption`,
`FsmAssumption`, `DeviceAssumption`, `ClientAssumption`, `SegmenterAssumption`,
`RingAssumption`, `WordAssumption`, `KwsAssumption`, `MultiplierAssumption`,
`TimingAssumption`, `IngestAssumption` and `EncoderAssumption`. Each inductive invariant was checked by TLC on the run's instance before it was
proved (`IngestInv` with buffers of up to 4 bytes instead of 7, which takes it 3 minutes). Two refinements chain: `ServerConn` implements `DebounceTimer`
(`KeepsTimerContract`), which implements `CutPolicy` (`ImplementsPolicy`).

- **`DebounceProofs`**. The wrap is the difficulty: `elapsed` equals the true age only
  while the age is below `ClockMod`, which holds only because a limit that falls due
  is noticed within `MaxGap`. So the inductive invariant is the conjunction of type
  correctness, `StampsTrue`, `Punctual` and `CutJustified`, with the ages tied to
  the gap; none of them is inductive alone. The assumption is that each limit plus
  `MaxGap` is below `ClockMod` (15 s against 49.7 days). `CutIsFinal` and
  `ImplementsPolicy` (refinement of `CutPolicy`) follow step by step from it.
- **`ServerProofs`**. The loop reads the clock, blocks in `recv`, feeds with that reading
  and evaluates with a new one. `ReadingFresh` says that the reading that stamps a report is
  no older than the last evaluation and the last report; it is what the timer demands of its
  caller, and with `PendingFits` (the spans left in the buffer fit the bound on commands),
  `AnsweredIffCut` and `CountsAgree` it is inductive. `KeepsTimerContract` follows step by
  step. `CutsOnTime` and `FollowsPolicy` then carry the timer's theorems over to a
  connection; only they need the clause of `ConnAssumption` that a limit, a `recv` timeout
  and a turn together stay below the wrap of the clock.
- **`DeviceProofs`**. For the runner, the inductive invariant adds to `FsmInStep` what the
  counters owe in the middle of a cycle; `Accounted` is arithmetic modulo `CounterMod`.
  `ImplementsRunner` shows that the runner with the station under its hooks is still the
  runner, so these theorems hold of the composition.
  The station's invariant `StaInv` says that no event in the queue is of an earlier attempt
  and that every bit set since the bits were cleared was earned by an event of this one; it
  holds only under the calling contract. That the contract is kept needs `Coupled`: where the
  main task is in the hooks and where it is in the station, and that the queue is empty from
  the pause to the attempt. Events may be any number.
- **`StreamProofs`**. `EncodeAlwaysFits`: `hex_digits` is monotone, hence so is the
  overhead, hence the guard on `scratch_len`, made once for the largest frame,
  covers every frame that is delivered. The other theorems share one invariant: `Format`
  (what is on the wire, and how that goes with where the client is), `Piped` (the server's
  bytes, its buffer and the network's, in a row, are the wire), `Counted` (one frame was read
  for every chunk sent) and `Told` (nothing comes from a server before it closes, and one
  that had read everything sends no reset). `WireFormat` needs the first two,
  `CapBeforeBudget` the third, `ResultTrue` and `CleanCutNoError` the fourth, which is
  inductive only with the others.
- **`InputProofs`**, of the recogniser. The ring drops a transcript silently when it is full, and after the
  stub's script has advanced. That it never is full follows from the lengths: a span
  (1024 samples at most, since `recv` takes 2048 bytes) is no longer than the hang
  (4800), so it ends at most one utterance, and the ring is drained after each span.
  The invariant says so step by step: `OneWaits` (at most one transcript waits and it
  is the last one made) and `RoomForNext` (while one waits, the silence counted plus
  the rest of the span stays below the hang). `OwnAudio` ties every counted sample to
  the session being served. From these: `TranscriptsDelivered`, `SessionsSeparate`,
  `SamplesInBounds`, for every ring of two slots or more.
- **`InputProofs`**, of the parser. `CutsDoNotMatter` compares a machine that keeps a state
  between buffers with `Reference`, which keeps none. The inductive invariant `IngestInv` says
  that the buffer and the line array hold the bytes of the stream at the positions they should
  (`BufInv`, `LineInv`), and `MeaningInv`: for *every* length the stream may be received to, what
  `Reference` says of it is what was passed on so far, followed by what `Reference` says from
  the parser's state and position on (`Rest`). It is stated for all longer prefixes, and not
  only for the bytes received, because a step decides about bytes that a later buffer
  completes. Each step of the loop moves the border between the two parts; between two calls
  the second part is empty (`WaitsForMore`), which is the theorem. `IngestTypeCorrect` is the
  part of it that says that no array is overrun.
  `DeviceStreamsArrive` then only has to show that `Reference` reads back what the encoder
  wrote: `SizeRoundTrip` (the hex digits give the size back, below the wrap of a `size_t`),
  `EncodedLine` (a written line is found again), `HeaderIsRead`, `ChunkIsRead` and `FinalIsRead`,
  put together frame by frame from the end (`StreamIsRead`). `EncoderAssumption` is what the
  device's configuration must keep: a path without spaces that fits the server's `path`,
  values without LF, and lines that fit the line buffer (512 bytes); `stream_proto.c` checks
  none of these.
  Recursive functions are reached through `Recursion` (a definition whose rank decreases has a
  solution) and `RankInduction`, which take sets and functions where the library's theorems
  take operators.

- **`RingBufProofs`**. The inductive invariant is `TypeOK` and `Consistent` (`tail` is
  `head + count` around the storage); the indices are below the capacity only together
  with the modulus, so neither is inductive alone when a call moves two of the three.
  `ImplementsFifo` shows that every call is a step of `Fifo`, for every capacity (zero
  included), every input and every wrap position. Its core is `PutBehind`, which follows
  one byte through the two copies of `rb_put`, and `KeptThenData`: bytes put at the tail
  follow the bytes kept, whatever was dropped at the head in the same call. Writing,
  overwriting in part and overwriting everything are instances of it or of `PutBehind`;
  reading is `CopiedIsFirst` (the two copies out give the first bytes stored) and
  `TurnTwice` (advancing the head renumbers the rest).

- **`KwsProofs`**. The invariant `KInv` says which map a layer finds (`Chained`: the two
  scratch buffers take turns) and that every cell of it was written by the step before, in
  this inference (`Held`). One lemma per layer shows that it reads cells of that map only and
  that the cells it writes are below its buffer's size; the arithmetic is in `CellBound` (a
  row-major index is below the product of the dimensions), with dimensions of either sign.
  The pool has no guard of its own, and the guards before it test whole maps, so that an
  empty map passes with any number of channels. `WritesInside` assumes nothing about that: it
  proves that the pool leaves its buffer exactly when the channels outnumber the cells, and that
  the map is then empty (`ManyChannelsEmpty`); `NothingStaleRead` allows the last layer
  to read behind the buffer in that case only. `LogitsAgree` compares C's truncating and
  wrapping arithmetic with Python's for every word width. `RescalingAccurate` is
  `NudgeNearest` and `ShiftNearest` (each rounding is to the nearest) put together by
  `TwoRoundings`; `RescalingKeepsOrder` is the monotony of each part of the rescaling, and
  the existence of a first largest logit, by the well-foundedness of the naturals (`Least`).
  They need `MultiplierAssumption`: a multiplier that is not negative, which is what
  `nn_quantize_multiplier` returns, and a shift for which C defines `<<` and `>>` of an `int`
  (-31 to 30); `Powers` goes through these 32 powers, since the provers know `2 ^ k` for
  numerals only.

- **`SessionProofs`**, for any number of devices. A step is seen from each device: it rests,
  joins, leaves, gives up, flushes, captures or polls, or the server reads an item of its
  connection (`Moves`); the invariants are about one device and what its connection holds, and
  are preserved by each of these. `SilenceEnds`: `StillOf` is the part of the
  device's silence that the server will hear as quiet, the frame that becomes the final chunk
  not counted, and 0 once one of its frames is heard otherwise; the items in the buffers and in
  the blocked send, read in order, lead from the recogniser's silence count to it (`StillInv`).
  When the final chunk is read nothing is left to read, and `HangFrames - 1` quiet frames are
  enough to end an utterance.
  `TalkersKeepTheirSession`: after a turn that found the buffers empty the speech age is at most
  a timeout (`LooseInv`), a loud frame that waits was sent since, and what the recogniser holds
  the server up is bounded by one utterance (`TalkInv`: `BusyTalk`, `LoudTalk`, `RunTalk`).
  `CommandsAreCut` weighs what waits in front of the final chunk, with the part of an utterance
  already heard, in recognitions (`Weight`, `Load`): the polls of a device that drains, plus the
  load still ahead, never exceed `Lag` plus what is over of the recognition at hand
  (`BusyPatience`, `LoadPatience`); after a command they are tied to the command's age
  (`WindowPatience`), which the timers keep below the window but for one timeout (`WindowInv`).
  The proof corrected the bound: an earlier `Lag` counted the utterances of the stream and not
  those that a device, accepted late, already had in the buffers, and TLC confirmed the
  counterexample on an instance with longer buffers.

Only model-checked are the liveness properties (`EventuallyCut`, `EventuallyClosed`, `CycleEnds`,
`Terminates`, `EverySessionEnds`), which are beyond the prover.

## 5. Not modelled

- Sample values and energy as numbers (`vad.c`): a frame is speech or not, loud, noisy or
  quiet, and each threshold comparison is a choice between these. Header names as text, a NUL inside a
  header line, recognition and intents as text (`intent.c` is a pure table lookup),
  `main()`'s option parsing, I2S registers.
- FFT, mel features and softmax are floating point. Of the layers, what is modelled is
  where they read and write and what guards them, not the values of the hidden layers;
  `kws_mlp_forward` is not called by the firmware.
- Of the kernels, some remarks that no run is about. The output size of a layer whose kernel exceeds the padded map is a
  truncating division in C and a flooring one in Python; both give a size that is refused or
  empty except with a stride above 1. The left shift `x * (1 << left_shift)` and the addition
  of the zero point may overflow an `int32_t`, which C leaves undefined; `Quant` wraps both,
  and `LogitsAccurate` and `OrderKept` speak of the sums with which neither happens
  (`InRange`). The Python reference wraps the first like the word does, and does not wrap the
  second: `Parity` excludes that overflow alone (`SumFits`). It takes a sum within a byte of
  the word's end. `nn_quantize_multiplier` rounds half away from zero and Python half to even.
- `StreamClient` takes every `send` to return; blocking sends, and that they end, are the
  subject of `SessionTiming`.
- The training framework but for `quant.py`, WAV and deployment tools and the POSIX
  transport of the host tools: offline, or test scaffolding around the code modelled here.

## 6. Plan

Done, in the order of importance: the cut timer and its policy; the connection loop that
drives it; the device's cycle; the streaming client; the parser and the recogniser between
them; the Wi-Fi station under the runner; devices and server in one timed model; the ring
buffer; the wake-word model; the proofs of every safety property the runs check.
Left: what the parser keeps of the headers (session id, confidence), which the server does not
use, as a round trip; the parts of section 5.
