# Vapor Tap in TLA+

A specification of Vapor Tap, the audio capture library and command line in `src/`, with
models that TLC checks and theorems that TLAPS proves. Vapor Tap captures system or
application audio (WASAPI on Windows, Core Audio taps on macOS), writes it to a WAV file, or
converts it to 16 kHz speech and streams it to a FunASR server over a WebSocket.

Paths such as `funasr.rs:318` mean `src/src/asr/funasr.rs`, line 318; the crate is `src/src/`.
`PROJECT.json` maps each definition to the lines it stands for.

## 1. The system

| Component | State | Operations | Meets |
|---|---|---|---|
| FunASR connection, `asr/funasr.rs` | task, bounded queue of commands, waiting senders, event channel, oneshot, socket | `connect`, `input`, `try_send`, `send`, `finish`, drop, `run_connection` | server (WebSocket), producers (mpsc), reader of events |
| `transcribe`, `main.rs` | stop flag, audio worker, transcript writer, files | `transcribe`, `write_transcript_events` | capture session, normalizer, WAV writer, FunASR connection |
| `capture`, `main.rs` | stop flag, worker, file | `capture`, `capture_to_wav`, `receive_frame` | capture session, WAV writer |
| WAV writer, `wav.rs` | file, `data_bytes`, header | `create`, `write_frame`, `finish`, drop | the two commands |
| Speech normalizer, `audio/normalize.rs` | two buffers with offsets, resampler, `finished` | `new`, `push`, `finish` | audio worker |
| Capture session, `lib.rs` | platform session, frame channel, error channel | `start`, `frames`, `check_health`, `stop`, drop | the commands, the platform |
| Windows session, `platform/windows.rs` | drain thread, stop flag, ring | `start`, `stop` | backend thread through ring and flag |
| WASAPI backends, `platform/windows_backend/` | capture thread, `stop_flag` (also the termination flag), setup report | `start`, `stop`, `capture_loop` | the device, the ring |
| macOS session, `platform/macos.rs` | tap, aggregate device, IO procedure, stop flag, two threads | `start`, `stop`, `build_tap_chain`, callback | Core Audio |
| Applications, `lib.rs` and the platforms | none | list, `resolve_audio_application` | the operating system |

How they interact. The device's thread pushes samples into a ring. The drain thread takes
frames out of it and offers them to a bounded channel, dropping them when it is full. The
command's blocking worker receives frames, asks after the session's health after each, and
writes or converts them. In `transcribe` the chunks go by `try_send` into the bounded queue of
the FunASR task, which alternates between sending them and reading replies; events go through
an unbounded channel to the writer thread. Ctrl+C sets a flag that the worker polls.

What is hard here, and what has to be true:

- **FunASR connection.** Producers, an owner, a task and a server interleave; any future may be
  dropped at any await. Speech must reach the socket in order, without gap or repeat, the end
  of speech last; the event stream and the result must agree; everything must end.
- **transcribe.** Three actors fail independently and are joined in sequence. A success must be
  complete; a failure must not cost results; Ctrl+C must work wherever everybody is.
- **capture and WAV.** The recording may end between any two frames or in the middle of one; the
  file must be finalized and its sizes right at the limit of 4 GiB.
- **Windows capture.** One flag is both the order to stop and the report of a failure. A stop must
  not look like a failure, a failure must be reported, and no thread may be left behind. Ring and
  channel overflow independently.
- **Normalizer.** Two buffers are compacted at different times; no sample may be lost or moved.
- **macOS capture.** A chain of four objects is unwound from wherever its construction failed; one
  flag stops everybody, and a panic in the callback raises it before its error is queued, so that
  it is reported while the session is torn down. Buffers per channel are woven into one.
- **The start.** A selector may fit several applications; a backend is chosen by the system's
  version, its format looked up before its endpoint is; a setup of ten steps fails at any of them
  and must release what it holds, while endpoints move and an activation completes late.

`PROJECT.json` lists the hazards one by one, at their lines, with the property that covers each.

## 2. Modules

| Module | Models | Actions |
|---|---|---|
| `TranscriptSession` | what a FunASR session promises: a stream of results ended by at most one terminal event, and an outcome that agrees with it | `Transcribe`, `Acknowledge`, `Succeed`, `Fail`, `Abort` |
| `FunAsrConnection` | the connection in full; implements `TranscriptSession` | one per await and branch of the task, per call of a producer, per move of the owner, per step of the network |
| `TranscribeCommand` | `transcribe` and the transcript writer, around a `TranscriptSession` (INSTANCE) and a counted queue | one per step of main, worker, session, writer |
| `WavWriter` | the file and its sizes | `Create`, `Write`, `Finalize`, their failures, `DropWriter` |
| `CaptureCommand` | `capture`; EXTENDS `WavWriter` and composes its operations | one per step of main and worker |
| `CaptureContract` | what a `CaptureSession` promises: whole frames in order, every sample in the place of its channel, alarms for real failures only, no frame more after the end | `Starts`, `Deliver`, `Receive`, `Breaks`, `Alarms`, `Stops`, `Stopped` |
| `WindowsCapture` | `CaptureSession` over the Windows session and either WASAPI backend; implements `CaptureContract` | one per atomic step of capture thread, drain thread, caller |
| `MacCapture` | `CaptureSession` over the macOS session; implements `CaptureContract` | one per step of the capture thread (construction, stop loop, each destruction), the IO procedure, the drain, the caller |
| `Applications` | the listings of both systems and the resolver | operators |
| `CaptureStart` | from `--app`, `--pid` or a device to a running capture: resolver, fallback, cached format, each setup step of either WASAPI backend; EXTENDS `Applications` | one per decision and per setup step with its failure, one per release, the world's changes |
| `SpeechNormalizer` | `push` and `finish` as functions of the two buffers | `Push`, `FinishConversion` |
| `FunAsrConnection_proofs`, `WindowsCapture_proofs`, `MacCapture_proofs`, `CaptureStart_proofs`, `CaptureCommand_proofs`, `TranscribeCommand_proofs`, `SpeechNormalizer_proofs` | theorems about the module of that name | |
| `SampleLemmas` | lemmas the proofs share: sequences of numbers cut and joined, whole frames, channels that take turns, the least natural number of a set | |
| `MC...` | finite sets of replies, bursts, frames and packets for TLC | |

The abstract session is used twice: `FunAsrConnection` is checked and proved to implement it,
and `TranscribeCommand` is built on it instead of on the connection. What the command relies
on besides it, that chunks move and that `finish()` ends, is what `AcceptedSpeechMoves` and
`CallsEnd` say of the connection. `CaptureContract` plays the same part for the capture: both
platforms are checked and proved to implement it, although one tells a failure by the backend's flag and the
other by a panic in the callback, and one counts a sample per moment and the other per channel.
The three modules of a capture meet in time: `CaptureStart` ends where the threads of
`WindowsCapture` and `MacCapture` begin, and stands for the one setup action of the former.

### How the models correspond to the code

`FunAsrConnection`. `pc` is the await at which `run_connection` is suspended; everything
between two awaits is one action. `hand` is the command the task took from the queue and is
sending: while `socket.send` waits, the select does not read. `queue` and `waiting` are tokio's
bounded channel: waiting senders own free slots first come, first served, and `try_send` finds
one only when slots remain. `submitted` is a history of what the queue accepted. `owner` is the
holder of the client; `dropped` aborts the task, `detached` is a future dropped at an await where
the `JoinHandle` is already a local. An early acknowledgement ends the task from the select
loop (`funasr.rs:318`), one after the end of speech goes on to close the socket. `TaskReturns`
is the wrapper of `funasr.rs:141-154`: it also settles the oneshot. The network is external: it
accepts commands up to `NetCapacity` ahead of the server, replies anything, or breaks and
loses part of what is in flight. A server message keeps the fields the code branches on.

`WindowsCapture`. A step is a read or write of one shared object: the two flags, the ring, the
frame channel, the error channel. So the drain's poll of the ring, its look at the backend's
flag and its second look at its own flag (`windows.rs:93-95`) are three actions, and `stop()`
is `CallStop`, `FlagDrain`, `StopBackend`, `JoinCapture`, `JoinDrain`. Samples are numbers, so
that loss, repetition and order show. `failure` is a ghost variable: it records that the backend
ended by itself, and whether that was before `stop()` was called. Setup of either backend
(`system.rs`, `process.rs`) is one action that succeeds or fails; its steps are in `CaptureStart`. A packet
that comes without data, or whose push into the ring panics, which `common.rs:231` catches, is lost whole.
Frames that are queued when `stop()` returns can still be received, here and in `MacCapture`, since
`frames()` does not ask whether the session was stopped (`lib.rs:240`). The spawning of the capture
thread itself is taken to succeed: its failure returns before anything exists.

`MacCapture`. `live` is the set of parts of the chain that exist; `todo` are the ones that the code
names, in its order, at the failure of a step (`macos.rs:405-471`) or in `TapChain::drop`, so that a
part that is forgotten or destroyed out of order shows (`ChainUnwound`). A call of the IO procedure
looks at the flag, copies and returns; it may be under way when the flag is raised and when the
device is stopped. A panic is two actions, the flag and the error (`macos.rs:445-447`). Samples
are numbered as they sound, the channels of a moment in turn; `CopyBufferList` weaves as many
moments as the shortest buffer has. The last sender of errors goes with the procedure's block, so
`check_health()` finds a disconnected channel once the thread is gone.

`Applications` and `CaptureStart`. A text is a sequence of characters over a small alphabet. A
listing is what the system reports, filtered and named as the code does; the resolver gives the
set it chooses from, of which only one element is an answer. `setup` is the list of steps that are
left and `open` the handles that the code has to close itself; `ReleasedAfter` collects, for each
step, what the functions `init_loopback_capture`, `setup_process_loopback` and
`setup_system_loopback` release between them. `EndpointsChange` lets the user unplug or choose
endpoints between any two steps, and `ActivateCompleted` may come after its wait was given up.
`doubts` is a history: it records that the lookup of the format was not answered, and that a change
between this lookup and the one that opens the endpoint made the second find another one; no
action reads it.

`TranscribeCommand`. Worker, session and writer are what main joins. The queue is counted, not
named. An error exit of the command is `process::exit(1)`, which stops the writer too
(`WriterIn`). `AudioReturns` includes the drops at the end of the closure, so that every error
path of the worker closes the WAV file. Worker and writer may also panic (`AudioPanics`, `WriterPanics`).
A panicked worker ends the command at its join (`AudioJoinFails`, `main.rs:390-391`), before `finish()` and
without a word to the writer; a panicked writer is found at its own join, and reported first.

`CaptureCommand` and `WavWriter`. `written` are the bytes of samples in the file, `data_bytes`
the counter that goes into the header. A write that fails in the middle of a frame leaves bytes
that do not count. Sizes are modulo `Modulus`, as `u32` in a build without overflow checks. The
seek in `finalize` flushes the buffered samples, so a header can be on disk only behind them;
an error after it was buffered may or may not leave it there (`FinalizeFails`).

`SpeechNormalizer`. A mono sample is its number and silence is 0, so the output says which
sample is where. The resampler answers as many samples as it gets, `Delay` late: its ratio
changes how many samples there are, not the bookkeeping.

## 3. Runs

`tlc -workers 2 -config <run>.cfg <module>`; all runs are bounded by constants of the modules
(`MaxChunks`, `MaxReplies`, `MaxSamples`, `MaxFrames`, `MaxEvents`), and no definition is replaced.

| Run | Instance | Distinct states | Shows |
|---|---|---|---|
| `FunAsrUpload` | 2 producers, 2 chunks each, queue 2, network 1 | 624 693 | `UploadInOrder`, `FinishIsLast`, `SpeechConserved`, `EndIsFinal` |
| `FunAsrReplies` | 1 producer, 2 chunks, every kind of reply, 3 in a row | 287 903 | `ResultMatchesEvents`, refinement of `TranscriptSession` (`ImplementsSession`), `CallsEnd`, `NoOrphanTask`, `AcceptedSpeechMoves` |
| `WindowsCapture` | frames of 2 samples, ring of 4, channel of 1, packets of 1 and 3, 7 samples | 405 359 | `SamplesConserved`, `NoFalseAlarm`, `NoThreadLeft`, refinement of `CaptureContract` (`ImplementsContract`), `FailureIsReported`, `CallsEnd` |
| `MacCapture` | 2 channels, frames of 4 samples, ring of 6, channel of 1, 12 samples, four shapes of buffers | 153 071 | `ChainUnwound`, `ImplementsContract`, `FailureIsReported`, `CallsEnd` |
| `CaptureStart` | every listing of up to 3 of 7 streams, 8 selectors, 3 endpoints, 4 systems, 2 changes of the endpoints | 1 200 597 | `SelectionIsSound`, `HandlesClosed`, `FormatTrue` |
| `Transcribe` | queue 1, 2 frames of 2 chunks, 1 result, WAV on | 461 132 | `SuccessIsComplete`, `TranscriptKept`, `AudioEndsFirst`, `CtrlCEnds`, `NextChunkNotices` |
| `Capture` | sizes modulo 16, header 3, frames of 4 and 5 bytes, 4 frames | 2 650 | `SuccessHasEveryFrame`, `NoCorruptFile`, `CtrlCEnds` |
| `Normalizer` | blocks of 4, chunks of 3, delay 2, packets 1, 3, 9, 40 samples | 644 | `SpeechInOrder`, `FinishedSpeech`, `BuffersBounded` |
| `FunAsrEarlyEnd`, `WindowsLateStop`, `TranscribeDisconnect`, `WavRiffSize` | small | | a statement of the documentation or the code that does not hold (section 6) |

Every module with variables has its type invariant checked in one of these runs.

Why the bounds are enough for the cases that matter. Two producers compete for the last slot
with a waiting `finish()`. A queue of two lets a chunk, another one and an end of speech be in
queue, hand and wait at once. A network of one blocks a send behind a slow server. Three
replies are enough to say something after an end. A ring of four and a channel of one both
overflow, and packets of one and three straddle frames of two. Two chunks per frame overflow a
queue of one. Four frames of four and five bytes fill a file of sixteen exactly, pass it, and
wrap the RIFF size. Forty samples compact each buffer more than once. A ring of six holds a frame
and a half of two channels, and a buffer list of unequal lengths follows a whole one, so that gaps
fall between the channels of a frame if they are woven wrongly. Among the streams are two of one
process, a name that holds another, a name that is another's pid, a silent stream, the capturing
process and the system's sounds; three in a list suffice for an exact match beside two partial
ones. Two of the endpoints share a name. Two changes of the endpoints can come both between the two
lookups of the code, there and back, or one of them outside, where it must do no harm; `changes` counts them.

Deadlock is off in the configurations: sessions and commands end, a server may fall silent, and
a caller may hold a session for ever.

### Fairness

- `FunAsrConnection`: the runtime polls the task (its timeouts are branches of the task), a
  sender whose slot or error is there, and `connect()` and `finish()`. Nobody must produce,
  finish, cancel or reply. One assumption is about the server: it reads what is sent to it
  (`ServerReads`). It is needed: `socket.send` has no timeout in the code, and a server that stops
  reading without closing the connection makes `finish()` wait.
- `WindowsCapture`: the threads run, the caller completes a call it has begun, and it polls
  `check_health` as `receive_frame` does. The device need not deliver or fail; the number of
  packets is bounded, which stands for a drain that keeps up with a device of finite rate.
- `MacCapture`: capture thread and drain run, a panicking call of the IO procedure reports before
  it returns, and the caller as in `WindowsCapture`. Core Audio need not call the procedure.
- `CaptureStart`: none, its properties are safety.
- `TranscribeCommand`: the three actors run. Of the session it assumes what `FunAsrReplies`
  shows of the connection: it takes chunks while it runs, closes its socket, and ends once
  `finish()` waits for it. No frame, no Ctrl+C and no early end is assumed.
- `CaptureCommand`: both threads run; `receive_frame` returns after 250 ms at most.

## 4. Theorems

Checked with `tlapm <module>.tla`, for every value of the constants that satisfies the
assumptions of the modules (a non-empty queue, an owner that is no producer, replies that are
records of the protocol, frames of at least one sample, and so on).

**Upload** (`FunAsrConnection_proofs`). `UploadInOrder` is not inductive: a prefix can be broken by
what is still on its way. `UploadInv` adds where every message is (`SpeechConserved`:
the accepted messages are those on the wire, in the hand and in the queue, in this order), what
the task holds at each await (`HandMatchesPc`), that whoever waits keeps the channel alive
(`WaitersAlive`), and that `recv() = None` is final (`NoneIsFinal`): after it nobody is left who
could put a message behind the `FinishMessage` that has no counterpart in the queue. The step
is proved actor by actor (`UploadTaskStep`, `UploadSenderStep`, `UploadOwnerStep`), which gives `UploadCorrect`. From it follow
`UploadOrder`, `SpeechKept` and `FinishOrder`, and from `TypeCorrect` the action property `EndTheorem`.

**Stream** (`FunAsrConnection_proofs`). `StreamInv` says that a running task has emitted results only,
and that it closes its socket only behind an `End`. Every step falls into a few kinds
(`TaskStepKinds`: quiet, silent failure, disconnect, reply), each of which keeps the invariant and
is a step or a stutter of `TranscriptSession`; so `StreamStep` gives both `StreamCorrect` and
`Refinement`, and `StreamPromises` reads the three promises of the stream off the invariant. The reading of replies is analysed once, in `ReplyCases`.

**Windows capture** (`WindowsCapture_proofs`). `TypeCorrect` includes `FramesWhole`: that the ring still
holds a whole frame when the drain takes it, and that the channel holds whole frames, is needed
for the types of the sequences that are cut. It is split into control state (`ControlOK`) and
samples (`SamplesOK`), so that most actions concern one of them. `AlarmCorrect` proves the
invariant behind `NoFalseAlarm` (`AlarmTheorem`): while the caller runs, a raised flag, a capture thread on its way
out and a drain on its way out all mean that the backend ended by itself.
`SamplesConserved` is inductive once the frames are whole (`ConservedTheorem`): most steps move no
sample (`WhoMovesSamples`), and one that does cuts one sequence of the pipeline and lengthens the
next (`PipelinePops`, `PipelineSends`, `PipelineDrops`). `NoThreadLeft` needs where the caller can be once a
thread is over (`JoinInv`). `ContractTheorem` shows that every step is a step or a stutter of
`CaptureContract`: the control steps leave what the contract sees alone (`Unseen`), a send is `Deliver`, a
frame dropped at a full channel or a burst at a full ring is a gap that the contract allows.

**macOS capture** (`MacCapture_proofs`). `ControlInv` joins four facts. `ChainInv` gives, for every place of
the thread, what exists and what is still to be destroyed: the unwinding always names exactly what
is left. `SessionInv` says where the caller can be in the meantime, `AlarmInv` that a raised flag
means a panic or a stop. Each leans on the others: a thread leaves its loop only by the flag, and whether
the caller may be gone by then is what the flag means. Together they give `ChainTheorem`. For the samples,
`PlaceInv` says that at each place between device and caller they come in whole turns of the channels,
each in the place of its channel, and all in the order of the device. `CopiedInOrder` and `PushedInTurn`
show that the weaving of `CopyBufferList` keeps it for buffers of unequal lengths, and that a full ring cuts
between turns, never within one; that frames are whole turns is `FramesWhole`. From both invariants follow
`TypeTheorem` and `ContractTheorem`.

**Start of a capture** (`CaptureStart_proofs`). `HandlesInv` says which handles are open before each step of
either setup (`SystemHeld`, `ProcessHeld`), that a thread which is closing has exactly those left to close, and that
what is left of a setup is a tail of it. `SystemReleases` and `ProcessReleases` compare, step by step, what is held
with what `ReleasedAfter` closes; this is the part that a forgotten `CloseHandle` breaks. `StageInv` ties
the stage to the backend and to the source that leads there. `HandlesTheorem` and `TypeTheorem` are read off.
`FormatTheorem` needs `LabelInv`: before the endpoint is opened the cached format is that of an
endpoint that the source may mean, and the one that a lookup still finds unless one has moved since
(`Foreseen`); only an unanswered lookup leaves the fixed format. Any number of changes before the first
lookup or after the second changes nothing.
`SelectionTheorem` is about the resolver: `ResolvesTheBest` shows for every listing that the resolver answers with an application exactly if no other one fits as well, a pid going before an
exact name and that before a part of one. The proofs rest on two
assumptions: a list of streams or endpoints is a finite sequence and pids are natural numbers
(`PidsAssumption`); and a format is never the "none" that marks a backend without one (`EndpointsAssumption`).
Both only say what the values of the Rust types are.

**capture and WAV** (`CaptureCommand_proofs`). `FileInv` says that the counter never passes what is written,
and that the header is zeros until the file is closed, and then zeros or the final one. `PlaceInv` adds for each place
of the worker whether there is a file, `CountInv` that until something fails the bytes received are
those written and those in the worker's hand. They give `SuccessTheorem` and `NoCorruptFileTheorem` for frames
of any size and fields of any width. `RiffSizeTheorem` is the complement of the run `WavRiffSize`:
the RIFF size is true for every file but those within `RiffExtra` bytes of the limit.

**transcribe** (`TranscribeCommand_proofs`). `CommandInv` has one part per actor: where the worker is while
main waits, with its file (`AudioInv`); that a chunk is accepted or pending, and a frame saved once the
worker has passed its step (`CountInv`); what the exit says of worker, session and writer (`MainInv`); that only
the last event may be `End` (`StreamInv`); that the JSONL file holds the events heard before the `End`, and the
text file as many lines as there are final results among those heard (`WriterInv`), as long as it did not fail or
panic. `TranscriptTheorem` names what it does not cover: such a writer, and the two exits that do not wait
for it, a broken Ctrl+C listener and a panicked worker. Of the session only the
promises of `TranscriptSession` are used. What is on disk is stated by the counts and
indices of `TextWritten` and `JsonWritten`, because `SelectSeq` is recursive and nothing could be
proved about it.

**Normalizer** (`SpeechNormalizer_proofs`). `SpeechInOrder` alone is not inductive: `push` and `finish` process
as many blocks and chunks as there are, and the arguments about offsets need that each operation
leaves less than a block and less than a chunk behind, and that an offset which is due to be
compacted is (`RestsAreShort`). With it `NormalizerInv` is inductive, operation by operation (`PushStep`,
`FinishStep`). `CompactKeeps` shows that compaction changes no unread sample, `ChunksTaken` that the chunks taken
and what is left join to the output, `SpeechThenSilence` that the padding at the end is silence behind speech.

In all of them the inductive invariant comes first, the step is proved actor by actor or action by
action, and the property of the run is read off. The inductive invariants were checked by TLC as invariants of the runs of section 3 before they
were proved.

**Only model-checked.** Liveness, which is out of the prover's reach: `CallsEnd`, `NoOrphanTask`,
`AcceptedSpeechMoves`, `FailureIsReported`, `CtrlCEnds`, `NextChunkNotices`. Every other property of the passing
runs is a theorem. The properties of the four runs of section 6 are false. `Applications` computes with texts by folds and a recursive function; what it
computes for every text is an induction over data and stays with TLC, and `SelectionTheorem` holds
for whatever relation between texts it is. Where a proof needs an induction over numbers it
argues by a least counterexample (`LeastNatural`), which rests on the well-founded order of the
naturals. No module uses a RECURSIVE operator.

## 5. Not modelled

- The platform stubs, which only return an error; the setup script; the error type.
- Parsing of arguments, file names and printed text. A pid is parsed by Rust, which accepts a
  leading plus sign and refuses what does not fit 32 bits: the selectors of the model have neither.
- How streams, names and formats are asked of the system (`process_object_list`,
  `audio_property`, `endpoint_friendly_name`): what is reported is an input, and an endpoint or a stream
  that does not answer counts as not there. Core Audio is taken to keep one object per process;
  `dedup_by_key` of `macos.rs:248` removes further ones only if they follow each other by name.
- Interfaces of COM, which are released by scope, and `exclude_self`, which Vapor Tap never sets.
- Which of two errors a caller gets: the models tell failure from success.
- The contents of audio and text: down-mixing, scaling, JSON, timestamps. Formats are constant
  in a session, so the checks for a changed format do not fail.
- The real clock: a deadline or timeout may pass whenever its wait is on.
- Panics, but for the worker and the writer of `transcribe`, the callback of macOS and the push of the
  Windows backends. A panic of the worker of `capture` is an error for main, which joins it and nothing
  else, like any other; a file that was open is then finalized or not, as when `finalize` fails
  (`FinalizeFails`).

## 6. Where documentation and code disagree

- `FunAsrEarlyEnd`: a server that acknowledges the end while speech is being uploaded makes the
  session succeed (`funasr.rs:318`), and chunks that the queue accepted are discarded;
  `main.rs:400` then reports them as sent.
- `WindowsLateStop`: `stop()` reads the health before it stops (`lib.rs:272`); a backend that ended by
  itself and was not noticed yet is never reported, against `src/README.md:49-51`.
- `TranscribeDisconnect`: `transcribe` does not wait for the session's end (`main.rs:377`), so a
  disconnect ends the command only with the next chunk, against `src/README.md:165-166`. What
  does hold is `NextChunkNotices`.
- `WavRiffSize`: the RIFF size is 36 larger than the size `write_frame` checks (`wav.rs:44`, `wav.rs:65`).

More came up while modelling and have no run of their own:

- `src/README.md` says that the WAV file is in the native capture format. The format is read in
  `WasapiSystemBackend::new` and the endpoint is looked up again by the capture thread: if the
  default endpoint changes in between, frames carry the format of another one; and where the first
  lookup is not answered, a fixed one. `FormatTrue` allows these two cases and no other: both are
  recorded when they happen (`doubts`), and a change at any other time must not spoil the format.
- `src/README.md:126-129` says that Ctrl+C waits for the final result and then flushes and closes the files.
  An audio worker that panicked, as it does at the limit of the WAV file in a build with overflow checks
  (`wav.rs:65`), makes `transcribe` return at once (`main.rs:390-391`): `finish()` is not called, the writer is not
  joined, and `process::exit` may cut it off before it wrote what the server had sent.
- `finish()` "flushes the resampler" (`normalize.rs:123`): it pushes the waiting input through it, but as
  many samples as its filter delays stay inside. `FinishedSpeech` is stated up to them.
- After a panic in the macOS callback, the channel of frames is closed before the error is queued:
  `check_health()` can answer Ok in between, and `receive_frame` reports a disconnected channel.
- An activation that completes after the five seconds sets an event whose handle is closed
  (`process.rs:392`, `process.rs:163`).

## 7. Plan

1. Done: the connection, its abstract session, the two commands, the WAV writer, both platform
   sessions and their contract, the listings and the resolver, the start of a capture, the
   normalizer.
2. Done: every invariant and action property of the passing runs as a theorem, and both refinements
   step by step: of `TranscriptSession` by the connection, of `CaptureContract` by either platform.
3. Open: the two commands built on `CaptureContract`, as `TranscribeCommand` is on
   `TranscriptSession`, so that what is proved of the platforms is what the commands assume; then
   the promises of `CaptureContract` and `TranscriptSession` as theorems of those modules
   themselves, which every implementation inherits.
