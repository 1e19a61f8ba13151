------------------------- MODULE TranscribeCommand -------------------------
(***************************************************************************)
(* `vapor-tap transcribe`: transcribe() and write_transcript_events() of   *)
(* src/src/main.rs.  Three actors around a FunASR session:                 *)
(*                                                                         *)
(*   main    the async function: connect, wait for the audio worker or     *)
(*           for Ctrl+C, finish, wait for the writer, report;              *)
(*   audio   the blocking worker: capture, WAV copy, conversion, try_send; *)
(*   writer  the blocking worker that writes the transcript files.         *)
(*                                                                         *)
(* The session is TranscriptSession, which FunAsrConnection implements,    *)
(* behind a bounded queue of chunks.  A chunk and a frame are counted, not *)
(* named: there is one producer and the queue is first in, first out.      *)
(***************************************************************************)
EXTENDS Integers, Sequences, SequencesExt, FiniteSets

CONSTANTS
    Capacity,   \* --queue-capacity
    Timed,      \* --seconds was given
    SaveAudio,  \* --save-audio was given
    MaxFrames,  \* bound: frames the capture session delivers
    FrameChunks,\* chunks that converter.push() may return for a frame
    MaxEvents   \* bound: results the server sends

ASSUME TranscribeAssumption ==
    /\ Capacity \in Nat \ {0}
    /\ Timed \in BOOLEAN /\ SaveAudio \in BOOLEAN
    /\ MaxFrames \in Nat /\ MaxEvents \in Nat
    /\ FrameChunks \subseteq Nat

VARIABLES
    main,           \* where transcribe() is
    exit,           \* what it returns: "ok" or the part whose error it returns
    signal,         \* the Ctrl+C listener
    stopRequested,  \* the AtomicBool the audio worker polls
    audio,          \* where the audio worker is
    audioResult,    \* how it ended
    pending,        \* chunks of the current conversion it has still to send
    frames,         \* frames received
    made,           \* chunks converted
    accepted,       \* sent_chunks: chunks that try_send accepted
    wav,            \* the --save-audio file
    saved,          \* frames written to it
    queue,          \* chunks in the queue of the FunASR client
    stream,         \* the events of the session
    outcome,        \* the result of the session's task
    writer,         \* where the transcript writer is
    writerResult,   \* how it ended
    heard,          \* events it has read
    text,           \* the results in the text file
    json            \* the events in the JSONL file

audioVars  == <<audio, audioResult, pending, frames, made, accepted, wav, saved>>
writerVars == <<writer, writerResult, heard, text, json>>
mainVars   == <<main, exit, stopRequested>>
vars == <<audioVars, writerVars, mainVars, signal, queue, stream, outcome>>

Session == INSTANCE TranscriptSession

EventKinds == {"Partial", "Final", "ServerError", "End", "Disconnected"}

TypeOK ==
    /\ main \in {"connect", "listen", "select", "joinAudio", "abandon", "finishSend",
                 "join", "joinWriter", "exited"}
    /\ exit \in {"none", "ok", "connect", "signal", "panic", "audio", "finish", "writer"}
    /\ signal \in {"none", "pressed", "failed"}
    /\ stopRequested \in BOOLEAN
    /\ audio \in {"idle", "start", "loop", "receive", "save", "convert", "send",
                  "flush", "sendTail", "stop", "closeWav", "done"}
    /\ audioResult \in {"none", "ok", "capture", "wav", "convert", "queueFull", "closed",
                        "panic"}
    /\ pending \in Nat /\ frames \in 0 .. MaxFrames /\ made \in Nat /\ accepted \in 0 .. made
    /\ wav \in {"none", "open", "closed"} /\ saved \in 0 .. frames
    /\ queue \in 0 .. Capacity
    /\ stream \in Seq(EventKinds) /\ outcome \in Session!Outcomes
    /\ writer \in {"idle", "open", "read", "done"}
    /\ writerResult \in {"none", "ok", "failed", "panic"}
    /\ heard \in 0 .. Len(stream)
    /\ text \in Seq({"Final"}) /\ json \in Seq(EventKinds)

Init ==
    /\ main = "connect" /\ exit = "none" /\ stopRequested = FALSE
    /\ signal = "none"
    /\ audio = "idle" /\ audioResult = "none" /\ pending = 0 /\ frames = 0
    /\ made = 0 /\ accepted = 0 /\ wav = "none" /\ saved = 0
    /\ queue = 0 /\ Session!Init
    /\ writer = "idle" /\ writerResult = "none" /\ heard = 0 /\ text = <<>> /\ json = <<>>

-----------------------------------------------------------------------------
(* main *)

Exits(e) == main' = "exited" /\ exit' = e

\* FunAsrClient::connect.  On success the transcript writer is spawned.
ConnectFails ==
    /\ main = "connect"
    /\ Exits("connect")
    /\ UNCHANGED <<stopRequested, audioVars, writerVars, signal, queue, stream, outcome>>

Connects ==
    /\ main = "connect"
    /\ main' = "listen" /\ writer' = "open"
    /\ UNCHANGED <<exit, stopRequested, audioVars, writerResult, heard, text, json,
                   signal, queue, stream, outcome>>

\* CtrlCSignal::new(), and the audio worker is spawned.
ListenFails ==
    /\ main = "listen"
    /\ Exits("signal")
    /\ UNCHANGED <<stopRequested, audioVars, writerVars, signal, queue, stream, outcome>>

Listens ==
    /\ main = "listen"
    /\ main' = "select" /\ audio' = "start"
    /\ UNCHANGED <<exit, stopRequested, audioResult, pending, frames, made, accepted, wav,
                   saved, writerVars, signal, queue, stream, outcome>>

\* The select: the audio worker ends, or Ctrl+C, or the listener fails.  What the worker
\* returned is looked at last.
AudioEnds ==
    /\ main \in {"select", "joinAudio"} /\ audio = "done" /\ audioResult # "panic"
    /\ main' = "finishSend"
    /\ UNCHANGED <<exit, stopRequested, audioVars, writerVars, signal, queue, stream, outcome>>

\* audio_join.map_err(..)?: a worker that panicked ends the command at once, Ctrl+C or not;
\* finish() is not called, and the writer is not waited for.
AudioJoinFails ==
    /\ main \in {"select", "joinAudio"} /\ audio = "done" /\ audioResult = "panic"
    /\ Exits("panic")
    /\ UNCHANGED <<stopRequested, audioVars, writerVars, signal, queue, stream, outcome>>

\* Fault: the worker is not told.
SignalIsOnlyPrinted ==
    /\ main = "select" /\ signal # "none"
    /\ main' = IF signal = "pressed" THEN "joinAudio" ELSE "abandon"
    /\ UNCHANGED <<exit, stopRequested, audioVars, writerVars, signal, queue, stream, outcome>>

SignalArrives ==
    /\ main = "select" /\ signal # "none"
    /\ stopRequested' = TRUE
    /\ main' = IF signal = "pressed" THEN "joinAudio" ELSE "abandon"
    /\ UNCHANGED <<exit, audioVars, writerVars, signal, queue, stream, outcome>>

\* Fault: the worker is not joined.
AbandonsAtOnce ==
    /\ main = "abandon"
    /\ Exits("signal")
    /\ UNCHANGED <<stopRequested, audioVars, writerVars, signal, queue, stream, outcome>>

\* A broken listener: join the worker and return its error; the client is dropped
\* and the process exits, whatever the writer is doing.
Abandons ==
    /\ main = "abandon" /\ audio = "done"
    /\ Exits("signal")
    /\ UNCHANGED <<stopRequested, audioVars, writerVars, signal, queue, stream, outcome>>

\* client.finish(): Finish takes a slot of the queue (it is not counted in it), or
\* finds the session closed; then the session's task is joined.
FinishSent ==
    /\ main = "finishSend"
    /\ queue < Capacity \/ outcome # "none"
    /\ main' = "join"
    /\ UNCHANGED <<exit, stopRequested, audioVars, writerVars, signal, queue, stream, outcome>>

FinishReturns ==
    /\ main = "join" /\ outcome # "none"
    /\ main' = "joinWriter"
    /\ UNCHANGED <<exit, stopRequested, audioVars, writerVars, signal, queue, stream, outcome>>

\* Fault: the session's result counts first, and a success of the session hides
\* the audio worker's error.
SessionFirst ==
    IF outcome # "ok" THEN "finish" ELSE IF writerResult # "ok" THEN "writer" ELSE "ok"

\* The join of the writer, then audio_result?; finish_result?; event_result?
Verdict ==
    IF writerResult = "panic" THEN "writer"
    ELSE IF audioResult # "ok" THEN "audio"
    ELSE IF outcome # "ok" THEN "finish"
    ELSE IF writerResult # "ok" THEN "writer" ELSE "ok"

Reports ==
    /\ main = "joinWriter" /\ writer = "done"
    /\ Exits(Verdict)
    /\ UNCHANGED <<stopRequested, audioVars, writerVars, signal, queue, stream, outcome>>

MainNext ==
    \/ ConnectFails \/ Connects \/ ListenFails \/ Listens \/ AudioEnds \/ AudioJoinFails
    \/ SignalArrives \/ Abandons \/ FinishSent \/ FinishReturns \/ Reports

-----------------------------------------------------------------------------
(* The user (external) *)

\* Ctrl+C, or the listener's error, while somebody listens; a second one is ignored.
CtrlC ==
    /\ main = "select" /\ signal = "none"
    /\ signal' \in {"pressed", "failed"}
    /\ UNCHANGED <<audioVars, writerVars, mainVars, queue, stream, outcome>>

-----------------------------------------------------------------------------
(* The audio worker *)

\* The worker returns r.  Its locals are dropped: the WAV file, if still open, is
\* finalized and closed, the capture session is stopped, the input clone goes away.
AudioReturns(r) ==
    /\ audio' = "done" /\ audioResult' = r
    /\ wav' = IF wav = "open" THEN "closed" ELSE wav

AudioMoves(from, to) == audio = from /\ audio' = to

\* Where anything of it panics: the deadline of a --seconds too large, the size field of the
\* WAV header in a build with overflow checks, a message to a closed stderr.
AudioPanics ==
    /\ audio \notin {"idle", "done"}
    /\ AudioReturns("panic")
    /\ UNCHANGED <<pending, frames, made, accepted, saved, writerVars, mainVars, signal,
                   queue, stream, outcome>>

\* CaptureSession::start.
CaptureStarts ==
    /\ AudioMoves("start", "loop")
    /\ UNCHANGED <<audioResult, pending, frames, made, accepted, wav, saved, writerVars,
                   mainVars, signal, queue, stream, outcome>>

CaptureFails ==
    /\ audio \in {"start", "receive", "stop"}
    /\ AudioReturns("capture")
    /\ UNCHANGED <<pending, frames, made, accepted, saved, writerVars, mainVars, signal,
                   queue, stream, outcome>>

\* while !stop_requested && now < deadline; the deadline may pass at any time.
LoopTest ==
    /\ \/ ~stopRequested /\ AudioMoves("loop", "receive")
       \/ (stopRequested \/ Timed) /\ AudioMoves("loop", "flush")
    /\ UNCHANGED <<audioResult, pending, frames, made, accepted, wav, saved, writerVars,
                   mainVars, signal, queue, stream, outcome>>

\* receive_frame: a frame, or nothing for 250 ms.
FrameArrives ==
    /\ frames < MaxFrames
    /\ AudioMoves("receive", IF SaveAudio THEN "save" ELSE "convert")
    /\ frames' = frames + 1
    /\ UNCHANGED <<audioResult, pending, made, accepted, wav, saved, writerVars, mainVars,
                   signal, queue, stream, outcome>>

NoFrame ==
    /\ AudioMoves("receive", "loop")
    /\ UNCHANGED <<audioResult, pending, frames, made, accepted, wav, saved, writerVars,
                   mainVars, signal, queue, stream, outcome>>

\* The WAV file is created with the first frame; each frame is written to it.
Saves ==
    /\ AudioMoves("save", "convert")
    /\ wav' = "open" /\ saved' = saved + 1
    /\ UNCHANGED <<audioResult, pending, frames, made, accepted, writerVars, mainVars,
                   signal, queue, stream, outcome>>

WavFails ==
    /\ audio \in {"save", "closeWav"}
    /\ AudioReturns("wav")
    /\ UNCHANGED <<pending, frames, made, accepted, saved, writerVars, mainVars, signal,
                   queue, stream, outcome>>

\* converter.push(), and converter.finish() once there is a converter.
Converts ==
    /\ AudioMoves("convert", "send")
    /\ \E n \in FrameChunks : pending' = n /\ made' = made + n
    /\ UNCHANGED <<audioResult, frames, accepted, wav, saved, writerVars, mainVars, signal,
                   queue, stream, outcome>>

Flushes ==
    /\ AudioMoves("flush", "sendTail")
    /\ \E n \in IF frames > 0 THEN {0, 1} ELSE {0} : pending' = n /\ made' = made + n
    /\ UNCHANGED <<audioResult, frames, accepted, wav, saved, writerVars, mainVars, signal,
                   queue, stream, outcome>>

ConversionFails ==
    /\ audio \in {"convert", "flush"} /\ frames > 0
    /\ AudioReturns("convert")
    /\ UNCHANGED <<pending, frames, made, accepted, saved, writerVars, mainVars, signal,
                   queue, stream, outcome>>

\* Fault: the queue has no bound.
SendsUnbounded ==
    /\ audio \in {"send", "sendTail"} /\ pending > 0 /\ outcome = "none"
    /\ pending' = pending - 1 /\ accepted' = accepted + 1 /\ queue' = queue + 1
    /\ UNCHANGED <<audio, audioResult, frames, made, wav, saved, writerVars, mainVars,
                   signal, stream, outcome>>

\* input.try_send(chunk)?
Sends ==
    /\ audio \in {"send", "sendTail"} /\ pending > 0
    /\ outcome = "none" /\ queue < Capacity
    /\ pending' = pending - 1 /\ accepted' = accepted + 1 /\ queue' = queue + 1
    /\ UNCHANGED <<audio, audioResult, frames, made, wav, saved, writerVars, mainVars,
                   signal, stream, outcome>>

\* Fault: a refused chunk is dropped, and the worker goes on.
DropsChunk ==
    /\ audio \in {"send", "sendTail"} /\ pending > 0
    /\ outcome # "none" \/ queue = Capacity
    /\ pending' = pending - 1
    /\ UNCHANGED <<audio, audioResult, frames, made, accepted, wav, saved, queue, writerVars,
                   mainVars, signal, stream, outcome>>

SendFails ==
    /\ audio \in {"send", "sendTail"} /\ pending > 0
    /\ \/ outcome # "none" /\ AudioReturns("closed")
       \/ outcome = "none" /\ queue = Capacity /\ AudioReturns("queueFull")
    /\ UNCHANGED <<pending, frames, made, accepted, saved, writerVars, mainVars, signal,
                   queue, stream, outcome>>

BatchSent ==
    /\ pending = 0
    /\ AudioMoves("send", "loop") \/ AudioMoves("sendTail", "stop")
    /\ UNCHANGED <<audioResult, pending, frames, made, accepted, wav, saved, writerVars,
                   mainVars, signal, queue, stream, outcome>>

\* session.check_health()?; session.stop()?
CaptureStops ==
    /\ AudioMoves("stop", IF wav = "open" THEN "closeWav" ELSE "done")
    /\ audioResult' = IF wav = "open" THEN "none" ELSE "ok"
    /\ UNCHANGED <<pending, frames, made, accepted, wav, saved, writerVars, mainVars, signal,
                   queue, stream, outcome>>

\* writer.finish()?
ClosesWav ==
    /\ audio = "closeWav"
    /\ AudioReturns("ok")
    /\ UNCHANGED <<pending, frames, made, accepted, saved, writerVars, mainVars, signal,
                   queue, stream, outcome>>

AudioNext ==
    \/ CaptureStarts \/ CaptureFails \/ LoopTest \/ FrameArrives \/ NoFrame \/ Saves
    \/ WavFails \/ Converts \/ Flushes \/ ConversionFails \/ Sends \/ SendFails
    \/ BatchSent \/ CaptureStops \/ ClosesWav \/ AudioPanics

-----------------------------------------------------------------------------
(* The session *)

\* It exists from connect() until its task is over or the client is dropped.
Connected == main \notin {"connect", "exited"}

\* A chunk leaves the queue for the socket.
ChunkTaken ==
    /\ Connected /\ Session!Running /\ queue > 0
    /\ queue' = queue - 1
    /\ UNCHANGED <<audioVars, writerVars, mainVars, signal, stream, outcome>>

ServerSpeaks ==
    /\ Connected /\ Len(stream) < MaxEvents
    /\ Session!Transcribe
    /\ UNCHANGED <<audioVars, writerVars, mainVars, signal, queue>>

\* The session is acknowledged, early or in time; it closes its socket; it fails.
\* Nothing aborts it before transcribe() returns.
SessionAcknowledged ==
    /\ Connected /\ Session!Acknowledge
    /\ UNCHANGED <<audioVars, writerVars, mainVars, signal, queue>>

SessionSucceeds ==
    /\ Connected /\ Session!Succeed
    /\ UNCHANGED <<audioVars, writerVars, mainVars, signal, queue>>

SessionFails ==
    /\ Connected /\ Session!Fail
    /\ UNCHANGED <<audioVars, writerVars, mainVars, signal, queue>>

SessionNext ==
    \/ ChunkTaken \/ ServerSpeaks \/ SessionAcknowledged \/ SessionSucceeds \/ SessionFails

-----------------------------------------------------------------------------
(* The transcript writer: write_transcript_events *)

\* An error of transcribe() is process::exit(1), which also ends the writer.
WriterIn(place) == main # "exited" /\ writer = place

WriterOpens ==
    /\ WriterIn("open")
    /\ writer' = "read"
    /\ UNCHANGED <<writerResult, heard, text, json, audioVars, mainVars, signal, queue,
                   stream, outcome>>

\* A file cannot be created, or a line cannot be written to one of them.
WriterFails ==
    /\ \/ WriterIn("open")
       \/ WriterIn("read") /\ heard < Len(stream) /\ stream[heard + 1] # "End"
    /\ writer' = "done" /\ writerResult' = "failed"
    /\ heard' = IF writer = "read" THEN heard + 1 ELSE heard
    /\ \/ UNCHANGED text
       \/ writer = "read" /\ stream[heard + 1] = "Final" /\ text' = Append(text, "Final")
    /\ UNCHANGED <<json, audioVars, mainVars, signal, queue, stream, outcome>>

\* The event cannot be printed, which panics with none of its lines written.
WriterPanics ==
    /\ WriterIn("read") /\ heard < Len(stream) /\ stream[heard + 1] # "End"
    /\ writer' = "done" /\ writerResult' = "panic" /\ heard' = heard + 1
    /\ UNCHANGED <<text, json, audioVars, mainVars, signal, queue, stream, outcome>>

\* Fault: an error event ends the loop like End does.
WriterStopsAtErrors ==
    /\ WriterIn("read") /\ heard < Len(stream)
    /\ heard' = heard + 1
    /\ LET event == stream[heard + 1] IN
         \/ /\ event \in {"Partial", "Final"}
            /\ json' = Append(json, event)
            /\ text' = IF event = "Final" THEN Append(text, event) ELSE text
            /\ UNCHANGED <<writer, writerResult>>
         \/ /\ event \notin {"Partial", "Final"}
            /\ writer' = "done" /\ writerResult' = "ok" /\ UNCHANGED <<text, json>>
    /\ UNCHANGED <<audioVars, mainVars, signal, queue, stream, outcome>>

\* One event: End breaks the loop, the others go to the JSONL file, and a Final to
\* the text file too.
WriterReads ==
    /\ WriterIn("read") /\ heard < Len(stream)
    /\ heard' = heard + 1
    /\ LET event == stream[heard + 1] IN
         \/ /\ event # "End"
            /\ json' = Append(json, event)
            /\ text' = IF event = "Final" THEN Append(text, event) ELSE text
            /\ UNCHANGED <<writer, writerResult>>
         \/ /\ event = "End"
            /\ writer' = "done" /\ writerResult' = "ok" /\ UNCHANGED <<text, json>>
    /\ UNCHANGED <<audioVars, mainVars, signal, queue, stream, outcome>>

\* blocking_recv() = None: the session's task is over and everything is read.
WriterEnds ==
    /\ WriterIn("read") /\ heard = Len(stream) /\ outcome # "none"
    /\ writer' = "done" /\ writerResult' = "ok"
    /\ UNCHANGED <<heard, text, json, audioVars, mainVars, signal, queue, stream, outcome>>

WriterNext == WriterOpens \/ WriterFails \/ WriterPanics \/ WriterReads \/ WriterEnds

Next == MainNext \/ CtrlC \/ AudioNext \/ SessionNext \/ WriterNext

Spec == Init /\ [][Next]_vars

\* The threads run.  What FunAsrConnection shows of its session
\* (AcceptedSpeechMoves, CallsEnd) is assumed here: it takes chunks while it
\* runs, closes its socket, and ends once finish() waits for it.  No frame needs to arrive, no
\* Ctrl+C to be pressed and no session to end before its time.
Fairness ==
    /\ WF_vars(MainNext)
    /\ WF_vars(AudioNext)
    /\ WF_vars(WriterNext)
    /\ WF_vars(ChunkTaken)
    /\ WF_vars(SessionSucceeds)
    /\ WF_vars(main = "join" /\ (SessionAcknowledged \/ SessionFails))

FairSpec == Spec /\ Fairness

-----------------------------------------------------------------------------
(* What the command promises *)

\* What the server sent belongs on disk: a line of text for each Final, and every event in
\* front of the End that may come last.
FinalsIn(n) == {i \in 1 .. n : stream[i] = "Final"}
TextWritten == text = [i \in 1 .. Cardinality(FinalsIn(Len(stream))) |-> "Final"]
JsonWritten == json = IF Session!Acknowledged THEN Front(stream) ELSE stream

\* When the command exits normally, the capture ended without an error, every
\* converted chunk was accepted by the queue, every frame is in the WAV file, the
\* session was acknowledged, and every result is on disk.  "Errors instead of being
\* mistaken for ... successful completion" (README).  Whether the accepted chunks
\* reached the server is the session's part: one acknowledged early leaves chunks unsent.
SuccessIsComplete ==
    exit = "ok" =>
        /\ audioResult = "ok" /\ accepted = made /\ pending = 0
        /\ SaveAudio => saved = frames /\ wav # "open"
        /\ outcome = "ok" /\ stream[Len(stream)] = "End"
        /\ TextWritten /\ JsonWritten

\* Errors of the capture, the conversion, the queue, the WAV file and the session cost no
\* result: all that the server sent is on disk when the command exits.  The exemptions are
\* the exits that do not wait for the writer, those of a broken Ctrl+C listener and of a
\* worker that panicked, and a writer that itself fails or panics.
TranscriptKept ==
    main = "exited" /\ exit \notin {"connect", "signal", "panic"}
        /\ writerResult \notin {"failed", "panic"} =>
            TextWritten /\ JsonWritten

\* The end-of-speech message is sent only when the audio worker is gone for good:
\* no chunk is accepted behind it, the WAV file is closed, and the worker is not
\* abandoned by a command that returns.
AudioEndsFirst ==
    main \in {"finishSend", "join", "joinWriter", "exited"} =>
        audio \in {"idle", "done"} /\ wav # "open"

\* Ctrl+C ends the command, wherever the worker, the session and the writer are.
CtrlCEnds == signal = "pressed" ~> main = "exited"

\* A session that ended is noticed by the next chunk: the command goes on only
\* while no further chunk is made.
NextChunkNotices ==
    (outcome # "none" /\ pending > 0 /\ main = "select") ~> main = "exited"

\* README: "A disconnect is reported explicitly and the command exits".  main waits
\* for the audio worker and for Ctrl+C only, so without a further chunk it stays.
DisconnectExits == outcome = "Network" ~> main = "exited"
=============================================================================
