--------------------------- MODULE CaptureCommand ---------------------------
(***************************************************************************)
(* `vapor-tap capture`: capture() and capture_to_wav() of src/src/main.rs. *)
(* The async main waits for the blocking worker or for Ctrl+C; the worker  *)
(* receives frames and writes them with a WavWriter.                       *)
(***************************************************************************)
EXTENDS WavWriter

CONSTANTS
    Timed,       \* --seconds was given
    FrameBytes,  \* sizes of the frames the session delivers
    MaxFrames    \* bound: frames it delivers

ASSUME CaptureAssumption ==
    /\ Timed \in BOOLEAN /\ FrameBytes \subseteq Nat \ {0} /\ MaxFrames \in Nat

VARIABLES
    main,           \* where capture() is
    exit,           \* what it returns
    signal,         \* the Ctrl+C listener
    stopRequested,  \* the AtomicBool the worker polls
    worker,         \* where capture_to_wav() is
    workerResult,   \* what it returns
    hand,           \* bytes of the frame it is about to write, 0 for none
    frames,         \* frames received
    received        \* their bytes

mainVars   == <<main, exit, stopRequested>>
workerVars == <<worker, workerResult, hand, frames, received>>
vars == <<mainVars, signal, workerVars, wavVars>>

TypeOK ==
    /\ main \in {"select", "joinWorker", "abandon", "exited"}
    /\ exit \in {"none", "ok", "signal", "capture", "wav"}
    /\ signal \in {"none", "pressed", "failed"}
    /\ stopRequested \in BOOLEAN
    /\ worker \in {"start", "loop", "receive", "create", "write", "failed",
                   "stop", "finish", "done"}
    /\ workerResult \in {"none", "ok", "capture", "wav"}
    /\ hand \in FrameBytes \cup {0}
    /\ frames \in 0 .. MaxFrames /\ received \in Nat
    /\ WavTypeOK

\* The listener exists and the worker has been spawned.
Init ==
    /\ main = "select" /\ exit = "none" /\ signal = "none" /\ stopRequested = FALSE
    /\ worker = "start" /\ workerResult = "none" /\ hand = 0 /\ frames = 0 /\ received = 0
    /\ WavInit

-----------------------------------------------------------------------------
(* main *)

\* Ctrl+C, or the listener's error, while main listens (external).
CtrlC ==
    /\ main = "select" /\ signal = "none"
    /\ signal' \in {"pressed", "failed"}
    /\ UNCHANGED <<mainVars, workerVars, wavVars>>

\* Fault: the worker is not told.
SignalIsOnlyPrinted ==
    /\ main = "select" /\ signal # "none"
    /\ main' = IF signal = "pressed" THEN "joinWorker" ELSE "abandon"
    /\ UNCHANGED <<exit, stopRequested, signal, workerVars, wavVars>>

\* main stops the worker and goes on to join it.
SignalArrives ==
    /\ main = "select" /\ signal # "none"
    /\ stopRequested' = TRUE
    /\ main' = IF signal = "pressed" THEN "joinWorker" ELSE "abandon"
    /\ UNCHANGED <<exit, signal, workerVars, wavVars>>

\* The worker is joined; its result is the command's unless the listener failed.
WorkerJoined ==
    /\ main # "exited" /\ worker = "done"
    /\ main' = "exited"
    /\ exit' = IF main = "abandon" THEN "signal" ELSE workerResult
    /\ UNCHANGED <<stopRequested, signal, workerVars, wavVars>>

-----------------------------------------------------------------------------
(* capture_to_wav() *)

WorkerMoves(from, to) == worker = from /\ worker' = to

\* The worker returns r; the WAV writer and the capture session are dropped.
WorkerReturns(r) == worker' = "done" /\ workerResult' = r /\ DropWriter

SessionStarts ==
    /\ WorkerMoves("start", "loop")
    /\ UNCHANGED <<workerResult, hand, frames, received, mainVars, signal, wavVars>>

\* CaptureSession::start, receive_frame, check_health or stop() fails.
SessionFails ==
    /\ worker \in {"start", "receive", "stop"}
    /\ WorkerReturns("capture")
    /\ UNCHANGED <<hand, frames, received, mainVars, signal>>

\* while !stop_requested && now < deadline; the deadline may pass at any time.
LoopTest ==
    /\ \/ ~stopRequested /\ WorkerMoves("loop", "receive")
       \/ (stopRequested \/ Timed) /\ WorkerMoves("loop", "stop")
    /\ UNCHANGED <<workerResult, hand, frames, received, mainVars, signal, wavVars>>

\* receive_frame: a frame, for which there must be a file, or nothing for 250 ms.
FrameArrives ==
    /\ frames < MaxFrames
    /\ WorkerMoves("receive", IF file = "none" THEN "create" ELSE "write")
    /\ \E n \in FrameBytes : hand' = n /\ received' = received + n
    /\ frames' = frames + 1
    /\ UNCHANGED <<workerResult, mainVars, signal, wavVars>>

NoFrame ==
    /\ WorkerMoves("receive", "loop")
    /\ UNCHANGED <<workerResult, hand, frames, received, mainVars, signal, wavVars>>

CreatesFile ==
    /\ WorkerMoves("create", "write")
    /\ Create
    /\ UNCHANGED <<workerResult, hand, frames, received, mainVars, signal>>

\* No file, or a file without a whole header; there is no writer to drop.
CreateFails ==
    /\ WorkerMoves("create", "done")
    /\ workerResult' = "wav"
    /\ UNCHANGED <<hand, frames, received, mainVars, signal, wavVars>>

WritesFrame ==
    /\ WorkerMoves("write", "loop")
    /\ Write(hand) /\ hand' = 0
    /\ UNCHANGED <<workerResult, frames, received, mainVars, signal>>

\* Fault: a frame that cannot be written is left out.
SkipsFrame ==
    /\ WorkerMoves("write", "loop")
    /\ WriteRefused(hand) \/ WriteFails(hand)
    /\ hand' = 0
    /\ UNCHANGED <<workerResult, frames, received, mainVars, signal>>

\* The frame is refused or an I/O error cuts it short; then the writer is dropped.
WriteFrameFails ==
    /\ WorkerMoves("write", "failed")
    /\ WriteRefused(hand) \/ WriteFails(hand)
    /\ UNCHANGED <<workerResult, hand, frames, received, mainVars, signal>>

WriterDropped ==
    /\ worker = "failed"
    /\ WorkerReturns("wav")
    /\ UNCHANGED <<hand, frames, received, mainVars, signal>>

\* session.check_health()?; session.stop()?
SessionStops ==
    /\ \/ file = "open" /\ WorkerMoves("stop", "finish") /\ UNCHANGED workerResult
       \/ file = "none" /\ WorkerMoves("stop", "done") /\ workerResult' = "ok"
    /\ UNCHANGED <<hand, frames, received, mainVars, signal, wavVars>>

\* writer.finish()?
Finishes ==
    /\ WorkerMoves("finish", "done")
    /\ \/ Finalize /\ workerResult' = "ok"
       \/ FinalizeFails /\ workerResult' = "wav"
    /\ UNCHANGED <<hand, frames, received, mainVars, signal>>

WorkerNext ==
    \/ SessionStarts \/ SessionFails \/ LoopTest \/ FrameArrives \/ NoFrame \/ CreatesFile
    \/ CreateFails \/ WritesFrame \/ WriteFrameFails \/ WriterDropped \/ SessionStops
    \/ Finishes

Next == CtrlC \/ SignalArrives \/ WorkerJoined \/ WorkerNext

Spec == Init /\ [][Next]_vars

\* Both threads run; no frame needs to arrive and no Ctrl+C to be pressed.
FairSpec == Spec /\ WF_vars(SignalArrives \/ WorkerJoined) /\ WF_vars(WorkerNext)

-----------------------------------------------------------------------------
(* What the command promises *)

\* A normal exit leaves every frame the session delivered in a finished file.
SuccessHasEveryFrame ==
    exit = "ok" /\ frames > 0 =>
        file = "closed" /\ written = received /\ header.data = received

\* README: a recording can be ended early "without corrupting the WAV file".  However
\* the command ends, Ctrl+C and errors included, no file is left open, and its
\* header, unless it could not be written, counts the frames written whole.
NoCorruptFile ==
    main = "exited" =>
        /\ file # "open" /\ worker = "done"
        /\ header # Zeros => header.data = data_bytes
        /\ header.data <= written

\* Ctrl+C ends the command, whatever the session and the file are doing.
CtrlCEnds == signal = "pressed" ~> main = "exited"

\* write_frame refuses what "exceeds 4 GiB"; what it accepts should have a header
\* that says so.  The RIFF size, 36 bytes larger, wraps around before.
RiffSizeFits ==
    header # Zeros => header.riff = RiffExtra + header.data
=============================================================================
