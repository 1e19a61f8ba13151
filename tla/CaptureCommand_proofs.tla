------------------------ MODULE CaptureCommand_proofs ------------------------
(***************************************************************************)
(* Theorems about the capture command and its WAV file, for frames of all  *)
(* sizes, any number of them and every width of the size fields.           *)
(***************************************************************************)
EXTENDS CaptureCommand, TLAPS

-----------------------------------------------------------------------------
(* The file *)

\* The header is zeros until the file is closed and then, unless it could not be written,
\* counts the frames that were written whole.
FileInv ==
    /\ data_bytes <= written
    /\ file # "closed" => header = Zeros
    /\ header = Zeros \/ header = FinalHeader

FileCorrect == WavTypeOK /\ FileInv

\* The final header holds sizes of the width of its fields.
LEMMA FinalHeaderFits ==
    ASSUME WavTypeOK
    PROVE  FinalHeader \in Sizes /\ FinalHeader.data = data_bytes
<1>1. RiffExtra + data_bytes \in Nat /\ Modulus \in Nat \ {0}
  BY WavAssumption DEF WavTypeOK
<1>2. (RiffExtra + data_bytes) % Modulus \in 0 .. Modulus - 1
  BY <1>1
<1> QED
  BY <1>2 DEF WavTypeOK, FinalHeader, Sizes

\* Closing the file keeps it correct, whether its header can be written or not.
LEMMA ClosingKeeps ==
    ASSUME FileCorrect, Finalize \/ FinalizeFails
    PROVE  FileCorrect'
<1>1. /\ file' = "closed" /\ header' \in {header, FinalHeader}
      /\ UNCHANGED <<written, data_bytes>>
  BY DEF Finalize, FinalizeFails
<1>2. FinalHeader' = FinalHeader
  BY <1>1 DEF FinalHeader
<1> QED
  BY <1>1, <1>2, FinalHeaderFits DEF FileCorrect, WavTypeOK, FileInv

\* So does every operation of the writer.
LEMMA FileStep ==
    ASSUME FileCorrect, NEW n \in Nat,
           \/ Create \/ Write(n) \/ WriteRefused(n) \/ WriteFails(n)
           \/ Finalize \/ FinalizeFails \/ DropWriter \/ UNCHANGED wavVars
    PROVE  FileCorrect'
<1> USE WavAssumption
<1>1. CASE Create
  BY <1>1 DEF FileCorrect, WavTypeOK, FileInv, Create, FinalHeader
<1>2. CASE Write(n)
  <2>1. /\ file = "open" /\ data_bytes + n < Modulus
        /\ written' = written + n /\ data_bytes' = data_bytes + n
        /\ UNCHANGED <<file, header>>
    BY <1>2 DEF Write
  <2>2. WavTypeOK'
    BY <2>1 DEF FileCorrect, WavTypeOK
  <2>3. FileInv'
    BY <2>1 DEF FileCorrect, WavTypeOK, FileInv
  <2> QED
    BY <2>2, <2>3 DEF FileCorrect
<1>3. CASE WriteFails(n)
  <2>1. /\ file = "open" /\ written' \in written .. written + n
        /\ UNCHANGED <<file, data_bytes, header>>
    BY <1>3 DEF WriteFails
  <2>2. WavTypeOK'
    BY <2>1 DEF FileCorrect, WavTypeOK
  <2>3. FileInv'
    BY <2>1 DEF FileCorrect, WavTypeOK, FileInv
  <2> QED
    BY <2>2, <2>3 DEF FileCorrect
<1>4. CASE Finalize \/ FinalizeFails
  BY <1>4, ClosingKeeps
<1>5. CASE WriteRefused(n) \/ UNCHANGED wavVars
  BY <1>5 DEF FileCorrect, WavTypeOK, FileInv, WriteRefused, FinalHeader, wavVars
<1>6. CASE DropWriter
  BY <1>4, <1>5, <1>6 DEF DropWriter
<1> QED
  BY <1>1, <1>2, <1>3, <1>4, <1>5, <1>6

-----------------------------------------------------------------------------
(* The command *)

\* The types of the two threads' variables.
ThreadsOK ==
    /\ main \in {"select", "joinWorker", "abandon", "exited"}
    /\ exit \in {"none", "ok", "signal", "capture", "wav"}
    /\ signal \in {"none", "pressed", "failed"}
    /\ stopRequested \in BOOLEAN
    /\ worker \in {"start", "loop", "receive", "create", "write", "failed",
                   "stop", "finish", "done"}
    /\ workerResult \in {"none", "ok", "capture", "wav"}
    /\ hand \in FrameBytes \cup {0}
    /\ frames \in 0 .. MaxFrames /\ received \in Nat

\* Where the worker is, there is a file or none, open until the worker is done.
PlaceInv ==
    /\ worker \in {"start", "create"} => file = "none"
    /\ worker \in {"write", "failed", "finish"} => file = "open"
    /\ worker \in {"loop", "receive", "stop"} /\ frames > 0 => file = "open"
    /\ worker = "start" => frames = 0
    /\ worker = "done" => file # "open"
    /\ file = "closed" => worker = "done"
    /\ worker # "done" => workerResult = "none"
    /\ main = "exited" => worker = "done"
    /\ exit = "ok" => workerResult = "ok" /\ main = "exited"

\* As long as nothing has failed, what was received is what is written and the frame that
\* the worker is about to write.
CountInv ==
    /\ worker \notin {"failed", "done"} => written = data_bytes /\ received = written + hand
    /\ worker \in {"start", "loop", "receive", "stop", "finish"} => hand = 0
    /\ workerResult = "ok" /\ frames > 0 =>
          file = "closed" /\ written = received /\ header.data = received

CommandInv == ThreadsOK /\ FileCorrect /\ PlaceInv /\ CountInv

\* main and the user touch neither the file nor the worker.
LEMMA MainStep ==
    ASSUME CommandInv, CtrlC \/ SignalArrives \/ WorkerJoined \/ UNCHANGED vars
    PROVE  CommandInv'
<1> USE DEF CommandInv
<1>1. UNCHANGED <<workerVars, wavVars>>
  BY DEF CtrlC, SignalArrives, WorkerJoined, vars
<1>2. FileCorrect'
  BY <1>1 DEF FileCorrect, WavTypeOK, FileInv, FinalHeader, wavVars
<1>3. CountInv'
  BY <1>1 DEF CountInv, workerVars, wavVars
<1>4. ThreadsOK' /\ PlaceInv'
  <2>1. CASE CtrlC \/ UNCHANGED vars
    BY <1>1, <2>1 DEF CtrlC, vars, ThreadsOK, PlaceInv, mainVars, workerVars, wavVars
  <2>2. CASE SignalArrives
    BY <1>1, <2>2 DEF SignalArrives, ThreadsOK, PlaceInv, workerVars, wavVars
  <2>3. CASE WorkerJoined
    BY <1>1, <2>3 DEF WorkerJoined, ThreadsOK, PlaceInv, workerVars, wavVars
  <2> QED
    BY <2>1, <2>2, <2>3
<1> QED
  BY <1>2, <1>3, <1>4

\* The worker's steps that leave the file alone.
LEMMA LoopStep ==
    ASSUME CommandInv,
           SessionStarts \/ LoopTest \/ FrameArrives \/ NoFrame \/ CreateFails \/ SessionStops
    PROVE  CommandInv'
<1> USE DEF CommandInv, WorkerMoves
<1>1. UNCHANGED <<mainVars, signal, wavVars>>
  BY DEF SessionStarts, LoopTest, FrameArrives, NoFrame, CreateFails, SessionStops
<1>2. FileCorrect'
  BY <1>1 DEF FileCorrect, WavTypeOK, FileInv, FinalHeader, wavVars
<1>3. CASE FrameArrives
  <2>1. PICK n \in FrameBytes : hand' = n /\ received' = received + n
    BY <1>3 DEF FrameArrives
  <2>2. n \in Nat
    BY CaptureAssumption
  <2>3. /\ frames < MaxFrames /\ frames' = frames + 1 /\ worker = "receive"
        /\ worker' = IF file = "none" THEN "create" ELSE "write"
        /\ workerResult' = workerResult
    BY <1>3 DEF FrameArrives
  <2>4. ThreadsOK'
    BY <1>1, <2>1, <2>2, <2>3, CaptureAssumption DEF ThreadsOK, mainVars
  <2>5. PlaceInv'
    BY <1>1, <2>3 DEF PlaceInv, FileCorrect, WavTypeOK, mainVars, wavVars
  <2>6. CountInv'
    BY <1>1, <2>1, <2>2, <2>3 DEF CountInv, PlaceInv, FileCorrect, WavTypeOK, ThreadsOK, wavVars
  <2> QED
    BY <1>2, <2>4, <2>5, <2>6
<1>4. CASE SessionStarts \/ LoopTest \/ NoFrame \/ CreateFails \/ SessionStops
  <2>1. UNCHANGED <<hand, frames, received>>
    BY <1>4 DEF SessionStarts, LoopTest, NoFrame, CreateFails, SessionStops
  <2>2. \/ /\ worker = "start" /\ worker' = "loop" /\ workerResult' = workerResult
        \/ /\ worker = "loop" /\ worker' \in {"receive", "stop"}
           /\ workerResult' = workerResult
        \/ /\ worker = "receive" /\ worker' = "loop" /\ workerResult' = workerResult
        \/ worker = "create" /\ worker' = "done" /\ workerResult' = "wav"
        \/ /\ file = "open" /\ worker = "stop" /\ worker' = "finish"
           /\ workerResult' = workerResult
        \/ file = "none" /\ worker = "stop" /\ worker' = "done" /\ workerResult' = "ok"
    BY <1>4 DEF SessionStarts, LoopTest, NoFrame, CreateFails, SessionStops
  <2>3. ThreadsOK'
    BY <1>1, <2>1, <2>2 DEF ThreadsOK, mainVars
  <2>4. PlaceInv'
    BY <1>1, <2>1, <2>2 DEF PlaceInv, ThreadsOK, mainVars, wavVars
  <2>5. CountInv'
    BY <1>1, <2>1, <2>2 DEF CountInv, PlaceInv, ThreadsOK, wavVars
  <2> QED
    BY <1>2, <2>3, <2>4, <2>5
<1> QED
  BY <1>3, <1>4

\* The worker's steps that touch the file.
LEMMA WritingStep ==
    ASSUME CommandInv,
           \/ SessionFails \/ CreatesFile \/ WritesFrame \/ WriteFrameFails \/ WriterDropped
           \/ Finishes
    PROVE  CommandInv'
<1> USE DEF CommandInv, WorkerMoves
<1>1. hand \in Nat /\ 0 \in Nat
  BY CaptureAssumption DEF ThreadsOK
<1>2. UNCHANGED <<mainVars, signal, frames, received>>
  BY DEF SessionFails, CreatesFile, WritesFrame, WriteFrameFails, WriterDropped, Finishes
<1>3. FileCorrect'
  <2>1. \/ Create \/ Write(hand) \/ WriteRefused(hand) \/ WriteFails(hand)
        \/ Finalize \/ FinalizeFails \/ DropWriter
    BY DEF SessionFails, WorkerReturns, CreatesFile, WritesFrame, WriteFrameFails,
       WriterDropped, Finishes
  <2> QED
    BY <1>1, <2>1, FileStep
<1>4. CASE SessionFails \/ WriterDropped
  <2>1. /\ worker \in {"start", "receive", "stop", "failed"} /\ worker' = "done"
        /\ workerResult' \in {"capture", "wav"} /\ hand' = hand
        /\ DropWriter
    BY <1>4 DEF SessionFails, WriterDropped, WorkerReturns
  <2>2. file' # "open" /\ UNCHANGED <<written, data_bytes>>
    BY <2>1 DEF DropWriter, Finalize, FinalizeFails, wavVars
  <2>3. ThreadsOK'
    BY <1>2, <2>1 DEF ThreadsOK, mainVars
  <2>4. PlaceInv' /\ CountInv'
    BY <1>2, <2>1, <2>2 DEF PlaceInv, CountInv, mainVars
  <2> QED
    BY <1>3, <2>3, <2>4
<1>5. CASE CreatesFile
  <2>1. /\ worker = "create" /\ worker' = "write" /\ file' = "open"
        /\ UNCHANGED <<workerResult, hand, written, data_bytes, header>>
    BY <1>5 DEF CreatesFile, Create
  <2>2. ThreadsOK'
    BY <1>2, <2>1 DEF ThreadsOK, mainVars
  <2>3. PlaceInv' /\ CountInv'
    BY <1>2, <2>1 DEF PlaceInv, CountInv, mainVars
  <2> QED
    BY <1>3, <2>2, <2>3
<1>6. CASE WritesFrame
  <2>1. /\ worker = "write" /\ worker' = "loop" /\ hand' = 0
        /\ written' = written + hand /\ data_bytes' = data_bytes + hand
        /\ UNCHANGED <<workerResult, file, header>>
    BY <1>6 DEF WritesFrame, Write
  <2>2. ThreadsOK'
    BY <1>2, <2>1 DEF ThreadsOK, mainVars
  <2>3. PlaceInv'
    BY <1>2, <2>1 DEF PlaceInv, mainVars
  <2>4. CountInv'
    BY <1>1, <1>2, <2>1 DEF CountInv, PlaceInv, FileCorrect, WavTypeOK
  <2> QED
    BY <1>3, <2>2, <2>3, <2>4
<1>7. CASE WriteFrameFails
  <2>1. /\ worker = "write" /\ worker' = "failed" /\ UNCHANGED <<workerResult, hand, file>>
    BY <1>7 DEF WriteFrameFails, WriteRefused, WriteFails, wavVars
  <2>2. ThreadsOK'
    BY <1>2, <2>1 DEF ThreadsOK, mainVars
  <2>3. PlaceInv' /\ CountInv'
    BY <1>2, <2>1 DEF PlaceInv, CountInv, mainVars
  <2> QED
    BY <1>3, <2>2, <2>3
<1>8. CASE Finishes
  <2>1. /\ worker = "finish" /\ worker' = "done" /\ file' = "closed"
        /\ UNCHANGED <<hand, written, data_bytes>>
        /\ \/ workerResult' = "ok" /\ header' = FinalHeader
           \/ workerResult' = "wav"
    BY <1>8 DEF Finishes, Finalize, FinalizeFails
  <2>2. ThreadsOK'
    BY <1>2, <2>1 DEF ThreadsOK, mainVars
  <2>3. PlaceInv'
    BY <1>2, <2>1 DEF PlaceInv, mainVars
  <2>4. FinalHeader.data = data_bytes
    BY FinalHeaderFits DEF FileCorrect
  <2>5. received = written /\ written = data_bytes
    BY <2>1 DEF CountInv, FileCorrect, WavTypeOK
  <2>6. CountInv'
    BY <1>2, <2>1, <2>4, <2>5 DEF CountInv
  <2> QED
    BY <1>3, <2>2, <2>3, <2>6
<1> QED
  BY <1>4, <1>5, <1>6, <1>7, <1>8

\* Main, worker and file always agree.
LEMMA CommandCorrect == Spec => []CommandInv
<1>1. Init => CommandInv
  <2> SUFFICES ASSUME Init PROVE CommandInv
    OBVIOUS
  <2>1. ThreadsOK
    <3>1. 0 \in 0 .. MaxFrames
      BY CaptureAssumption
    <3> QED
      BY <3>1 DEF Init, ThreadsOK
  <2>2. WavTypeOK
    BY WavAssumption DEF Init, WavInit, WavTypeOK, Sizes, Zeros
  <2>3. FileInv /\ PlaceInv /\ CountInv
    BY DEF Init, WavInit, FileInv, PlaceInv, CountInv
  <2> QED
    BY <2>1, <2>2, <2>3 DEF CommandInv, FileCorrect
<1>2. CommandInv /\ [Next]_vars => CommandInv'
  BY MainStep, LoopStep, WritingStep DEF Next, WorkerNext
<1> QED
  BY <1>1, <1>2, PTL DEF Spec

-----------------------------------------------------------------------------
(* What the command promises *)

\* Every variable keeps its type; the sizes of the header fit their fields.
THEOREM TypeTheorem == Spec => []TypeOK
<1>1. CommandInv => TypeOK
  BY DEF CommandInv, ThreadsOK, FileCorrect, TypeOK
<1> QED
  BY <1>1, CommandCorrect, PTL

\* A normal exit leaves every frame that the session delivered in a finished file whose
\* header counts them.
THEOREM SuccessTheorem == Spec => []SuccessHasEveryFrame
<1>1. CommandInv => SuccessHasEveryFrame
  BY DEF CommandInv, PlaceInv, CountInv, SuccessHasEveryFrame
<1> QED
  BY <1>1, CommandCorrect, PTL

\* However the command ends, no file is left open, and a header that was written counts the
\* frames that are in the file whole.
THEOREM NoCorruptFileTheorem == Spec => []NoCorruptFile
<1>1. CommandInv => NoCorruptFile
  <2> SUFFICES ASSUME CommandInv, main = "exited" PROVE NoCorruptFile
    BY DEF NoCorruptFile
  <2>1. file # "open" /\ worker = "done"
    BY DEF CommandInv, PlaceInv
  <2>2. header = Zeros \/ header.data = data_bytes
    BY FinalHeaderFits DEF CommandInv, FileCorrect, FileInv
  <2>3. header.data <= written
    BY <2>2 DEF CommandInv, FileCorrect, FileInv, WavTypeOK, Zeros
  <2> QED
    BY <2>1, <2>2, <2>3 DEF NoCorruptFile
<1> QED
  BY <1>1, CommandCorrect, PTL

\* The RIFF size of the header is true for every file but those of the last RiffExtra sizes
\* that write_frame accepts.
THEOREM RiffSizeTheorem == Spec => [](RiffExtra + data_bytes < Modulus => RiffSizeFits)
<1>1. CommandInv => (RiffExtra + data_bytes < Modulus => RiffSizeFits)
  <2> SUFFICES ASSUME CommandInv, RiffExtra + data_bytes < Modulus, header # Zeros
               PROVE  header.riff = RiffExtra + header.data
    BY DEF RiffSizeFits
  <2>1. header = FinalHeader
    BY DEF CommandInv, FileCorrect, FileInv
  <2>2. RiffExtra + data_bytes \in 0 .. Modulus - 1 /\ Modulus \in Nat \ {0}
    BY WavAssumption DEF CommandInv, FileCorrect, WavTypeOK
  <2>3. (RiffExtra + data_bytes) % Modulus = RiffExtra + data_bytes
    BY <2>2
  <2> QED
    BY <2>1, <2>3 DEF FinalHeader
<1> QED
  BY <1>1, CommandCorrect, PTL
=============================================================================
