------------------------ MODULE TranscribeCommand_proofs ------------------------
(***************************************************************************)
(* Theorems about the transcribe command for queues of all capacities,     *)
(* any number of frames and events, and every failure of its parts.        *)
(***************************************************************************)
EXTENDS TranscribeCommand, SequenceTheorems, FiniteSetTheorems, TLAPS

-----------------------------------------------------------------------------
(* Sequences *)

\* A sequence made longer by one or two elements begins with what it was.
LEMMA OneLonger ==
    ASSUME NEW S, NEW s \in Seq(S), NEW e \in S
    PROVE  /\ Append(s, e) \in Seq(S) /\ Len(Append(s, e)) = Len(s) + 1
           /\ \A i \in 1 .. Len(s) : Append(s, e)[i] = s[i]
           /\ Append(s, e)[Len(s) + 1] = e
  BY AppendProperties

LEMMA TwoLonger ==
    ASSUME NEW S, NEW s \in Seq(S), NEW d \in S, NEW e \in S
    PROVE  /\ s \o <<d, e>> \in Seq(S) /\ Len(s \o <<d, e>>) = Len(s) + 2
           /\ \A i \in 1 .. Len(s) : (s \o <<d, e>>)[i] = s[i]
           /\ (s \o <<d, e>>)[Len(s) + 1] = d
           /\ (s \o <<d, e>>)[Len(s) + 2] = e
<1> DEFINE t == <<d, e>>
<1>1. t \in Seq(S) /\ Len(t) = 2 /\ t[1] = d /\ t[2] = e
  OBVIOUS
<1> HIDE DEF t
<1>2. Len(s) \in Nat
  BY LenProperties
<1>3. /\ s \o t \in Seq(S) /\ Len(s \o t) = Len(s) + 2
      /\ \A i \in 1 .. Len(s) + 2 :
            (s \o t)[i] = IF i <= Len(s) THEN s[i] ELSE t[i - Len(s)]
  <2>1. /\ s \o t \in Seq(S) /\ Len(s \o t) = Len(s) + Len(t)
        /\ \A i \in 1 .. Len(s) + Len(t) :
              (s \o t)[i] = IF i <= Len(s) THEN s[i] ELSE t[i - Len(s)]
    BY <1>1, ConcatProperties
  <2>2. Len(s) + Len(t) = Len(s) + 2
    BY <1>1
  <2> QED
    BY ONLY <2>1, <2>2
<1>4. /\ \A i \in 1 .. Len(s) : (s \o t)[i] = s[i]
      /\ (s \o t)[Len(s) + 1] = t[1] /\ (s \o t)[Len(s) + 2] = t[2]
  BY <1>2, <1>3
<1> QED
  BY <1>1, <1>3, <1>4 DEF t

-----------------------------------------------------------------------------
(* The inductive invariant *)

\* The types, by actor.
MainOK ==
    /\ main \in {"connect", "listen", "select", "joinAudio", "abandon", "finishSend",
                 "join", "joinWriter", "exited"}
    /\ exit \in {"none", "ok", "connect", "signal", "panic", "audio", "finish", "writer"}
    /\ signal \in {"none", "pressed", "failed"}
    /\ stopRequested \in BOOLEAN

AudioOK ==
    /\ audio \in {"idle", "start", "loop", "receive", "save", "convert", "send",
                  "flush", "sendTail", "stop", "closeWav", "done"}
    /\ audioResult \in {"none", "ok", "capture", "wav", "convert", "queueFull", "closed",
                        "panic"}
    /\ pending \in Nat /\ frames \in 0 .. MaxFrames /\ made \in Nat /\ accepted \in 0 .. made
    /\ wav \in {"none", "open", "closed"} /\ saved \in 0 .. frames

StreamOK == stream \in Seq(EventKinds) /\ outcome \in Session!Outcomes

WriterOK ==
    /\ writer \in {"idle", "open", "read", "done"}
    /\ writerResult \in {"none", "ok", "failed", "panic"}
    /\ heard \in 0 .. Len(stream)
    /\ text \in Seq({"Final"}) /\ json \in Seq(EventKinds)

\* The worker runs while main waits for it, and nothing is open before or after.
AudioInv ==
    /\ main \in {"connect", "listen"} => audio = "idle"
    /\ main \in {"finishSend", "join", "joinWriter"} => audio = "done"
    /\ main = "exited" => audio \in {"idle", "done"}
    /\ audio \in {"idle", "done"} => wav # "open"
    /\ audio = "done" <=> audioResult # "none"

\* A chunk is accepted or has still to be sent; a frame is saved once the worker has passed
\* its step.
CountInv ==
    /\ accepted + pending = made
    /\ audio \notin {"send", "sendTail", "done"} \/ audioResult = "ok" => pending = 0
    /\ audio = "save" => saved + 1 = frames
    /\ SaveAudio /\ (audio \notin {"save", "done"} \/ audioResult = "ok") => saved = frames

\* What the exit says of the three parts.
MainInv ==
    /\ main = "connect" => writer = "idle"
    /\ main # "exited" => exit = "none"
    /\ main = "exited" /\ exit \notin {"connect", "signal", "panic"} => writer = "done"
    /\ exit = "ok" => audioResult = "ok" /\ outcome = "ok" /\ writerResult = "ok"

\* Only the last event may be End, and a session that succeeds has sent it.
StreamInv ==
    /\ \A j \in 1 .. Len(stream) - 1 : stream[j] # "End"
    /\ outcome = "ok" => Session!Acknowledged

\* No event follows.
Over == outcome # "none" \/ Session!Acknowledged

\* The JSONL file has the first n events, none of which is End.
Copied(n) == Len(json) = n /\ \A j \in 1 .. n : json[j] = stream[j] /\ stream[j] # "End"

\* Unless it has failed, the writer has written what it has heard, and it ends well only when
\* nothing follows.
WriterInv ==
    /\ writer \in {"idle", "open"} => heard = 0 /\ json = <<>> /\ text = <<>>
    /\ writer = "done" <=> writerResult # "none"
    /\ writerResult \notin {"failed", "panic"} => Len(text) = Cardinality(FinalsIn(heard))
    /\ writer = "read" => Copied(heard)
    /\ writerResult = "ok" =>
          /\ heard = Len(stream) /\ Over
          /\ Copied(IF Session!Acknowledged THEN heard - 1 ELSE heard)

Kinds == MainOK /\ AudioOK /\ queue \in 0 .. Capacity /\ StreamOK /\ WriterOK

CommandInv == Kinds /\ AudioInv /\ CountInv /\ MainInv /\ StreamInv /\ WriterInv

\* Where the writer and the session stand still, so does what they promise.
LEMMA WriterKept ==
    ASSUME StreamOK, WriterOK, StreamInv, WriterInv, UNCHANGED <<writerVars, stream, outcome>>
    PROVE  StreamOK' /\ WriterOK' /\ StreamInv' /\ WriterInv'
  BY DEF StreamOK, WriterOK, StreamInv, WriterInv, Copied, Over, FinalsIn, writerVars,
     Session!Acknowledged, Session!Outcomes

-----------------------------------------------------------------------------
(* main and the user *)

\* A step of main looks at the other parts and moves none of them, but that it spawns them.
LEMMA MainStep ==
    ASSUME CommandInv, MainNext \/ CtrlC \/ UNCHANGED vars
    PROVE  CommandInv'
<1> USE DEF CommandInv, Kinds
<1>1. /\ UNCHANGED <<audioResult, pending, frames, made, accepted, wav, saved, writerResult,
                     heard, text, json, queue, stream, outcome>>
      /\ \/ UNCHANGED <<audio, writer>>
         \/ main = "connect" /\ main' = "listen" /\ writer' = "open" /\ audio' = audio
         \/ main = "listen" /\ main' = "select" /\ audio' = "start" /\ writer' = writer
  BY DEF MainNext, ConnectFails, Connects, ListenFails, Listens, AudioEnds, AudioJoinFails,
     SignalArrives, Abandons, FinishSent, FinishReturns, Reports, CtrlC, vars, audioVars,
     writerVars
<1>2. \/ UNCHANGED <<main, exit, audio, writer>>
      \/ main = "connect" /\ main' = "listen" /\ exit' = exit /\ audio' = audio
      \/ main = "listen" /\ main' = "select" /\ exit' = exit /\ audio' = "start"
         /\ writer' = writer
      \/ /\ UNCHANGED <<audio, writer>>
         /\ \/ main = "connect" /\ main' = "exited" /\ exit' = "connect"
            \/ main = "listen" /\ main' = "exited" /\ exit' = "signal"
            \/ main \in {"select", "joinAudio"} /\ audio = "done" /\ main' = "finishSend"
               /\ exit' = exit
            \/ main \in {"select", "joinAudio"} /\ audio = "done" /\ main' = "exited"
               /\ exit' = "panic"
            \/ main = "select" /\ main' \in {"joinAudio", "abandon"} /\ exit' = exit
            \/ main = "abandon" /\ audio = "done" /\ main' = "exited" /\ exit' = "signal"
            \/ main = "finishSend" /\ main' = "join" /\ exit' = exit
            \/ main = "join" /\ main' = "joinWriter" /\ exit' = exit
            \/ main = "joinWriter" /\ writer = "done" /\ main' = "exited" /\ exit' = Verdict
  BY DEF MainNext, ConnectFails, Connects, ListenFails, Listens, AudioEnds, AudioJoinFails,
     SignalArrives, Abandons, FinishSent, FinishReturns, Reports, CtrlC, vars, audioVars,
     writerVars, mainVars,
     Exits
<1>3. Verdict \in {"ok", "audio", "finish", "writer"}
      /\ (Verdict = "ok" => audioResult = "ok" /\ outcome = "ok" /\ writerResult = "ok")
  BY DEF Verdict
<1>4. queue' \in 0 .. Capacity /\ StreamOK' /\ StreamInv'
  BY <1>1 DEF StreamOK, StreamInv, Session!Acknowledged, Session!Outcomes
<1>5. MainOK'
  <2>1. /\ main' \in {"connect", "listen", "select", "joinAudio", "abandon", "finishSend",
                      "join", "joinWriter", "exited"}
        /\ exit' \in {"none", "ok", "connect", "signal", "panic", "audio", "finish", "writer"}
    BY <1>2, <1>3 DEF MainOK
  <2>2. signal' \in {"none", "pressed", "failed"}
    BY DEF MainOK, MainNext, ConnectFails, Connects, ListenFails, Listens, AudioEnds,
       AudioJoinFails, SignalArrives, Abandons, FinishSent, FinishReturns, Reports, CtrlC, vars
  <2>3. stopRequested' \in BOOLEAN
    <3>1. stopRequested' = stopRequested \/ stopRequested' = TRUE
      BY DEF MainNext, ConnectFails, Connects, ListenFails, Listens, AudioEnds, AudioJoinFails,
         SignalArrives, Abandons, FinishSent, FinishReturns, Reports, CtrlC, vars, mainVars
    <3> QED
      BY <3>1 DEF MainOK
  <2> QED
    BY <2>1, <2>2, <2>3 DEF MainOK
<1>6. AudioOK' /\ CountInv'
  BY <1>1 DEF AudioOK, CountInv, AudioInv
<1>7. WriterOK'
  BY <1>1 DEF WriterOK
<1>8. AudioInv'
  BY <1>1, <1>2 DEF AudioInv, AudioOK
<1>9. MainInv'
  BY <1>1, <1>2, <1>3 DEF MainInv
<1>10. WriterInv'
  BY <1>1 DEF WriterInv, MainInv, Copied, Over, FinalsIn, Session!Acknowledged
<1> QED
  BY <1>4, <1>5, <1>6, <1>7, <1>8, <1>9, <1>10

-----------------------------------------------------------------------------
(* The audio worker *)

\* While the worker runs, main waits for it, and the exit is open.
LEMMA WorkerRuns ==
    ASSUME CommandInv, audio \notin {"idle", "done"}
    PROVE  main \in {"select", "joinAudio", "abandon"} /\ exit = "none" /\ audioResult = "none"
  BY DEF CommandInv, Kinds, MainOK, AudioInv, MainInv

\* What a step of the worker keeps if it is correct for the worker's own variables.
LEMMA WorkerKeeps ==
    ASSUME CommandInv, audio \notin {"idle", "done"},
           UNCHANGED <<writerVars, mainVars, signal, stream, outcome>>,
           queue' \in 0 .. Capacity, AudioOK', CountInv',
           audio' # "idle", audio' = "done" => wav' # "open",
           audio' = "done" <=> audioResult' # "none"
    PROVE  CommandInv'
<1>1. main \in {"select", "joinAudio", "abandon"} /\ exit = "none"
  BY WorkerRuns
<1>2. MainOK'
  BY DEF CommandInv, Kinds, MainOK, mainVars
<1>3. StreamOK' /\ WriterOK' /\ StreamInv' /\ WriterInv'
  BY WriterKept DEF CommandInv, Kinds
<1>4. AudioInv'
  BY <1>1 DEF AudioInv, mainVars
<1>5. MainInv'
  BY <1>1 DEF MainInv, mainVars
<1> QED
  BY <1>2, <1>3, <1>4, <1>5 DEF CommandInv, Kinds

\* A worker that returns has closed its file.
LEMMA WorkerReturns ==
    ASSUME CommandInv,
           CaptureFails \/ WavFails \/ ConversionFails \/ SendFails \/ ClosesWav \/ AudioPanics
    PROVE  CommandInv'
<1> USE DEF CommandInv, Kinds
<1>1. /\ audio \notin {"idle", "done"} /\ audio' = "done"
      /\ \/ audioResult' \in {"capture", "wav", "convert", "queueFull", "closed", "panic"}
         \/ audioResult' = "ok" /\ audio = "closeWav"
      /\ wav' = IF wav = "open" THEN "closed" ELSE wav
      /\ UNCHANGED <<pending, frames, made, accepted, saved, queue>>
      /\ UNCHANGED <<writerVars, mainVars, signal, stream, outcome>>
  BY DEF CaptureFails, WavFails, ConversionFails, SendFails, ClosesWav, AudioPanics,
     AudioReturns
<1>2. AudioOK' /\ wav' # "open"
  BY <1>1 DEF AudioOK
<1>3. CountInv'
  BY <1>1 DEF CountInv, AudioInv
<1> QED
  BY <1>1, <1>2, <1>3, WorkerKeeps

\* The steps of the worker's loop that move no chunk.
LEMMA WorkerMoves ==
    ASSUME CommandInv,
           CaptureStarts \/ LoopTest \/ FrameArrives \/ NoFrame \/ Saves \/ BatchSent
               \/ CaptureStops
    PROVE  CommandInv'
<1> USE DEF CommandInv, Kinds, AudioMoves
<1>1. /\ UNCHANGED <<pending, made, accepted, queue>>
      /\ UNCHANGED <<writerVars, mainVars, signal, stream, outcome>>
  BY DEF CaptureStarts, LoopTest, FrameArrives, NoFrame, Saves, BatchSent, CaptureStops
<1>2. audio \notin {"idle", "done"}
  BY DEF CaptureStarts, LoopTest, FrameArrives, NoFrame, Saves, BatchSent, CaptureStops
<1>3. audioResult = "none"
  BY <1>2, WorkerRuns
<1>4. CASE CaptureStarts \/ LoopTest \/ NoFrame \/ BatchSent
  <2>1. /\ \/ audio \in {"start", "receive"} /\ audio' = "loop"
           \/ audio = "loop" /\ audio' \in {"receive", "flush"}
           \/ pending = 0 /\ audio = "send" /\ audio' = "loop"
           \/ pending = 0 /\ audio = "sendTail" /\ audio' = "stop"
        /\ UNCHANGED <<audioResult, frames, wav, saved>>
    BY <1>4 DEF CaptureStarts, LoopTest, NoFrame, BatchSent
  <2>2. AudioOK' /\ CountInv'
    BY <1>1, <1>3, <2>1 DEF AudioOK, CountInv
  <2> QED
    BY <1>1, <1>2, <1>3, <2>1, <2>2, WorkerKeeps
<1>5. CASE FrameArrives
  <2>1. /\ frames < MaxFrames /\ frames' = frames + 1 /\ audio = "receive"
        /\ audio' = IF SaveAudio THEN "save" ELSE "convert"
        /\ UNCHANGED <<audioResult, wav, saved>>
    BY <1>5 DEF FrameArrives
  <2>2. AudioOK'
    BY <1>1, <2>1, TranscribeAssumption DEF AudioOK
  <2>3. CountInv'
    BY <1>1, <1>3, <2>1 DEF CountInv, AudioOK
  <2> QED
    BY <1>1, <1>2, <1>3, <2>1, <2>2, <2>3, WorkerKeeps
<1>6. CASE Saves
  <2>1. /\ audio = "save" /\ audio' = "convert" /\ wav' = "open" /\ saved' = saved + 1
        /\ UNCHANGED <<audioResult, frames>>
    BY <1>6 DEF Saves
  <2>2. AudioOK' /\ CountInv'
    BY <1>1, <1>3, <2>1 DEF AudioOK, CountInv
  <2> QED
    BY <1>1, <1>2, <1>3, <2>1, <2>2, WorkerKeeps
<1>7. CASE CaptureStops
  <2>1. /\ audio = "stop" /\ audio' = (IF wav = "open" THEN "closeWav" ELSE "done")
        /\ audioResult' = (IF wav = "open" THEN "none" ELSE "ok")
        /\ UNCHANGED <<frames, wav, saved>>
    BY <1>7 DEF CaptureStops
  <2>2. AudioOK' /\ CountInv'
    BY <1>1, <1>3, <2>1 DEF AudioOK, CountInv
  <2> QED
    BY <1>1, <1>2, <1>3, <2>1, <2>2, WorkerKeeps
<1> QED
  BY <1>4, <1>5, <1>6, <1>7

\* The steps that make chunks and hand them over.
LEMMA ChunkStep ==
    ASSUME CommandInv, Converts \/ Flushes \/ Sends
    PROVE  CommandInv'
<1> USE DEF CommandInv, Kinds, AudioMoves
<1>1. CASE Converts \/ Flushes
  <2>1. PICK n \in Nat : pending' = n /\ made' = made + n
    BY <1>1, TranscribeAssumption DEF Converts, Flushes
  <2>2. /\ \/ audio = "convert" /\ audio' = "send"
           \/ audio = "flush" /\ audio' = "sendTail"
        /\ UNCHANGED <<audioResult, frames, accepted, wav, saved, queue>>
        /\ UNCHANGED <<writerVars, mainVars, signal, stream, outcome>>
    BY <1>1 DEF Converts, Flushes
  <2>3. audioResult = "none" /\ pending = 0
    BY <2>2, WorkerRuns DEF CountInv
  <2>4. AudioOK'
    BY <2>1, <2>2 DEF AudioOK
  <2>5. CountInv'
    BY <2>1, <2>2, <2>3 DEF CountInv, AudioOK
  <2> QED
    BY <2>2, <2>3, <2>4, <2>5, WorkerKeeps
<1>2. CASE Sends
  <2>1. /\ audio \in {"send", "sendTail"} /\ pending > 0 /\ queue < Capacity
        /\ pending' = pending - 1 /\ accepted' = accepted + 1 /\ queue' = queue + 1
        /\ UNCHANGED <<audio, audioResult, frames, made, wav, saved>>
        /\ UNCHANGED <<writerVars, mainVars, signal, stream, outcome>>
    BY <1>2 DEF Sends
  <2>2. audioResult = "none"
    BY <2>1, WorkerRuns
  <2>3. queue' \in 0 .. Capacity
    BY <2>1, TranscribeAssumption
  <2>4. AudioOK'
    BY <2>1 DEF AudioOK, CountInv
  <2>5. CountInv'
    BY <2>1, <2>2 DEF CountInv, AudioOK
  <2> QED
    BY <2>1, <2>2, <2>3, <2>4, <2>5, WorkerKeeps
<1> QED
  BY <1>1, <1>2

-----------------------------------------------------------------------------
(* The session *)

\* Where the session has not ended, no event is End; what it adds may end with it.
LEMMA StreamGrows ==
    ASSUME StreamOK, StreamInv, Session!Transcribe \/ Session!Acknowledge \/ Session!Fail
    PROVE  /\ Session!Running /\ StreamOK' /\ StreamInv'
           /\ Len(stream) \in Nat /\ Len(stream) <= Len(stream')
           /\ \A i \in 1 .. Len(stream) : stream'[i] = stream[i]
<1> USE DEF StreamOK, StreamInv
<1> DEFINE n == Len(stream)  t == stream'
<1>1. Session!Running
  BY DEF Session!Transcribe, Session!Acknowledge, Session!Fail
<1>2. n \in Nat
  BY LenProperties
<1>3. \A j \in 1 .. n : stream[j] # "End"
  <2>1. n > 0 => stream[n] # "End"
    <3>1. n > 0 => stream # <<>>
      OBVIOUS
    <3> QED
      BY <1>1, <3>1 DEF Session!Running, Session!Acknowledged
  <2> QED
    BY <1>2, <2>1
<1>4. outcome' \in Session!Outcomes
  BY DEF Session!Transcribe, Session!Acknowledge, Session!Fail, Session!Outcomes
<1>5. CASE t = stream /\ outcome' # "ok"
  BY <1>1, <1>2, <1>4, <1>5
<1>6. ASSUME NEW e \in EventKinds, t = Append(stream, e), outcome' = "ok" => e = "End"
      PROVE  StreamOK' /\ StreamInv' /\ n <= Len(t) /\ \A i \in 1 .. n : t[i] = stream[i]
  <2>1. /\ t \in Seq(EventKinds) /\ Len(t) = n + 1 /\ t[n + 1] = e
        /\ \A i \in 1 .. n : t[i] = stream[i]
    BY <1>6, OneLonger
  <2>2. t # <<>>
    BY <1>2, <2>1
  <2> HIDE DEF n, t
  <2>3. \A j \in 1 .. Len(t) - 1 : t[j] # "End"
    BY <1>2, <1>3, <2>1
  <2>4. outcome' = "ok" => t[Len(t)] = "End"
    BY <1>6, <2>1
  <2>5. n <= Len(t)
    BY <1>2, <2>1
  <2> QED
    BY <1>4, <2>1, <2>2, <2>3, <2>4, <2>5 DEF t, Session!Acknowledged
<1>7. ASSUME NEW d \in EventKinds \ {"End"}, NEW e \in EventKinds, t = stream \o <<d, e>>,
             outcome' = "ok" => e = "End"
      PROVE  StreamOK' /\ StreamInv' /\ n <= Len(t) /\ \A i \in 1 .. n : t[i] = stream[i]
  <2>1. /\ t \in Seq(EventKinds) /\ Len(t) = n + 2 /\ t[n + 1] = d /\ t[n + 2] = e
        /\ \A i \in 1 .. n : t[i] = stream[i]
    BY <1>7, TwoLonger
  <2>2. t # <<>>
    BY <1>2, <2>1
  <2> HIDE DEF n, t
  <2>3. \A j \in 1 .. Len(t) - 1 : t[j] # "End"
    BY <1>2, <1>3, <2>1
  <2>4. outcome' = "ok" => t[Len(t)] = "End"
    BY <1>7, <2>1
  <2>5. n <= Len(t)
    BY <1>2, <2>1
  <2> QED
    BY <1>4, <2>1, <2>2, <2>3, <2>4, <2>5 DEF t, Session!Acknowledged
<1>8. Session!Results \subseteq EventKinds \ {"End"}
      /\ {"End", "ServerError", "Disconnected"} \subseteq EventKinds
  BY DEF Session!Results, EventKinds
<1>9. CASE Session!Transcribe
  <2>1. outcome' # "ok" /\ \E e \in Session!Results : t = Append(stream, e)
    BY <1>1, <1>9 DEF Session!Transcribe, Session!Running
  <2> QED
    BY <1>1, <1>2, <1>6, <1>8, <2>1
<1>10. CASE Session!Acknowledge
  <2>1. \/ t = Append(stream, "End")
        \/ \E e \in Session!Results : t = stream \o <<e, "End">>
    BY <1>10 DEF Session!Acknowledge
  <2> QED
    BY <1>1, <1>2, <1>6, <1>7, <1>8, <2>1
<1>11. CASE Session!Fail
  <2>1. /\ outcome' # "ok"
        /\ \/ t = stream
           \/ t = Append(stream, "Disconnected") \/ t = Append(stream, "ServerError")
           \/ \E e \in Session!Results : t = stream \o <<e, "ServerError">>
    BY <1>11 DEF Session!Fail
  <2> QED
    BY <1>1, <1>2, <1>5, <1>6, <1>7, <1>8, <2>1
<1> QED
  BY <1>9, <1>10, <1>11

\* Events that the writer has heard stay where they are.
LEMMA SessionStep ==
    ASSUME CommandInv, SessionNext
    PROVE  CommandInv'
<1> USE DEF CommandInv, Kinds
<1>1. UNCHANGED <<audioVars, writerVars, mainVars, signal>> /\ main # "exited"
  BY DEF SessionNext, ChunkTaken, ServerSpeaks, SessionAcknowledged, SessionSucceeds,
     SessionFails, Connected
<1>2. queue' \in 0 .. Capacity
  <2>1. queue' = queue \/ (queue' = queue - 1 /\ queue > 0)
    BY DEF SessionNext, ChunkTaken, ServerSpeaks, SessionAcknowledged, SessionSucceeds,
       SessionFails
  <2> QED
    BY <2>1, TranscribeAssumption
<1>3. MainOK' /\ AudioOK' /\ AudioInv' /\ CountInv'
  BY <1>1 DEF MainOK, AudioOK, AudioInv, CountInv, mainVars, audioVars
<1>4. MainInv'
  BY <1>1 DEF MainInv, mainVars, writerVars
<1>5. StreamOK' /\ WriterOK' /\ StreamInv' /\ WriterInv'
  <2>1. CASE ChunkTaken
    BY <1>1, <2>1, WriterKept DEF ChunkTaken
  <2>2. CASE SessionSucceeds
    <3>1. outcome = "none" /\ Session!Acknowledged /\ outcome' = "ok" /\ stream' = stream
      BY <2>2 DEF SessionSucceeds, Session!Succeed
    <3>2. Session!Acknowledged'
      BY <3>1 DEF Session!Acknowledged
    <3>3. StreamOK' /\ StreamInv'
      BY <3>1, <3>2 DEF StreamOK, StreamInv, Session!Outcomes
    <3>4. WriterOK' /\ WriterInv'
      BY <1>1, <3>1, <3>2 DEF WriterOK, WriterInv, Copied, Over, FinalsIn, writerVars
    <3> QED
      BY <3>3, <3>4
  <2>3. CASE ServerSpeaks \/ SessionAcknowledged \/ SessionFails
    <3>1. /\ Session!Running /\ StreamOK' /\ StreamInv'
          /\ Len(stream) \in Nat /\ Len(stream) <= Len(stream')
          /\ \A i \in 1 .. Len(stream) : stream'[i] = stream[i]
      BY <2>3, StreamGrows DEF ServerSpeaks, SessionAcknowledged, SessionFails
    <3>2. writerResult # "ok"
      BY <3>1 DEF WriterInv, Over, Session!Running
    <3>3. Len(stream') \in Nat
      BY <3>1, LenProperties DEF StreamOK
    <3>4. WriterOK'
      BY <1>1, <3>1, <3>3 DEF WriterOK, writerVars
    <3>5. FinalsIn(heard)' = FinalsIn(heard)
      <4>1. heard \in 0 .. Len(stream) /\ heard' = heard
        BY <1>1 DEF WriterOK, writerVars
      <4>2. \A i \in 1 .. heard : stream'[i] = stream[i]
        BY <3>1, <4>1
      <4> QED
        BY <4>1, <4>2 DEF FinalsIn
    <3>6. Copied(heard) => Copied(heard)'
      <4>1. heard \in 0 .. Len(stream) /\ heard' = heard /\ json' = json
        BY <1>1 DEF WriterOK, writerVars
      <4> QED
        BY <3>1, <4>1 DEF Copied
    <3>7. WriterInv'
      BY <1>1, <3>2, <3>5, <3>6 DEF WriterInv, writerVars
    <3> QED
      BY <3>1, <3>4, <3>7
  <2> QED
    BY <2>1, <2>2, <2>3 DEF SessionNext
<1> QED
  BY <1>2, <1>3, <1>4, <1>5

-----------------------------------------------------------------------------
(* The transcript writer *)

\* One more event is one more Final or none.
LEMMA FinalsCounted ==
    ASSUME NEW n \in Nat
    PROVE  /\ IsFiniteSet(FinalsIn(n)) /\ Cardinality(FinalsIn(n)) \in Nat
           /\ Cardinality(FinalsIn(n + 1))
                 = Cardinality(FinalsIn(n)) + (IF stream[n + 1] = "Final" THEN 1 ELSE 0)
           /\ Cardinality(FinalsIn(0)) = 0
<1>1. IsFiniteSet(FinalsIn(n))
  <2>1. IsFiniteSet(1 .. n) /\ FinalsIn(n) \in SUBSET (1 .. n)
    BY FS_Interval DEF FinalsIn
  <2> QED
    BY <2>1, FS_Subset
<1>2. Cardinality(FinalsIn(n)) \in Nat
  BY <1>1, FS_CardinalityType
<1>3. FinalsIn(0) = {}
  BY DEF FinalsIn
<1>4. n + 1 \notin FinalsIn(n)
      /\ FinalsIn(n + 1) = IF stream[n + 1] = "Final" THEN FinalsIn(n) \cup {n + 1}
                           ELSE FinalsIn(n)
  BY DEF FinalsIn
<1>5. Cardinality(FinalsIn(n) \cup {n + 1}) = Cardinality(FinalsIn(n)) + 1
  BY <1>1, <1>4, FS_AddElement
<1> QED
  BY <1>1, <1>2, <1>3, <1>4, <1>5, FS_EmptySet

\* What the writer reports is what it has written.
LEMMA WriterStep ==
    ASSUME CommandInv, WriterNext
    PROVE  CommandInv'
<1> USE DEF CommandInv, Kinds
<1>1. UNCHANGED <<audioVars, mainVars, signal, queue, stream, outcome>> /\ main # "exited"
      /\ writer \notin {"idle", "done"}
  BY DEF WriterNext, WriterOpens, WriterFails, WriterPanics, WriterReads, WriterEnds, WriterIn
<1>2. MainOK' /\ AudioOK' /\ AudioInv' /\ CountInv' /\ queue' \in 0 .. Capacity
  BY <1>1 DEF MainOK, AudioOK, AudioInv, CountInv, mainVars, audioVars
<1>3. StreamOK' /\ StreamInv'
  BY <1>1 DEF StreamOK, StreamInv, Session!Acknowledged, Session!Outcomes
<1>4. MainInv'
  BY <1>1 DEF MainInv, MainOK, mainVars, AudioInv, audioVars
<1>5. Len(stream) \in Nat /\ heard \in 0 .. Len(stream) /\ writerResult = "none"
  BY <1>1, LenProperties DEF StreamOK, WriterOK, WriterInv
<1>6. \A n \in Nat : FinalsIn(n)' = FinalsIn(n)
  BY <1>1 DEF FinalsIn
<1>7. CASE WriterOpens
  <2>1. writer = "open" /\ writer' = "read" /\ UNCHANGED <<writerResult, heard, text, json>>
    BY <1>7 DEF WriterOpens, WriterIn
  <2>2. WriterOK'
    BY <1>1, <2>1 DEF WriterOK
  <2>3. Copied(heard)'
    BY <2>1 DEF WriterInv, Copied
  <2>4. WriterInv'
    BY <1>5, <1>6, <2>1, <2>3 DEF WriterInv
  <2> QED
    BY <1>2, <1>3, <1>4, <2>2, <2>4
<1>8. CASE WriterFails \/ WriterPanics
  <2>1. /\ writer' = "done" /\ writerResult' \in {"failed", "panic"} /\ json' = json
        /\ heard' = IF writer = "read" THEN heard + 1 ELSE heard
        /\ writer = "read" => heard < Len(stream)
        /\ text' = text \/ text' = Append(text, "Final")
    BY <1>8 DEF WriterFails, WriterPanics, WriterIn
  <2>2. text' \in Seq({"Final"})
    BY <2>1, AppendProperties DEF WriterOK
  <2>3. WriterOK'
    BY <1>1, <1>5, <2>1, <2>2 DEF WriterOK
  <2>4. WriterInv'
    BY <2>1 DEF WriterInv
  <2> QED
    BY <1>2, <1>3, <1>4, <2>3, <2>4
<1>9. CASE WriterReads
  <2> DEFINE event == stream[heard + 1]
  <2>1. /\ writer = "read" /\ heard < Len(stream) /\ heard' = heard + 1
        /\ \/ /\ event # "End" /\ json' = Append(json, event)
              /\ text' = IF event = "Final" THEN Append(text, event) ELSE text
              /\ UNCHANGED <<writer, writerResult>>
           \/ /\ event = "End" /\ writer' = "done" /\ writerResult' = "ok"
              /\ UNCHANGED <<text, json>>
    BY <1>9 DEF WriterReads, WriterIn
  <2>2. heard + 1 \in 1 .. Len(stream) /\ event \in EventKinds
    BY <1>5, <2>1, ElementOfSeq DEF StreamOK
  <2>3. Cardinality(FinalsIn(heard)') = Len(text) + (IF event = "Final" THEN 1 ELSE 0)
    <3>1. Cardinality(FinalsIn(heard + 1))
             = Cardinality(FinalsIn(heard)) + (IF event = "Final" THEN 1 ELSE 0)
      BY <1>5, FinalsCounted
    <3>2. FinalsIn(heard)' = FinalsIn(heard + 1)
      BY <1>1, <2>1 DEF FinalsIn
    <3>3. Len(text) = Cardinality(FinalsIn(heard))
      BY <1>5 DEF WriterInv
    <3> QED
      BY <3>1, <3>2, <3>3
  <2>4. Copied(heard) /\ Len(json) = heard
    BY <2>1 DEF WriterInv, Copied
  <2> HIDE DEF event
  <2>5. CASE event # "End"
    <3>1. /\ json' \in Seq(EventKinds) /\ Len(json') = heard + 1 /\ json'[heard + 1] = event
          /\ \A i \in 1 .. heard : json'[i] = json[i]
      <4>1. json \in Seq(EventKinds) /\ json' = Append(json, event)
        BY <2>1, <2>5 DEF WriterOK
      <4> QED
        BY <2>2, <2>4, <4>1, OneLonger
    <3>2. text' \in Seq({"Final"})
          /\ Len(text') = Len(text) + (IF event = "Final" THEN 1 ELSE 0)
      <4>1. CASE event = "Final"
        <5>1. text \in Seq({"Final"}) /\ text' = Append(text, event) /\ event \in {"Final"}
          BY <2>1, <2>5, <4>1 DEF WriterOK
        <5>2. text' \in Seq({"Final"}) /\ Len(text') = Len(text) + 1
          BY <5>1, OneLonger
        <5> QED
          BY <4>1, <5>2
      <4>2. CASE event # "Final"
        <5>1. text \in Seq({"Final"}) /\ Len(text) \in Nat
          BY LenProperties DEF WriterOK
        <5> QED
          BY <2>1, <2>5, <4>2, <5>1
      <4> QED
        BY <4>1, <4>2
    <3>3. writer' = "read" /\ writerResult' = "none"
      BY <1>5, <2>1, <2>5
    <3>4. WriterOK'
      BY <1>1, <1>5, <2>1, <2>2, <3>1, <3>2, <3>3 DEF WriterOK
    <3>5. Copied(heard)'
      <4>1. \A j \in 1 .. heard + 1 : json'[j] = stream[j] /\ stream[j] # "End"
        BY <1>5, <2>4, <2>5, <3>1 DEF Copied, event
      <4> QED
        BY <1>1, <2>1, <3>1, <4>1 DEF Copied
    <3>6. Len(text') = Cardinality(FinalsIn(heard)')
      BY <2>3, <3>2
    <3>7. WriterInv'
      BY <3>3, <3>5, <3>6 DEF WriterInv
    <3> QED
      BY <1>2, <1>3, <1>4, <3>4, <3>7
  <2>6. CASE event = "End"
    <3>1. heard + 1 = Len(stream)
      BY <1>5, <2>1, <2>6 DEF StreamInv, event
    <3>2. Session!Acknowledged
      <4>1. stream # <<>>
        BY <1>5, <2>1
      <4> QED
        BY <2>6, <3>1, <4>1 DEF Session!Acknowledged, event
    <3>3. Session!Acknowledged'
      BY <1>1, <3>2 DEF Session!Acknowledged
    <3>4. WriterOK'
      BY <1>1, <1>5, <2>1, <2>2, <2>6 DEF WriterOK
    <3>5. Len(text') = Cardinality(FinalsIn(heard)')
      <4>1. text' = text /\ Len(text) \in Nat
        BY <2>1, <2>6, LenProperties DEF WriterOK
      <4> QED
        BY <2>3, <2>6, <4>1
    <3>6. heard' - 1 = heard /\ heard' = Len(stream')
      BY <1>1, <1>5, <2>1, <3>1
    <3>7. Copied(heard - 1)'
      <4>1. Len(json') = heard' - 1 /\ \A j \in 1 .. heard' - 1 :
               json'[j] = stream'[j] /\ stream'[j] # "End"
        BY <1>1, <2>1, <2>4, <2>6, <3>6 DEF Copied
      <4> QED
        BY <4>1 DEF Copied
    <3>8. WriterInv'
      BY <2>1, <2>6, <3>3, <3>5, <3>6, <3>7 DEF WriterInv, Over
    <3> QED
      BY <1>2, <1>3, <1>4, <3>4, <3>8
  <2> QED
    BY <2>5, <2>6
<1>10. CASE WriterEnds
  <2>1. /\ writer = "read" /\ heard = Len(stream) /\ outcome # "none"
        /\ writer' = "done" /\ writerResult' = "ok" /\ UNCHANGED <<heard, text, json>>
    BY <1>10 DEF WriterEnds, WriterIn
  <2>2. Copied(heard)
    BY <2>1 DEF WriterInv
  <2>3. ~Session!Acknowledged
    <3>1. stream # <<>> => Len(stream) # 0
      BY EmptySeq DEF StreamOK
    <3>2. stream # <<>> => stream[heard] # "End"
      BY <1>5, <2>1, <2>2, <3>1 DEF Copied
    <3> QED
      BY <2>1, <3>2 DEF Session!Acknowledged
  <2>4. WriterOK'
    BY <1>1, <2>1 DEF WriterOK
  <2>5. Copied(heard)' /\ ~Session!Acknowledged' /\ Over'
    BY <1>1, <2>1, <2>2, <2>3 DEF Copied, Over, Session!Acknowledged
  <2>6. Len(text') = Cardinality(FinalsIn(heard)')
    <3>1. Len(text) = Cardinality(FinalsIn(heard)) /\ heard \in Nat
      BY <1>5 DEF WriterInv
    <3> QED
      BY <1>6, <2>1, <3>1
  <2>7. WriterInv'
    BY <1>1, <2>1, <2>5, <2>6 DEF WriterInv
  <2> QED
    BY <1>2, <1>3, <1>4, <2>4, <2>7
<1> QED
  BY <1>7, <1>8, <1>9, <1>10 DEF WriterNext

\* Whatever fails and whoever is first, the three actors agree on what has happened.
LEMMA CommandCorrect == Spec => []CommandInv
<1>1. Init => CommandInv
  <2> SUFFICES ASSUME Init PROVE CommandInv
    OBVIOUS
  <2> USE TranscribeAssumption
  <2>1. MainOK
    BY DEF Init, MainOK
  <2>2. 0 \in 0 .. MaxFrames /\ 0 \in 0 .. Capacity /\ 0 \in 0 .. 0
    OBVIOUS
  <2>3. AudioOK /\ queue \in 0 .. Capacity
    BY <2>2 DEF Init, AudioOK
  <2>4. stream = <<>> /\ outcome = "none" /\ StreamOK
    BY DEF Init, Session!Init, StreamOK, Session!Outcomes
  <2>5. WriterOK
    BY <2>4 DEF Init, WriterOK
  <2>6. AudioInv /\ CountInv
    BY DEF Init, AudioInv, CountInv
  <2>7. MainInv /\ StreamInv
    BY <2>4 DEF Init, MainInv, StreamInv
  <2>8. Cardinality(FinalsIn(0)) = 0
    BY FinalsCounted
  <2>9. WriterInv
    BY <2>8 DEF Init, WriterInv
  <2> QED
    BY <2>1, <2>3, <2>4, <2>5, <2>6, <2>7, <2>9 DEF CommandInv, Kinds
<1>2. CommandInv /\ [Next]_vars => CommandInv'
  BY MainStep, WorkerReturns, WorkerMoves, ChunkStep, SessionStep, WriterStep
     DEF Next, AudioNext
<1> QED
  BY <1>1, <1>2, PTL DEF Spec

-----------------------------------------------------------------------------
(* What the command promises *)

\* Every variable keeps its type; the queue its bound, and the counters of chunks and frames
\* their order.
THEOREM TypeTheorem == Spec => []TypeOK
<1>1. CommandInv => TypeOK
  BY DEF CommandInv, Kinds, MainOK, AudioOK, StreamOK, WriterOK, TypeOK
<1> QED
  BY <1>1, CommandCorrect, PTL

\* The end-of-speech message follows the end of the audio worker: no chunk is accepted behind
\* it, the WAV file is closed, and no worker outlives the command.
THEOREM AudioTheorem == Spec => []AudioEndsFirst
<1>1. CommandInv => AudioEndsFirst
  BY DEF CommandInv, AudioInv, AudioEndsFirst
<1> QED
  BY <1>1, CommandCorrect, PTL

\* A writer that ends well has written what the session sent, all of it.
LEMMA EverythingWritten ==
    ASSUME CommandInv, writerResult = "ok"
    PROVE  TextWritten /\ JsonWritten
<1> USE DEF CommandInv, Kinds
<1>1. /\ heard = Len(stream) /\ Len(stream) \in Nat
      /\ Copied(IF Session!Acknowledged THEN heard - 1 ELSE heard)
      /\ Len(text) = Cardinality(FinalsIn(heard))
  BY LenProperties DEF WriterInv, StreamOK
<1>2. TextWritten
  <2> DEFINE n == Cardinality(FinalsIn(Len(stream)))  t == [i \in 1 .. n |-> "Final"]
  <2>1. n \in Nat /\ Len(text) = n
    BY <1>1, FinalsCounted
  <2> HIDE DEF n
  <2>2. text \in [1 .. n -> {"Final"}]
    BY <2>1, LenProperties DEF WriterOK
  <2>3. text = t
    BY <2>2
  <2> QED
    BY <2>3 DEF TextWritten, n
<1>3. JsonWritten
  <2>1. CASE Session!Acknowledged
    <3> DEFINE m == Len(stream) - 1
    <3>1. m \in Nat
      BY <1>1, <2>1, EmptySeq DEF Session!Acknowledged, StreamOK
    <3>2. Copied(m)
      BY <1>1, <2>1
    <3>3. \A i \in 1 .. m : stream[i] \in EventKinds
      BY <1>1, ElementOfSeq DEF StreamOK
    <3>4. /\ Front(stream) \in Seq(EventKinds) /\ Len(Front(stream)) = m
          /\ \A i \in 1 .. m : Front(stream)[i] = stream[i]
      <4>1. Front(stream) = SubSeq(stream, 1, m)
        BY DEF Front
      <4> HIDE DEF m
      <4>2. Len(SubSeq(stream, 1, m)) = m /\ SubSeq(stream, 1, m) \in Seq(EventKinds)
            /\ \A i \in 1 .. m : SubSeq(stream, 1, m)[i] = stream[i]
        BY <3>1, <3>3, SubSeqProperties
      <4> QED
        BY <4>1, <4>2
    <3> HIDE DEF m
    <3>5. json = Front(stream)
      BY <3>2, <3>4, SeqEqual DEF Copied, WriterOK
    <3> QED
      BY <2>1, <3>5 DEF JsonWritten
  <2>2. CASE ~Session!Acknowledged
    <3>1. Copied(Len(stream))
      BY <1>1, <2>2
    <3>2. json = stream
      BY <3>1, SeqEqual DEF Copied, WriterOK, StreamOK
    <3> QED
      BY <2>2, <3>2 DEF JsonWritten
  <2> QED
    BY <2>1, <2>2
<1> QED
  BY <1>2, <1>3

\* A command that exits normally has captured without an error, has had every chunk accepted,
\* every frame saved, the session acknowledged and every result written.
THEOREM SuccessTheorem == Spec => []SuccessIsComplete
<1>1. CommandInv => SuccessIsComplete
  <2> SUFFICES ASSUME CommandInv, exit = "ok" PROVE SuccessIsComplete
    BY DEF SuccessIsComplete
  <2>1. audioResult = "ok" /\ outcome = "ok" /\ writerResult = "ok"
    BY DEF CommandInv, MainInv
  <2>2. audio = "done" /\ wav # "open"
    BY <2>1 DEF CommandInv, AudioInv
  <2>3. pending = 0 /\ accepted = made
    BY <2>1 DEF CommandInv, CountInv, Kinds, AudioOK
  <2>4. SaveAudio => saved = frames
    BY <2>1 DEF CommandInv, CountInv
  <2>5. stream[Len(stream)] = "End"
    BY <2>1 DEF CommandInv, StreamInv, Session!Acknowledged
  <2>6. TextWritten /\ JsonWritten
    BY <2>1, EverythingWritten
  <2> QED
    BY <2>1, <2>2, <2>3, <2>4, <2>5, <2>6 DEF SuccessIsComplete
<1> QED
  BY <1>1, CommandCorrect, PTL

\* A writer that neither fails nor panics has put everything the server sent on disk at
\* every exit that waits for it, whatever error the worker or the session ends with; a broken
\* Ctrl+C listener and a worker that panicked do not wait.
THEOREM TranscriptTheorem == Spec => []TranscriptKept
<1>1. CommandInv => TranscriptKept
  <2> SUFFICES ASSUME CommandInv, main = "exited", exit \notin {"connect", "signal", "panic"},
                      writerResult \notin {"failed", "panic"}
               PROVE  TextWritten /\ JsonWritten
    BY DEF TranscriptKept
  <2>1. writer = "done"
    BY DEF CommandInv, MainInv
  <2>2. writerResult = "ok"
    BY <2>1 DEF CommandInv, WriterInv, Kinds, WriterOK
  <2> QED
    BY <2>2, EverythingWritten
<1> QED
  BY <1>1, CommandCorrect, PTL
=============================================================================
