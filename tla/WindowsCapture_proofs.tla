------------------------ MODULE WindowsCapture_proofs ------------------------
(***************************************************************************)
(* Theorems about WindowsCapture for every size of packet, ring and        *)
(* channel.                                                                *)
(***************************************************************************)
EXTENDS WindowsCapture, SampleLemmas

-----------------------------------------------------------------------------
(* Frames in the channel *)

\* The channel holds whole frames: it has one to give unless it is empty, and takes one
\* more unless it is full.
LEMMA ChannelFrames ==
    ASSUME FramesWhole
    PROVE  /\ Len(frames) # 0 =>
                 /\ PacketSamples <= Len(frames)
                 /\ \E k \in 0 .. ChannelCapacity : Len(frames) - PacketSamples = k * PacketSamples
           /\ Len(frames) < ChannelCapacity * PacketSamples =>
                 \E k \in 0 .. ChannelCapacity : Len(frames) + PacketSamples = k * PacketSamples
<1>1. PacketSamples \in Nat \ {0} /\ ChannelCapacity \in Nat
  BY SizesAssumption
<1>2. \E k \in 0 .. ChannelCapacity : Len(frames) = k * PacketSamples
  BY DEF FramesWhole
<1> QED
  BY <1>1, <1>2, WholeFrames

\* Whole frames, not more than the channel holds, are not longer than the channel.
LEMMA WholeFramesFit ==
    ASSUME NEW n, \E k \in 0 .. ChannelCapacity : n = k * PacketSamples
    PROVE  n <= ChannelCapacity * PacketSamples
  BY SizesAssumption, WholeFrames

-----------------------------------------------------------------------------
(* Type correctness, with the shape of frames it rests on *)

\* The part of TypeOK that says where the threads and their flags are.
ControlOK ==
    /\ capture \in {"setup", "start", "loop", "waiting", "packets", "leaving", "exited"}
    /\ ready \in {"none", "ok", "err"}
    /\ stopFlag \in BOOLEAN
    /\ drain \in {"none", "loop", "poll", "empty", "terminated", "pop", "send", "exited"}
    /\ stop \in BOOLEAN
    /\ error \in BOOLEAN
    /\ session \in {"starting", "spawning", "running", "flagging", "stopBackend",
                    "joinCapture", "joinDrain", "stopped", "abandoning", "failed"}
    /\ health \in {"none", "ok", "err"}
    /\ reported \in BOOLEAN
    /\ failure \in {"none", "running", "stopping"}

\* The part of TypeOK that says where the samples are.
SamplesOK ==
    /\ captured \in 0 .. MaxSamples
    /\ ring \in Seq(Samples) /\ Len(ring) <= RingCapacity
    /\ lost \subseteq Samples
    /\ popped \in Seq(Samples)
    /\ frames \in Seq(Samples) /\ Len(frames) <= ChannelCapacity * PacketSamples
    /\ received \in Seq(Samples)

LEMMA TypeParts == TypeOK <=> ControlOK /\ SamplesOK
  BY DEF TypeOK, ControlOK, SamplesOK

LEMMA ControlStep ==
    ASSUME ControlOK, [Next]_vars
    PROVE  ControlOK'
<1> USE DEF ControlOK
<1>1. CASE SetupSucceeds
  BY <1>1 DEF SetupSucceeds, CaptureMoves, drainVars, callerVars
<1>2. CASE SetupFails
  BY <1>2 DEF SetupFails, CaptureMoves, drainVars, callerVars
<1>3. CASE ClientStarts
  BY <1>3 DEF ClientStarts, CaptureMoves, drainVars, callerVars
<1>4. CASE ClientStartFails
  BY <1>4 DEF ClientStartFails, CaptureMoves, BackendFails, drainVars, callerVars
<1>5. CASE LoopTest
  BY <1>5 DEF LoopTest, CaptureMoves, drainVars, callerVars
<1>6. CASE Wakes
  BY <1>6 DEF Wakes, CaptureMoves, drainVars, callerVars
<1>7. CASE Packet
  BY <1>7 DEF Packet, drainVars, callerVars
<1>8. CASE NoPacket
  BY <1>8 DEF NoPacket, CaptureMoves, drainVars, callerVars
<1>9. CASE DeviceFails
  BY <1>9 DEF DeviceFails, CaptureMoves, BackendFails, drainVars, callerVars
<1>10. CASE CaptureExits
  BY <1>10 DEF CaptureExits, CaptureMoves, drainVars, callerVars
<1>11. CASE DrainTest
  BY <1>11 DEF DrainTest, DrainMoves, captureVars, callerVars
<1>12. CASE DrainPoll
  BY <1>12 DEF DrainPoll, DrainMoves, captureVars, callerVars
<1>13. CASE DrainSeesBackend
  BY <1>13 DEF DrainSeesBackend, DrainMoves, captureVars, callerVars
<1>14. CASE DrainReports
  <2>1. error' \in BOOLEAN
    BY <1>14 DEF DrainReports
  <2>2. drain' = "exited"
    BY <1>14 DEF DrainReports, DrainMoves
  <2>3. UNCHANGED <<capture, ready, stopFlag, stop, session, health, reported, failure>>
    BY <1>14 DEF DrainReports, captureVars, callerVars
  <2> QED
    BY <2>1, <2>2, <2>3
<1>15. CASE DrainPops
  BY <1>15 DEF DrainPops, DrainMoves, captureVars, callerVars
<1>16. CASE DrainSends
  BY <1>16 DEF DrainSends, DrainMoves, captureVars, callerVars
<1>17. CASE StartBackend
  <2>1. /\ \/ ready = "ok" /\ session' = "spawning" /\ stopFlag' = stopFlag
           \/ ready = "err" /\ session' = "abandoning" /\ stopFlag' = FALSE
        /\ session = "starting"
        /\ UNCHANGED <<capture, ready, drain, stop, error, health, reported, failure>>
    BY <1>17 DEF StartBackend, CallerMoves, captureVars, drainVars
  <2>2. CASE ready = "ok" /\ session' = "spawning" /\ stopFlag' = stopFlag
    BY <2>1, <2>2
  <2>3. CASE ready = "err" /\ session' = "abandoning" /\ stopFlag' = FALSE
    <3>1. stopFlag' \in BOOLEAN
      BY <2>3
    <3> QED
      BY <2>1, <2>3, <3>1
  <2> QED
    BY <2>1, <2>2, <2>3
<1>18. CASE SpawnDrain
  BY <1>18 DEF SpawnDrain, CallerMoves, captureVars
<1>19. CASE SpawnDrainFails
  BY <1>19 DEF SpawnDrainFails, CallerMoves, captureVars, drainVars
<1>20. CASE Abandoned
  BY <1>20 DEF Abandoned, CallerMoves, captureVars, drainVars
<1>21. CASE FlagDrain
  BY <1>21 DEF FlagDrain, CallerMoves, captureVars, drainVars
<1>22. CASE StopBackend
  BY <1>22 DEF StopBackend, CallerMoves, captureVars, drainVars
<1>23. CASE JoinCapture
  BY <1>23 DEF JoinCapture, CallerMoves, captureVars, drainVars
<1>24. CASE JoinDrain
  BY <1>24 DEF JoinDrain, CallerMoves, captureVars, drainVars
<1>25. CASE Receive
  BY <1>25 DEF Receive, captureVars, drainVars
<1>26. CASE CheckHealth
  <2>1. reported' \in BOOLEAN
    BY <1>26 DEF CheckHealth
  <2>2. error' \in BOOLEAN
    BY <1>26 DEF CheckHealth
  <2>3. UNCHANGED <<capture, ready, stopFlag, drain, stop, session, health, failure>>
    BY <1>26 DEF CheckHealth, captureVars
  <2> QED
    BY <2>1, <2>2, <2>3
<1>27. CASE CallStop
  <2>1. error' = FALSE /\ health' \in {"ok", "err"}
    BY <1>27 DEF CallStop
  <2>2. session' = "flagging" /\ session = "running"
    BY <1>27 DEF CallStop, CallerMoves
  <2>3. UNCHANGED <<capture, ready, stopFlag, drain, stop, reported, failure>>
    BY <1>27 DEF CallStop, captureVars
  <2>4. stopFlag' \in BOOLEAN /\ stop' \in BOOLEAN /\ reported' \in BOOLEAN
    BY <2>3
  <2> QED
    BY <2>1, <2>2, <2>3, <2>4
<1>28. CASE DropSession
  BY <1>28 DEF DropSession, CallerMoves, captureVars, drainVars
<1>29. CASE UNCHANGED vars
  BY <1>29 DEF vars, captureVars, drainVars, callerVars
<1> QED
  BY <1>1, <1>2, <1>3, <1>4, <1>5, <1>6, <1>7, <1>8, <1>9, <1>10, <1>11, <1>12, <1>13,
     <1>14, <1>15, <1>16, <1>17, <1>18, <1>19, <1>20, <1>21, <1>22, <1>23, <1>24,
     <1>25, <1>26, <1>27, <1>28, <1>29 DEF Next, CaptureNext, DrainNext, CallerNext,
     CallerProceeds

\* A step that moves no sample, and the drain neither into nor out of its two
\* steps that hold some, keeps the samples in order.
LEMMA SamplesUntouched ==
    ASSUME SamplesOK, FramesWhole,
           UNCHANGED <<captured, ring, lost, popped, frames, received>>,
           drain' # drain => {drain, drain'} \cap {"pop", "send"} = {}
    PROVE  SamplesOK' /\ FramesWhole'
<1>1. SamplesOK'
  BY DEF SamplesOK
<1>2. /\ drain' = "send" <=> drain = "send"
      /\ drain' = "pop" <=> drain = "pop"
  OBVIOUS
<1>3. \E k \in 0 .. ChannelCapacity : Len(frames') = k * PacketSamples
  BY DEF FramesWhole
<1> QED
  BY <1>1, <1>2, <1>3 DEF FramesWhole

LEMMA SamplesStep ==
    ASSUME SamplesOK, FramesWhole, [Next]_vars
    PROVE  SamplesOK' /\ FramesWhole'
<1>1. CASE SetupSucceeds
  BY <1>1, SamplesUntouched DEF SetupSucceeds, CaptureMoves, drainVars, callerVars
<1>2. CASE SetupFails
  BY <1>2, SamplesUntouched DEF SetupFails, CaptureMoves, drainVars, callerVars
<1>3. CASE ClientStarts
  BY <1>3, SamplesUntouched DEF ClientStarts, CaptureMoves, drainVars, callerVars
<1>4. CASE ClientStartFails
  BY <1>4, SamplesUntouched DEF ClientStartFails, CaptureMoves, BackendFails, drainVars,
     callerVars
<1>5. CASE LoopTest
  BY <1>5, SamplesUntouched DEF LoopTest, CaptureMoves, drainVars, callerVars
<1>6. CASE Wakes
  BY <1>6, SamplesUntouched DEF Wakes, CaptureMoves, drainVars, callerVars
<1>7. CASE Packet
  <2>0. PICK n \in Bursts : \E taken \in {0, Fitting(n)} :
            /\ captured + n <= MaxSamples /\ captured' = captured + n
            /\ ring' = ring \o SubSeq(NewSamples(n), 1, taken)
            /\ lost' = lost \cup {captured + i : i \in taken + 1 .. n}
    BY <1>7 DEF Packet
  <2>1. PICK taken \in {0, Fitting(n)} :
            /\ captured + n <= MaxSamples /\ captured' = captured + n
            /\ ring' = ring \o SubSeq(NewSamples(n), 1, taken)
            /\ lost' = lost \cup {captured + i : i \in taken + 1 .. n}
    BY <2>0
  <2>2. n \in Nat \ {0} /\ captured \in Nat /\ MaxSamples \in Nat
    BY SizesAssumption DEF SamplesOK
  <2>3. Len(ring) \in Nat /\ RingCapacity \in Nat /\ Len(ring) <= RingCapacity
    BY SizesAssumption, LenProperties DEF SamplesOK
  <2>4. taken \in 0 .. n /\ Len(ring) + taken <= RingCapacity
    BY <2>1, <2>2, <2>3 DEF Fitting, Room
  <2>5. NewSamples(n) \in Seq(Samples) /\ Len(NewSamples(n)) = n
    <3>1. \A i \in 1 .. n : captured + i \in Samples
      BY <2>1, <2>2 DEF Samples
    <3> QED
      BY <2>2, <3>1 DEF NewSamples
  <2>6. /\ SubSeq(NewSamples(n), 1, taken) \in Seq(Samples)
        /\ Len(SubSeq(NewSamples(n), 1, taken)) = taken
    BY <2>2, <2>4, <2>5, SplitSeq
  <2>7. ring' \in Seq(Samples) /\ Len(ring') = Len(ring) + taken
    BY <2>1, <2>6, ConcatProperties DEF SamplesOK
  <2>8. lost' \subseteq Samples
    <3>1. \A i \in taken + 1 .. n : captured + i \in Samples
      BY <2>1, <2>2, <2>4 DEF Samples
    <3> QED
      BY <2>1, <3>1 DEF SamplesOK
  <2>9. UNCHANGED <<popped, frames, received, drain>>
    BY <1>7 DEF Packet, drainVars, callerVars
  <2>10. captured' \in 0 .. MaxSamples /\ Len(ring') <= RingCapacity
    BY <2>1, <2>2, <2>3, <2>4, <2>7
  <2>11. SamplesOK'
    BY <2>7, <2>8, <2>9, <2>10 DEF SamplesOK
  <2>12. drain = "pop" => Len(ring') >= PacketSamples
    BY <2>3, <2>4, <2>7, SizesAssumption DEF FramesWhole
  <2> QED
    BY <2>9, <2>11, <2>12 DEF FramesWhole
<1>8. CASE NoPacket
  BY <1>8, SamplesUntouched DEF NoPacket, CaptureMoves, drainVars, callerVars
<1>9. CASE DeviceFails
  BY <1>9, SamplesUntouched DEF DeviceFails, CaptureMoves, BackendFails, drainVars,
     callerVars
<1>10. CASE CaptureExits
  BY <1>10, SamplesUntouched DEF CaptureExits, CaptureMoves, drainVars, callerVars
<1>11. CASE DrainTest
  BY <1>11, SamplesUntouched DEF DrainTest, DrainMoves, captureVars, callerVars
<1>12. CASE DrainPoll
  <2>1. UNCHANGED <<captured, ring, lost, popped, frames, received>>
    BY <1>12 DEF DrainPoll, captureVars, callerVars
  <2>2. SamplesOK'
    BY <2>1 DEF SamplesOK
  <2>3. drain = "poll" /\ drain' # "send" /\ (drain' = "pop" => ~(Len(ring) < PacketSamples))
    BY <1>12 DEF DrainPoll, DrainMoves
  <2>4. Len(ring) \in Nat
    BY LenProperties DEF SamplesOK
  <2>5. /\ drain' # "send" => popped' = <<>>
        /\ drain' = "pop" => Len(ring') >= PacketSamples
    BY <2>1, <2>3, <2>4, SizesAssumption DEF FramesWhole
  <2> QED
    BY <2>1, <2>2, <2>3, <2>5 DEF FramesWhole
<1>13. CASE DrainSeesBackend
  BY <1>13, SamplesUntouched DEF DrainSeesBackend, DrainMoves, captureVars, callerVars
<1>14. CASE DrainReports
  BY <1>14, SamplesUntouched DEF DrainReports, DrainMoves, captureVars, callerVars
<1>15. CASE DrainPops
  <2>1. PacketSamples <= Len(ring) /\ Len(ring) \in Nat /\ PacketSamples \in Nat
    BY <1>15, LenProperties, SizesAssumption DEF DrainPops, DrainMoves, SamplesOK, FramesWhole
  <2>2. /\ SubSeq(ring, 1, PacketSamples) \in Seq(Samples)
        /\ Len(SubSeq(ring, 1, PacketSamples)) = PacketSamples
        /\ SubSeq(ring, PacketSamples + 1, Len(ring)) \in Seq(Samples)
        /\ Len(SubSeq(ring, PacketSamples + 1, Len(ring))) = Len(ring) - PacketSamples
    BY <2>1, SplitSeq DEF SamplesOK
  <2>3. /\ popped' = SubSeq(ring, 1, PacketSamples) /\ drain' = "send"
        /\ ring' = SubSeq(ring, PacketSamples + 1, Len(ring))
        /\ UNCHANGED <<captured, lost, frames, received>>
    BY <1>15 DEF DrainPops, DrainMoves, captureVars, callerVars
  <2>4. Len(ring') <= RingCapacity
    BY <2>1, <2>2, <2>3, SizesAssumption DEF SamplesOK
  <2>5. SamplesOK'
    BY <2>2, <2>3, <2>4 DEF SamplesOK
  <2> QED
    BY <2>2, <2>3, <2>5 DEF FramesWhole
<1>16. CASE DrainSends
  <2>1. /\ popped' = <<>> /\ Len(popped) = PacketSamples /\ drain' = "loop"
        /\ UNCHANGED <<captured, ring, received>>
    BY <1>16 DEF DrainSends, DrainMoves, FramesWhole, captureVars, callerVars
  <2>2. popped' \in Seq(Samples)
    BY <2>1, EmptySeq
  <2>3. CASE Len(frames) < ChannelCapacity * PacketSamples /\ frames' = frames \o popped
             /\ UNCHANGED lost
    <3>1. frames' \in Seq(Samples) /\ Len(frames') = Len(frames) + PacketSamples
      BY <2>1, <2>3, ConcatProperties DEF SamplesOK
    <3>2. \E k \in 0 .. ChannelCapacity : Len(frames') = k * PacketSamples
      BY <2>3, <3>1, ChannelFrames
    <3>3. Len(frames') <= ChannelCapacity * PacketSamples
      BY <3>2, WholeFramesFit
    <3>4. SamplesOK'
      BY <2>1, <2>2, <2>3, <3>1, <3>3 DEF SamplesOK
    <3> QED
      BY <2>1, <3>2, <3>4 DEF FramesWhole
  <2>4. CASE lost' = lost \cup Range(popped) /\ UNCHANGED frames
    <3>1. Range(popped) \subseteq Samples
      BY RangeOfSeq DEF SamplesOK
    <3>2. SamplesOK'
      BY <2>1, <2>2, <2>4, <3>1 DEF SamplesOK
    <3> QED
      BY <2>1, <2>4, <3>2 DEF FramesWhole
  <2> QED
    BY <1>16, <2>3, <2>4 DEF DrainSends
<1>17. CASE StartBackend
  BY <1>17, SamplesUntouched DEF StartBackend, CallerMoves, captureVars, drainVars
<1>18. CASE SpawnDrain
  BY <1>18, SamplesUntouched DEF SpawnDrain, CallerMoves, captureVars
<1>19. CASE SpawnDrainFails
  BY <1>19, SamplesUntouched DEF SpawnDrainFails, CallerMoves, captureVars, drainVars
<1>20. CASE Abandoned
  BY <1>20, SamplesUntouched DEF Abandoned, CallerMoves, captureVars, drainVars
<1>21. CASE FlagDrain
  BY <1>21, SamplesUntouched DEF FlagDrain, CallerMoves, captureVars, drainVars
<1>22. CASE StopBackend
  BY <1>22, SamplesUntouched DEF StopBackend, CallerMoves, captureVars, drainVars
<1>23. CASE JoinCapture
  BY <1>23, SamplesUntouched DEF JoinCapture, CallerMoves, captureVars, drainVars
<1>24. CASE JoinDrain
  BY <1>24, SamplesUntouched DEF JoinDrain, CallerMoves, captureVars, drainVars
<1>25. CASE Receive
  <2>1. Len(frames) # 0 /\ Len(frames) \in Nat /\ PacketSamples \in Nat
    BY <1>25, LenProperties, EmptySeq, SizesAssumption DEF Receive, SamplesOK
  <2>2. PacketSamples <= Len(frames)
    BY <2>1, ChannelFrames
  <2>3. /\ SubSeq(frames, 1, PacketSamples) \in Seq(Samples)
        /\ SubSeq(frames, PacketSamples + 1, Len(frames)) \in Seq(Samples)
        /\ Len(SubSeq(frames, PacketSamples + 1, Len(frames))) = Len(frames) - PacketSamples
    BY <2>1, <2>2, SplitSeq DEF SamplesOK
  <2>4. received' \in Seq(Samples)
    BY <1>25, <2>3, ConcatProperties DEF Receive, SamplesOK
  <2>5. frames' \in Seq(Samples) /\ Len(frames') = Len(frames) - PacketSamples
    BY <1>25, <2>3 DEF Receive
  <2>6. \E k \in 0 .. ChannelCapacity : Len(frames') = k * PacketSamples
    BY <2>1, <2>5, ChannelFrames
  <2>7. Len(frames') <= ChannelCapacity * PacketSamples
    BY <2>6, WholeFramesFit
  <2>8. UNCHANGED <<captured, ring, lost, popped, drain>>
    BY <1>25 DEF Receive, captureVars, drainVars
  <2>9. SamplesOK'
    BY <2>4, <2>5, <2>7, <2>8 DEF SamplesOK
  <2> QED
    BY <2>6, <2>8, <2>9 DEF FramesWhole
<1>26. CASE CheckHealth
  BY <1>26, SamplesUntouched DEF CheckHealth, Unhealthy, captureVars
<1>27. CASE CallStop
  BY <1>27, SamplesUntouched DEF CallStop, CallerMoves, Unhealthy, captureVars
<1>28. CASE DropSession
  BY <1>28, SamplesUntouched DEF DropSession, CallerMoves, captureVars, drainVars
<1>29. CASE UNCHANGED vars
  BY <1>29, SamplesUntouched DEF vars, captureVars, drainVars, callerVars
<1> QED
  BY <1>1, <1>2, <1>3, <1>4, <1>5, <1>6, <1>7, <1>8, <1>9, <1>10, <1>11, <1>12, <1>13,
     <1>14, <1>15, <1>16, <1>17, <1>18, <1>19, <1>20, <1>21, <1>22, <1>23, <1>24,
     <1>25, <1>26, <1>27, <1>28, <1>29 DEF Next, CaptureNext, DrainNext, CallerNext,
     CallerProceeds

\* TypeOK and FramesWhole hold for every size: the bound of the ring and of the
\* channel are never exceeded, and a frame is never cut.
THEOREM TypeCorrect == Spec => [](TypeOK /\ FramesWhole)
<1>1. Init => ControlOK /\ SamplesOK /\ FramesWhole
  <2> SUFFICES ASSUME Init PROVE ControlOK /\ SamplesOK /\ FramesWhole
    OBVIOUS
  <2>1. ControlOK
    BY DEF Init, ControlOK
  <2>2. ring = <<>> /\ frames = <<>> /\ popped = <<>> /\ received = <<>> /\ drain = "none"
    BY DEF Init
  <2>3. <<>> \in Seq(Samples) /\ Len(<<>>) = 0
    BY EmptySeq
  <2>4. RingCapacity >= 0 /\ MaxSamples \in Nat /\ 0 \in 0 .. ChannelCapacity
        /\ 0 = 0 * PacketSamples
    BY SizesAssumption
  <2>5. \E k \in 0 .. ChannelCapacity : Len(frames) = k * PacketSamples
    BY <2>2, <2>3, <2>4
  <2>6. Len(frames) <= ChannelCapacity * PacketSamples
    BY <2>5, WholeFramesFit
  <2>7. SamplesOK
    BY <2>2, <2>3, <2>4, <2>6 DEF Init, SamplesOK
  <2> QED
    BY <2>1, <2>2, <2>5, <2>7 DEF FramesWhole
<1> QED
  BY <1>1, ControlStep, SamplesStep, TypeParts, PTL DEF Spec

\* ControlOK alone, the typing that the rest needs.
LEMMA ControlCorrect == Spec => []ControlOK
<1>1. Init => ControlOK
  BY DEF Init, ControlOK
<1> QED
  BY <1>1, ControlStep, PTL DEF Spec

-----------------------------------------------------------------------------
(* No false alarm *)

LEMMA AlarmStep ==
    ASSUME ControlOK, AlarmInv, [Next]_vars
    PROVE  AlarmInv'
<1> USE DEF ControlOK, AlarmInv, NoFalseAlarm
<1>1. CASE SetupSucceeds
  BY <1>1 DEF SetupSucceeds, CaptureMoves, drainVars, callerVars
<1>2. CASE SetupFails
  BY <1>2 DEF SetupFails, CaptureMoves, drainVars, callerVars
<1>3. CASE ClientStarts
  BY <1>3 DEF ClientStarts, CaptureMoves, drainVars, callerVars
<1>4. CASE ClientStartFails
  BY <1>4 DEF ClientStartFails, CaptureMoves, BackendFails, drainVars, callerVars
<1>5. CASE LoopTest
  BY <1>5 DEF LoopTest, CaptureMoves, drainVars, callerVars
<1>6. CASE Wakes
  BY <1>6 DEF Wakes, CaptureMoves, drainVars, callerVars
<1>7. CASE Packet
  BY <1>7 DEF Packet, drainVars, callerVars
<1>8. CASE NoPacket
  BY <1>8 DEF NoPacket, CaptureMoves, drainVars, callerVars
<1>9. CASE DeviceFails
  BY <1>9 DEF DeviceFails, CaptureMoves, BackendFails, drainVars, callerVars
<1>10. CASE CaptureExits
  BY <1>10 DEF CaptureExits, CaptureMoves, drainVars, callerVars
<1>11. CASE DrainTest
  BY <1>11 DEF DrainTest, DrainMoves, captureVars, callerVars
<1>12. CASE DrainPoll
  BY <1>12 DEF DrainPoll, DrainMoves, captureVars, callerVars
<1>13. CASE DrainSeesBackend
  BY <1>13 DEF DrainSeesBackend, DrainMoves, captureVars, callerVars
<1>14. CASE DrainReports
  BY <1>14 DEF DrainReports, DrainMoves, captureVars, callerVars
<1>15. CASE DrainPops
  BY <1>15 DEF DrainPops, DrainMoves, captureVars, callerVars
<1>16. CASE DrainSends
  BY <1>16 DEF DrainSends, DrainMoves, captureVars, callerVars
<1>17. CASE StartBackend
  <2>1. /\ \/ ready = "ok" /\ session' = "spawning" /\ stopFlag' = stopFlag
           \/ ready = "err" /\ session' = "abandoning" /\ stopFlag' = FALSE
        /\ session = "starting"
        /\ UNCHANGED <<capture, ready, drain, stop, error, health, reported, failure>>
    BY <1>17 DEF StartBackend, CallerMoves, captureVars, drainVars
  <2>2. CASE ready = "ok" /\ session' = "spawning" /\ stopFlag' = stopFlag
    BY <2>1, <2>2
  <2>3. CASE ready = "err" /\ session' = "abandoning" /\ stopFlag' = FALSE
    <3>1. stopFlag' \in BOOLEAN
      BY <2>3
    <3> QED
      BY <2>1, <2>3, <3>1
  <2> QED
    BY <2>1, <2>2, <2>3
<1>18. CASE SpawnDrain
  BY <1>18 DEF SpawnDrain, CallerMoves, captureVars
<1>19. CASE SpawnDrainFails
  BY <1>19 DEF SpawnDrainFails, CallerMoves, captureVars, drainVars
<1>20. CASE Abandoned
  BY <1>20 DEF Abandoned, CallerMoves, captureVars, drainVars
<1>21. CASE FlagDrain
  BY <1>21 DEF FlagDrain, CallerMoves, captureVars, drainVars
<1>22. CASE StopBackend
  BY <1>22 DEF StopBackend, CallerMoves, captureVars, drainVars
<1>23. CASE JoinCapture
  BY <1>23 DEF JoinCapture, CallerMoves, captureVars, drainVars
<1>24. CASE JoinDrain
  BY <1>24 DEF JoinDrain, CallerMoves, captureVars, drainVars
<1>25. CASE Receive
  BY <1>25 DEF Receive, captureVars, drainVars
<1>26. CASE CheckHealth
  BY <1>26 DEF CheckHealth, Unhealthy, captureVars
<1>27. CASE CallStop
  BY <1>27 DEF CallStop, CallerMoves, Unhealthy, captureVars
<1>28. CASE DropSession
  BY <1>28 DEF DropSession, CallerMoves, captureVars, drainVars
<1>29. CASE UNCHANGED vars
  BY <1>29 DEF vars, captureVars, drainVars, callerVars
<1> QED
  BY <1>1, <1>2, <1>3, <1>4, <1>5, <1>6, <1>7, <1>8, <1>9, <1>10, <1>11, <1>12, <1>13,
     <1>14, <1>15, <1>16, <1>17, <1>18, <1>19, <1>20, <1>21, <1>22, <1>23, <1>24,
     <1>25, <1>26, <1>27, <1>28, <1>29 DEF Next, CaptureNext, DrainNext, CallerNext,
     CallerProceeds

\* The inductive invariant of the alarms.
THEOREM AlarmCorrect == Spec => []AlarmInv
<1>1. Init => AlarmInv
  BY DEF Init, AlarmInv, NoFalseAlarm
<1> QED
  BY <1>1, AlarmStep, ControlCorrect, PTL DEF Spec

\* NoFalseAlarm for every size of packet, ring and channel, and every burst.
THEOREM AlarmTheorem == Spec => []NoFalseAlarm
<1>1. AlarmInv => NoFalseAlarm
  BY DEF AlarmInv
<1> QED
  BY <1>1, AlarmCorrect, PTL

-----------------------------------------------------------------------------
(* No sample reordered, repeated or forgotten *)

\* The steps that move a sample; every other step leaves them all where they are.
LEMMA WhoMovesSamples ==
    ASSUME [Next]_vars
    PROVE  \/ Packet \/ DrainPops \/ DrainSends \/ Receive
           \/ UNCHANGED <<captured, ring, lost, popped, frames, received>>
<1>1. ASSUME \/ SetupSucceeds \/ SetupFails \/ ClientStarts \/ ClientStartFails \/ LoopTest
             \/ Wakes \/ NoPacket \/ DeviceFails \/ CaptureExits
      PROVE  UNCHANGED <<captured, ring, lost, popped, frames, received>>
  BY <1>1 DEF SetupSucceeds, SetupFails, ClientStarts, ClientStartFails, LoopTest, Wakes,
     NoPacket, DeviceFails, CaptureExits, drainVars, callerVars
<1>2. ASSUME DrainTest \/ DrainPoll \/ DrainSeesBackend \/ DrainReports
      PROVE  UNCHANGED <<captured, ring, lost, popped, frames, received>>
  BY <1>2 DEF DrainTest, DrainPoll, DrainSeesBackend, DrainReports, captureVars, callerVars
<1>3. ASSUME \/ StartBackend \/ SpawnDrain \/ SpawnDrainFails \/ Abandoned \/ FlagDrain
             \/ StopBackend \/ JoinCapture \/ JoinDrain \/ CheckHealth \/ CallStop
             \/ DropSession
      PROVE  UNCHANGED <<captured, ring, lost, popped, frames, received>>
  BY <1>3 DEF StartBackend, SpawnDrain, SpawnDrainFails, Abandoned, FlagDrain, StopBackend,
     JoinCapture, JoinDrain, CheckHealth, CallStop, DropSession, captureVars, drainVars
<1>4. ASSUME UNCHANGED vars
      PROVE  UNCHANGED <<captured, ring, lost, popped, frames, received>>
  BY <1>4 DEF vars, captureVars, drainVars, callerVars
<1> QED
  BY <1>1, <1>2, <1>3, <1>4 DEF Next, CaptureNext, DrainNext, CallerNext, CallerProceeds

\* Sequences of samples and their concatenations.
LEMMA SamplesJoin ==
    /\ \A s, t \in Seq(Samples) : s \o t \in Seq(Samples)
    /\ \A s, t, u \in Seq(Samples) : (s \o t) \o u = s \o (t \o u)
    /\ \A s \in Seq(Samples) : s \o <<>> = s
    /\ \A s, t \in Seq(Samples) : Range(s \o t) = Range(s) \cup Range(t)
  BY JoinedSeqs

\* Each of the four steps that move samples keeps the pipeline in order and complete.
LEMMA ConservedStep ==
    ASSUME SamplesOK, FramesWhole, SamplesConserved, [Next]_vars
    PROVE  SamplesConserved'
<1>1. /\ received \in Seq(Samples) /\ frames \in Seq(Samples)
      /\ popped \in Seq(Samples) /\ ring \in Seq(Samples)
      /\ PacketSamples \in Nat \ {0} /\ captured \in Nat
      /\ Samples \subseteq Int
  BY SizesAssumption DEF SamplesOK, Samples
<1>2. Pipeline \in Seq(Samples)
  BY <1>1, SamplesJoin DEF Pipeline
<1>3. CASE Packet
  <2>0. PICK n \in Bursts : \E taken \in {0, Fitting(n)} :
            /\ captured + n <= MaxSamples /\ captured' = captured + n
            /\ ring' = ring \o SubSeq(NewSamples(n), 1, taken)
            /\ lost' = lost \cup {captured + i : i \in taken + 1 .. n}
    BY <1>3 DEF Packet
  <2>1. PICK taken \in {0, Fitting(n)} :
            /\ captured + n <= MaxSamples /\ captured' = captured + n
            /\ ring' = ring \o SubSeq(NewSamples(n), 1, taken)
            /\ lost' = lost \cup {captured + i : i \in taken + 1 .. n}
    BY <2>0
  <2> DEFINE new == SubSeq(NewSamples(n), 1, taken)
  <2>2. n \in Nat \ {0} /\ taken \in 0 .. n
    <3>1. Fitting(n) \in 0 .. n /\ n \in Nat \ {0}
      BY SizesAssumption, LenProperties DEF SamplesOK, Fitting, Room
    <3> QED
      BY <2>1, <3>1
  <2>3. /\ new \in Seq(Samples) /\ Len(new) = taken
        /\ \A i \in 1 .. taken : new[i] = captured + i
    <3>1. \A i \in 1 .. n : NewSamples(n)[i] = captured + i /\ NewSamples(n)[i] \in Samples
      BY <1>1, <2>1, <2>2, SizesAssumption DEF NewSamples, Samples
    <3> QED
      BY <2>2, <3>1, SubSeqProperties
  <2>4. Range(new) = {captured + i : i \in 1 .. taken}
    <3>1. Range(new) = {new[i] : i \in 1 .. Len(new)}
      BY <2>3, RangeEquality
    <3> HIDE DEF new
    <3> QED
      BY <2>3, <3>1
  <2> HIDE DEF new
  <2>5. Pipeline' = Pipeline \o new
    <3> DEFINE base == (received \o frames) \o popped
    <3>1. base \in Seq(Samples) /\ ring \in Seq(Samples) /\ new \in Seq(Samples)
      BY <1>1, <2>3, SamplesJoin
    <3>2. Pipeline = base \o ring /\ Pipeline' = base \o (ring \o new)
      <4>1. UNCHANGED <<received, frames, popped>> /\ ring' = ring \o new
        BY <1>3, <2>1 DEF Packet, drainVars, callerVars, new
      <4> QED
        BY <4>1 DEF Pipeline
    <3> HIDE DEF base
    <3>3. (base \o ring) \o new = base \o (ring \o new)
      BY <3>1, SamplesJoin
    <3> QED
      BY <3>2, <3>3
  <2>6. Range(Pipeline') = Range(Pipeline) \cup Range(new)
    BY <1>2, <2>3, <2>5, SamplesJoin
  <2>7. Ascending(Pipeline')
    <3>1. Ascending(new)
      BY <1>1, <2>2, <2>3, LenProperties DEF Ascending
    <3>2. \A x \in Range(Pipeline), y \in Range(new) : x < y
      BY <1>1, <2>2, <2>4 DEF SamplesConserved
    <3> QED
      <4>1. Ascending(Pipeline)
        BY DEF SamplesConserved, Ascending
      <4> QED
        BY <1>1, <1>2, <2>3, <2>5, <3>1, <3>2, <4>1, AscendingConcat
  <2>8. Range(Pipeline') \cap lost' = {}
    BY <1>1, <2>1, <2>2, <2>4, <2>6 DEF SamplesConserved
  <2>9. Range(Pipeline') \cup lost' = 1 .. captured'
    <3>1. 1 .. captured + n = 1 .. captured \cup {captured + i : i \in 1 .. n}
      BY <1>1, <2>2, NextNumbers
    <3>2. 1 .. n = 1 .. taken \cup taken + 1 .. n
      BY <2>2
    <3> QED
      BY <2>1, <2>4, <2>6, <3>1, <3>2 DEF SamplesConserved
  <2> QED
    BY <2>7, <2>8, <2>9 DEF SamplesConserved, Ascending
<1>4. CASE DrainPops
  <2>1. popped = <<>> /\ PacketSamples <= Len(ring)
    BY <1>4 DEF DrainPops, DrainMoves, FramesWhole
  <2>2. /\ popped' = SubSeq(ring, 1, PacketSamples)
        /\ ring' = SubSeq(ring, PacketSamples + 1, Len(ring))
        /\ UNCHANGED <<captured, lost, frames, received>>
    BY <1>4 DEF DrainPops, captureVars, callerVars
  <2>3. ((received \o frames) \o SubSeq(ring, 1, PacketSamples))
              \o SubSeq(ring, PacketSamples + 1, Len(ring))
           = ((received \o frames) \o <<>>) \o ring
    <3>1. received \o frames \in Seq(Samples) /\ PacketSamples \in Nat
      BY <1>1, SamplesJoin, SizesAssumption
    <3> QED
      BY <1>1, <2>1, <3>1, PipelinePops
  <2>4. Pipeline' = Pipeline
    BY <2>1, <2>2, <2>3 DEF Pipeline
  <2> QED
    BY <2>2, <2>4 DEF SamplesConserved
<1>5. CASE DrainSends
  <2>1. popped' = <<>> /\ UNCHANGED <<captured, ring, received>>
    BY <1>5 DEF DrainSends, captureVars, callerVars
  <2>2. CASE frames' = frames \o popped /\ UNCHANGED lost
    <3>1. (received \o (frames \o popped)) \o <<>> = (received \o frames) \o popped
      BY <1>1, PipelineSends
    <3>2. Pipeline' = Pipeline
      BY <2>1, <2>2, <3>1 DEF Pipeline
    <3> QED
      BY <2>1, <2>2, <3>2 DEF SamplesConserved
  <2>3. CASE lost' = lost \cup Range(popped) /\ UNCHANGED frames
    <3> DEFINE head == received \o frames
    <3>1. head \in Seq(Samples)
      BY <1>1, SamplesJoin
    <3>2. Pipeline = (head \o popped) \o ring /\ Pipeline' = (head \o <<>>) \o ring
      BY <2>1, <2>3 DEF Pipeline
    <3> HIDE DEF head
    <3>3. Ascending((head \o popped) \o ring)
      BY <3>2 DEF SamplesConserved, Ascending
    <3>4. /\ (head \o <<>>) \o ring = head \o ring
          /\ Ascending(head \o ring)
          /\ Range(head \o ring) \cap Range(popped) = {}
          /\ Range((head \o popped) \o ring) = Range(head \o ring) \cup Range(popped)
      BY <1>1, <3>1, <3>3, PipelineDrops
    <3> QED
      BY <2>1, <2>3, <3>2, <3>4 DEF SamplesConserved, Ascending
  <2> QED
    BY <1>5, <2>2, <2>3 DEF DrainSends
<1>6. CASE Receive
  <2>1. PacketSamples <= Len(frames)
    BY <1>1, <1>6, EmptySeq, ChannelFrames DEF Receive
  <2>2. /\ received' = received \o SubSeq(frames, 1, PacketSamples)
        /\ frames' = SubSeq(frames, PacketSamples + 1, Len(frames))
        /\ UNCHANGED <<captured, ring, lost, popped>>
    BY <1>6 DEF Receive, captureVars, drainVars
  <2>3. (received \o SubSeq(frames, 1, PacketSamples))
             \o SubSeq(frames, PacketSamples + 1, Len(frames))
           = received \o frames
    <3>1. PacketSamples \in Nat
      BY SizesAssumption
    <3> QED
      BY <1>1, <2>1, <3>1, Regroup
  <2>4. Pipeline' = Pipeline
    BY <2>2, <2>3 DEF Pipeline
  <2> QED
    BY <2>2, <2>4 DEF SamplesConserved
<1>7. CASE UNCHANGED <<captured, ring, lost, popped, frames, received>>
  BY <1>7 DEF SamplesConserved, Pipeline
<1> QED
  BY <1>3, <1>4, <1>5, <1>6, <1>7, WhoMovesSamples

LEMMA ConservedInit == Init => SamplesConserved
<1> SUFFICES ASSUME Init PROVE SamplesConserved
  OBVIOUS
<1>1. /\ received = <<>> /\ frames = <<>> /\ popped = <<>> /\ ring = <<>>
      /\ captured = 0 /\ lost = {}
  BY DEF Init
<1>2. <<>> \in Seq(Samples) /\ <<>> \o <<>> = <<>> /\ Range(<<>>) = {}
  <2>1. <<>> \in Seq(Samples) /\ Len(<<>>) = 0
    BY EmptySeq
  <2>2. <<>> \o <<>> = <<>>
    BY <2>1, ConcatEmptySeq
  <2>3. DOMAIN <<>> = {}
    BY <2>1, LenProperties
  <2>4. Range(<<>>) = {}
    BY <2>3 DEF Range
  <2> QED
    BY <2>1, <2>2, <2>4
<1>3. Pipeline = <<>> /\ DOMAIN Pipeline = {}
  BY <1>1, <1>2, EmptySeq, LenProperties DEF Pipeline
<1> QED
  BY <1>1, <1>2, <1>3 DEF SamplesConserved

\* No sample is reordered, repeated or forgotten between the device and the caller,
\* for every burst, ring, packet and channel.
THEOREM ConservedTheorem == Spec => []SamplesConserved
<1>1. TypeOK /\ FramesWhole => SamplesOK /\ FramesWhole
  BY TypeParts
<1> QED
  BY <1>1, ConservedInit, ConservedStep, TypeCorrect, PTL DEF Spec

-----------------------------------------------------------------------------
(* The threads that are left, and the contract *)

\* Where the caller can be when a thread is over, and when stop() has looked at the
\* health.
JoinInv ==
    /\ session \in {"joinDrain", "stopped", "failed"} => capture = "exited"
    /\ session = "stopped" => drain = "exited"
    /\ health # "none" =>
          session \in {"flagging", "stopBackend", "joinCapture", "joinDrain", "stopped"}

\* JoinInv is inductive: a thread that is over stays over.
LEMMA JoinStep ==
    ASSUME ControlOK, AlarmInv, JoinInv, [Next]_vars
    PROVE  JoinInv'
<1> USE DEF JoinInv
<1>1. CASE CaptureNext
  <2>1. capture' = capture \/ capture # "exited"
    BY <1>1 DEF CaptureNext, SetupSucceeds, SetupFails, ClientStarts, ClientStartFails,
       LoopTest, Wakes, Packet, NoPacket, DeviceFails, CaptureExits, CaptureMoves
  <2>2. UNCHANGED <<drain, session, health>>
    BY <1>1 DEF CaptureNext, SetupSucceeds, SetupFails, ClientStarts, ClientStartFails,
       LoopTest, Wakes, Packet, NoPacket, DeviceFails, CaptureExits, drainVars, callerVars
  <2> QED
    BY <2>1, <2>2
<1>2. CASE DrainNext
  <2>1. drain # "exited"
    BY <1>2 DEF DrainNext, DrainTest, DrainPoll, DrainSeesBackend, DrainReports, DrainPops,
       DrainSends, DrainMoves
  <2>2. UNCHANGED <<capture, session, health>>
    BY <1>2 DEF DrainNext, DrainTest, DrainPoll, DrainSeesBackend, DrainReports, DrainPops,
       DrainSends, captureVars, callerVars
  <2> QED
    BY <2>1, <2>2
<1>3. CASE StartBackend \/ SpawnDrain \/ SpawnDrainFails \/ Abandoned
  BY <1>3 DEF StartBackend, SpawnDrain, SpawnDrainFails, Abandoned, CallerMoves, captureVars,
     drainVars
<1>4. CASE FlagDrain \/ StopBackend \/ JoinCapture \/ JoinDrain
  BY <1>4 DEF FlagDrain, StopBackend, JoinCapture, JoinDrain, CallerMoves, captureVars,
     drainVars
<1>5. CASE Receive \/ CheckHealth \/ CallStop \/ DropSession
  BY <1>5 DEF Receive, CheckHealth, CallStop, DropSession, CallerMoves, captureVars, drainVars
<1>6. CASE UNCHANGED vars
  BY <1>6 DEF vars, captureVars, drainVars, callerVars
<1> QED
  BY <1>1, <1>2, <1>3, <1>4, <1>5, <1>6 DEF Next, CallerNext, CallerProceeds

LEMMA JoinCorrect == Spec => []JoinInv
<1>1. Init => JoinInv
  BY DEF Init, JoinInv
<1> QED
  BY <1>1, JoinStep, ControlCorrect, AlarmCorrect, PTL DEF Spec

\* Neither a start() that failed nor a stop() that returned leaves a thread behind,
\* whatever the threads were doing when the flags were raised.
THEOREM NoThreadLeftTheorem == Spec => []NoThreadLeft
<1>1. JoinInv /\ AlarmInv => NoThreadLeft
  BY DEF JoinInv, AlarmInv, NoThreadLeft
<1> QED
  BY <1>1, JoinCorrect, AlarmCorrect, PTL

\* What the caller of a session sees of a step: nothing.
LEMMA Unseen ==
    ASSUME UNCHANGED <<session, frames, received, failure, reported, health>>
    PROVE  UNCHANGED Contract!vars
  BY DEF Contract!vars, Phase

\* Every step of the session is a step of the contract, or nothing the caller sees.
LEMMA ContractStep ==
    ASSUME ControlOK, SamplesOK, FramesWhole, AlarmInv, JoinInv, SamplesConserved',
           SamplesOK', [Next]_vars
    PROVE  [Contract!Next]_(Contract!vars)
<1>1. CASE \/ SetupSucceeds \/ SetupFails \/ ClientStarts \/ LoopTest \/ Wakes \/ Packet
           \/ NoPacket \/ CaptureExits
  BY <1>1, Unseen DEF SetupSucceeds, SetupFails, ClientStarts, LoopTest, Wakes, Packet,
     NoPacket, CaptureExits, callerVars
<1>2. CASE ClientStartFails \/ DeviceFails
  <2>1. UNCHANGED <<session, frames, received, reported, health>> /\ failure' # "none"
    BY <1>2 DEF ClientStartFails, DeviceFails, BackendFails, callerVars
  <2>2. Contract!Breaks
    BY <2>1 DEF Contract!Breaks, Phase
  <2> QED
    BY <2>2 DEF Contract!Next
<1>3. CASE DrainTest \/ DrainPoll \/ DrainSeesBackend \/ DrainReports \/ DrainPops
  BY <1>3, Unseen DEF DrainTest, DrainPoll, DrainSeesBackend, DrainReports, DrainPops,
     captureVars, callerVars
<1>4. CASE DrainSends
  <2>1. UNCHANGED <<session, received, failure, reported, health>> /\ drain = "send"
        /\ popped' = <<>> /\ Len(popped) = PacketSamples
    BY <1>4 DEF DrainSends, DrainMoves, captureVars, callerVars, FramesWhole
  <2>2. CASE UNCHANGED frames
    BY <2>1, <2>2, Unseen
  <2>3. CASE frames' = frames \o popped
    <3>1. session \in {"running", "flagging", "stopBackend", "joinCapture", "joinDrain"}
      BY <2>1 DEF ControlOK, AlarmInv, JoinInv
    <3>2. Phase \in {"running", "stopping"} /\ Phase' = Phase
      BY <2>1, <3>1 DEF Phase
    <3>3. /\ frames \in Seq(Samples) /\ popped \in Seq(Samples) /\ frames' \in Seq(Samples)
          /\ Len(frames) \in Nat /\ Len(frames') = Len(frames) + Len(popped)
      BY <2>3, LenProperties, ConcatProperties DEF SamplesOK
    <3>4. Contract!IsPrefix(frames, frames')
      <4>1. \A i \in 1 .. Len(frames) : frames'[i] = frames[i]
        BY <2>3, <3>3, ConcatProperties
      <4>2. SubSeq(frames', 1, Len(frames)) = frames
        BY <3>3, <4>1, SamplesStart
      <4> QED
        BY <3>3, <4>1, <4>2, SubSeqFull DEF Contract!IsPrefix
    <3>5. Contract!Increasing(received' \o frames')
      <4>1. Ascending(((received' \o frames') \o popped') \o ring')
        BY DEF SamplesConserved, Pipeline, Ascending
      <4>2. Ascending(received' \o frames')
        BY <4>1, FrontAscends DEF SamplesOK
      <4> QED
        BY <4>2 DEF Contract!Increasing, Ascending
    <3>6. Contract!InPlace(received' \o frames')
      <4>1. received' \o frames' \in Seq(Samples)
        BY ConcatProperties DEF SamplesOK
      <4>2. \A i \in DOMAIN (received' \o frames') : (received' \o frames')[i] - i \in Int
        BY <4>1, LenProperties, ElementOfSeq, SizesAssumption DEF Samples
      <4>3. \A k \in Int : k % 1 = 0
        OBVIOUS
      <4> QED
        BY <4>2, <4>3 DEF Contract!InPlace
    <3>7. Contract!Deliver
      BY <2>1, <3>2, <3>3, <3>4, <3>5, <3>6 DEF Contract!Deliver
    <3> QED
      BY <3>7 DEF Contract!Next
  <2> QED
    BY <1>4, <2>2, <2>3 DEF DrainSends
<1>5. CASE SpawnDrain \/ Abandoned
  <2>1. Contract!Starts
    BY <1>5 DEF SpawnDrain, Abandoned, CallerMoves, captureVars, Contract!Starts, Phase
  <2> QED
    BY <2>1 DEF Contract!Next
<1>6. CASE StartBackend \/ SpawnDrainFails \/ FlagDrain \/ StopBackend \/ JoinCapture
  <2>1. Phase' = Phase
    BY <1>6 DEF StartBackend, SpawnDrainFails, FlagDrain, StopBackend, JoinCapture,
       CallerMoves, Phase
  <2>2. UNCHANGED <<frames, received, failure, reported, health>>
    BY <1>6 DEF StartBackend, SpawnDrainFails, FlagDrain, StopBackend, JoinCapture, captureVars
  <2> QED
    BY <2>1, <2>2 DEF Contract!vars
<1>7. CASE JoinDrain
  <2>1. Contract!Stopped
    BY <1>7 DEF JoinDrain, CallerMoves, captureVars, Contract!Stopped, Phase
  <2> QED
    BY <2>1 DEF Contract!Next
<1>8. CASE Receive
  <2>1. Contract!Receive
    BY <1>8 DEF Receive, captureVars, drainVars, Contract!Receive, Phase
  <2> QED
    BY <2>1 DEF Contract!Next
<1>9. CASE CheckHealth
  <2>1. /\ session = "running" /\ reported' = (reported \/ Unhealthy)
        /\ UNCHANGED <<session, frames, received, failure, health>>
    BY <1>9 DEF CheckHealth, captureVars
  <2>2. CASE Unhealthy
    <3>1. failure # "none"
      BY <2>1, <2>2 DEF Unhealthy, AlarmInv, NoFalseAlarm
    <3>2. Contract!Alarms
      BY <2>1, <2>2, <3>1 DEF Contract!Alarms, Phase
    <3> QED
      BY <3>2 DEF Contract!Next
  <2>3. CASE ~Unhealthy
    <3>1. reported' = reported
      BY <2>1, <2>3 DEF ControlOK
    <3> QED
      BY <2>1, <3>1, Unseen
  <2> QED
    BY <2>2, <2>3
<1>10. CASE CallStop
  <2>1. /\ session = "running" /\ session' = "flagging"
        /\ health' = IF Unhealthy THEN "err" ELSE "ok"
        /\ UNCHANGED <<frames, received, failure, reported>>
    BY <1>10 DEF CallStop, CallerMoves, captureVars
  <2>2. health = "none"
    BY <2>1 DEF JoinInv
  <2>3. Unhealthy => failure # "none"
    BY <2>1 DEF Unhealthy, AlarmInv, NoFalseAlarm
  <2>4. Contract!Stops
    BY <2>1, <2>2, <2>3 DEF Contract!Stops, Phase
  <2> QED
    BY <2>4 DEF Contract!Next
<1>11. CASE DropSession
  <2>1. Contract!Stops
    BY <1>11 DEF DropSession, CallerMoves, captureVars, Contract!Stops, Phase
  <2> QED
    BY <2>1 DEF Contract!Next
<1>12. CASE UNCHANGED vars
  BY <1>12, Unseen DEF vars, captureVars, drainVars, callerVars
<1> QED
  BY <1>1, <1>2, <1>3, <1>4, <1>5, <1>6, <1>7, <1>8, <1>9, <1>10, <1>11, <1>12 DEF Next,
     CaptureNext, DrainNext, CallerNext, CallerProceeds

\* The session keeps the contract: its three threads, its ring and its flags look to
\* the caller like one CaptureContract, for every size of packet, ring and channel.
THEOREM ContractTheorem == Spec => ImplementsContract
<1>1. Init => Contract!Init
  BY DEF Init, Contract!Init, Phase
<1>2. TypeOK /\ FramesWhole => ControlOK /\ SamplesOK /\ FramesWhole
  BY TypeParts
<1> QED
  BY <1>1, <1>2, ContractStep, TypeCorrect, AlarmCorrect, JoinCorrect, ConservedTheorem, PTL
     DEF Spec, ImplementsContract, Contract!Spec
=============================================================================
