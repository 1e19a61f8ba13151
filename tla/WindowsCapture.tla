--------------------------- MODULE WindowsCapture ---------------------------
(***************************************************************************)
(* A CaptureSession on Windows: src/src/lib.rs over                        *)
(* src/src/platform/windows.rs and its WASAPI backends.  Three threads:    *)
(*                                                                         *)
(*   capture  the backend's thread: device packets into the ring;          *)
(*   drain    the ring into frames of PacketSamples, and the report of a   *)
(*            backend that ended by itself;                                *)
(*   caller   start(), receiving frames, check_health(), stop(), drop.     *)
(*                                                                         *)
(* The backend's stop_flag is also its termination flag.  A sample is its  *)
(* number; the frame channel is the sequence of the samples in it.         *)
(* The Disconnected arm of the drain's try_send is never taken: the        *)
(* receiver is a field of the session, dropped after the drain is joined.  *)
(***************************************************************************)
EXTENDS Integers, Sequences, SequencesExt

CONSTANTS
    PacketSamples,    \* sample_rate / 50 * channels
    RingCapacity,     \* samples the raw ring holds
    ChannelCapacity,  \* config.channel_capacity, in frames
    Bursts,           \* sizes of a device packet, in samples
    MaxSamples        \* bound: samples the device delivers

ASSUME SizesAssumption ==
    /\ PacketSamples \in Nat \ {0}
    /\ RingCapacity \in Nat
    /\ ChannelCapacity \in Nat \ {0}   \* CaptureSession::start rejects zero
    /\ Bursts \subseteq Nat \ {0}
    /\ MaxSamples \in Nat

VARIABLES
    capture,   \* where the capture thread is
    ready,     \* the setup report that backend.start() waits for
    stopFlag,  \* the backend's stop_flag and termination_flag
    captured,  \* samples the device has delivered
    ring,      \* the raw ring
    lost,      \* samples dropped by a full ring, a full channel or a failed push
    drain,     \* where the drain thread is
    popped,    \* the samples it has taken out of the ring
    stop,      \* the session's stop flag, the drain's drain_stop
    frames,    \* the bounded channel of frames
    error,     \* the runtime error waiting in its channel of one
    received,  \* samples the caller has received
    session,   \* what the caller is doing
    health,    \* the health that stop() read first
    reported,  \* check_health() has returned an error to the caller
    failure    \* the backend ended by itself: "none", "running" (before stop()
               \* was called) or "stopping"

captureVars == <<capture, ready, captured, failure>>
drainVars   == <<drain, popped, error>>
callerVars  == <<stop, received, session, health, reported>>
vars == <<captureVars, stopFlag, ring, lost, drainVars, frames, callerVars>>

Samples == 1 .. MaxSamples

TypeOK ==
    /\ capture \in {"setup", "start", "loop", "waiting", "packets", "leaving", "exited"}
    /\ ready \in {"none", "ok", "err"}
    /\ stopFlag \in BOOLEAN
    /\ captured \in 0 .. MaxSamples
    /\ ring \in Seq(Samples) /\ Len(ring) <= RingCapacity
    /\ lost \subseteq Samples
    /\ drain \in {"none", "loop", "poll", "empty", "terminated", "pop", "send", "exited"}
    /\ popped \in Seq(Samples)
    /\ stop \in BOOLEAN
    /\ frames \in Seq(Samples) /\ Len(frames) <= ChannelCapacity * PacketSamples
    /\ error \in BOOLEAN
    /\ received \in Seq(Samples)
    /\ session \in {"starting", "spawning", "running", "flagging", "stopBackend",
                    "joinCapture", "joinDrain", "stopped", "abandoning", "failed"}
    /\ health \in {"none", "ok", "err"}
    /\ reported \in BOOLEAN
    /\ failure \in {"none", "running", "stopping"}

\* backend.start() has reset stop_flag and spawned the capture thread.
Init ==
    /\ capture = "setup" /\ ready = "none" /\ stopFlag = FALSE /\ captured = 0
    /\ ring = <<>> /\ lost = {}
    /\ drain = "none" /\ popped = <<>> /\ stop = FALSE /\ frames = <<>> /\ error = FALSE
    /\ received = <<>> /\ session = "starting" /\ health = "none" /\ reported = FALSE
    /\ failure = "none"

-----------------------------------------------------------------------------
(* The capture thread *)

CaptureMoves(from, to) == capture = from /\ capture' = to

\* The backend ends by itself.
BackendFails ==
    failure' = IF failure # "none" THEN failure
               ELSE IF session \in {"starting", "spawning", "running"} THEN "running"
               ELSE "stopping"

\* COM and loopback setup, reported through ready_tx.
SetupSucceeds ==
    /\ CaptureMoves("setup", "start")
    /\ ready' = "ok"
    /\ UNCHANGED <<captured, failure, stopFlag, ring, lost, drainVars, frames, callerVars>>

SetupFails ==
    /\ CaptureMoves("setup", "leaving")
    /\ ready' = "err"
    /\ UNCHANGED <<captured, failure, stopFlag, ring, lost, drainVars, frames, callerVars>>

\* client.Start().
ClientStarts ==
    /\ CaptureMoves("start", "loop")
    /\ UNCHANGED <<ready, captured, failure, stopFlag, ring, lost, drainVars, frames, callerVars>>

ClientStartFails ==
    /\ CaptureMoves("start", "leaving")
    /\ BackendFails
    /\ UNCHANGED <<ready, captured, stopFlag, ring, lost, drainVars, frames, callerVars>>

\* while !stop_flag, then WaitForSingleObject, which returns after 100 ms at most,
\* then the same test again.
LoopTest ==
    /\ IF stopFlag THEN CaptureMoves("loop", "leaving") ELSE CaptureMoves("loop", "waiting")
    /\ UNCHANGED <<ready, captured, failure, stopFlag, ring, lost, drainVars, frames, callerVars>>

Wakes ==
    /\ IF stopFlag THEN CaptureMoves("waiting", "leaving") ELSE CaptureMoves("waiting", "packets")
    /\ UNCHANGED <<ready, captured, failure, stopFlag, ring, lost, drainVars, frames, callerVars>>

\* The new samples of a device packet, and the part of it that fits the ring.
NewSamples(n) == [i \in 1 .. n |-> captured + i]
Room == RingCapacity - Len(ring)
Fitting(n) == IF n <= Room THEN n ELSE Room

\* GetNextPacketSize finds a packet, GetBuffer returns it and sink.push takes it;
\* what does not fit the ring is dropped there (external).  A packet without data, or
\* one whose push panics, which is caught, is lost whole.
Packet ==
    /\ capture = "packets" /\ UNCHANGED capture
    /\ \E n \in Bursts : \E taken \in {0, Fitting(n)} :
          /\ captured + n <= MaxSamples
          /\ captured' = captured + n
          /\ ring' = ring \o SubSeq(NewSamples(n), 1, taken)
          /\ lost' = lost \cup {captured + i : i \in taken + 1 .. n}
    /\ UNCHANGED <<ready, failure, stopFlag, drainVars, frames, callerVars>>

\* GetNextPacketSize finds nothing more.
NoPacket ==
    /\ CaptureMoves("packets", "loop")
    /\ UNCHANGED <<ready, captured, failure, stopFlag, ring, lost, drainVars, frames, callerVars>>

\* GetNextPacketSize or GetBuffer fails: the device or the target is gone.
DeviceFails ==
    /\ CaptureMoves("packets", "loop")
    /\ stopFlag' = TRUE
    /\ BackendFails
    /\ UNCHANGED <<ready, captured, ring, lost, drainVars, frames, callerVars>>

\* Fault: the wrapper does not raise the flag.
CaptureExitsUnseen ==
    /\ CaptureMoves("leaving", "exited")
    /\ UNCHANGED <<ready, captured, failure, stopFlag, ring, lost, drainVars, frames, callerVars>>

\* The thread's wrapper: terminated.store(true), then the thread is over.
CaptureExits ==
    /\ CaptureMoves("leaving", "exited")
    /\ stopFlag' = TRUE
    /\ UNCHANGED <<ready, captured, failure, ring, lost, drainVars, frames, callerVars>>

CaptureNext ==
    \/ SetupSucceeds \/ SetupFails \/ ClientStarts \/ ClientStartFails \/ LoopTest \/ Wakes
    \/ Packet \/ NoPacket \/ DeviceFails \/ CaptureExits

-----------------------------------------------------------------------------
(* The drain thread *)

DrainMoves(from, to) == drain = from /\ drain' = to

\* while !drain_stop.
DrainTest ==
    /\ IF stop THEN DrainMoves("loop", "exited") ELSE DrainMoves("loop", "poll")
    /\ UNCHANGED <<popped, error, frames, captureVars, stopFlag, ring, lost, callerVars>>

\* consumer.available() < packet_samples.
DrainPoll ==
    /\ IF Len(ring) < PacketSamples THEN DrainMoves("poll", "empty")
       ELSE DrainMoves("poll", "pop")
    /\ UNCHANGED <<popped, error, frames, captureVars, stopFlag, ring, lost, callerVars>>

\* backend_terminated: not yet, and sleep; or to the second look at drain_stop.
DrainSeesBackend ==
    /\ IF stopFlag THEN DrainMoves("empty", "terminated") ELSE DrainMoves("empty", "loop")
    /\ UNCHANGED <<popped, error, frames, captureVars, stopFlag, ring, lost, callerVars>>

\* Fault: no second look at drain_stop.
DrainReportsAlways ==
    /\ DrainMoves("terminated", "exited")
    /\ error' = TRUE
    /\ UNCHANGED <<popped, frames, captureVars, stopFlag, ring, lost, callerVars>>

\* A backend that ended before any stop is an error; either way the thread is over.
DrainReports ==
    /\ DrainMoves("terminated", "exited")
    /\ error' = (error \/ ~stop)
    /\ UNCHANGED <<popped, frames, captureVars, stopFlag, ring, lost, callerVars>>

\* Fault: the samples are read but stay in the ring.
DrainPeeks ==
    /\ DrainMoves("pop", "send")
    /\ popped' = SubSeq(ring, 1, PacketSamples)
    /\ UNCHANGED <<error, frames, captureVars, stopFlag, ring, lost, callerVars>>

\* pop_slice, which finds the PacketSamples that available() counted.
DrainPops ==
    /\ DrainMoves("pop", "send")
    /\ popped' = SubSeq(ring, 1, PacketSamples)
    /\ ring' = SubSeq(ring, PacketSamples + 1, Len(ring))
    /\ UNCHANGED <<error, frames, captureVars, stopFlag, lost, callerVars>>

\* Fault: the channel has no bound.
DrainSendsUnbounded ==
    /\ DrainMoves("send", "loop")
    /\ popped' = <<>> /\ frames' = frames \o popped
    /\ UNCHANGED <<error, captureVars, stopFlag, ring, lost, callerVars>>

\* try_send of the frame; a full channel drops it.
DrainSends ==
    /\ DrainMoves("send", "loop")
    /\ popped' = <<>>
    /\ \/ /\ Len(frames) < ChannelCapacity * PacketSamples
          /\ frames' = frames \o popped /\ UNCHANGED lost
       \/ /\ Len(frames) = ChannelCapacity * PacketSamples
          /\ lost' = lost \cup Range(popped) /\ UNCHANGED frames
    /\ UNCHANGED <<error, captureVars, stopFlag, ring, callerVars>>

DrainNext ==
    \/ DrainTest \/ DrainPoll \/ DrainSeesBackend \/ DrainReports \/ DrainPops \/ DrainSends

-----------------------------------------------------------------------------
(* The caller *)

CallerMoves(from, to) == session = from /\ session' = to

\* backend.start() gets the setup report; on an error it resets the flag and
\* goes on to join the thread.
StartBackend ==
    /\ \/ ready = "ok" /\ CallerMoves("starting", "spawning") /\ UNCHANGED stopFlag
       \/ ready = "err" /\ CallerMoves("starting", "abandoning") /\ stopFlag' = FALSE
    /\ UNCHANGED <<stop, received, health, reported, captureVars, ring, lost,
                   drainVars, frames>>

SpawnDrain ==
    /\ CallerMoves("spawning", "running")
    /\ drain' = "loop"
    /\ UNCHANGED <<stop, received, health, reported, captureVars, stopFlag, ring, lost,
                   popped, error, frames>>

\* Fault: the backend is joined without being told to stop.
SpawnDrainFailsUnflagged ==
    /\ CallerMoves("spawning", "abandoning")
    /\ UNCHANGED <<stop, received, health, reported, captureVars, stopFlag, ring, lost,
                   drainVars, frames>>

\* The drain cannot be spawned: the backend is dropped, which stops and joins it.
SpawnDrainFails ==
    /\ CallerMoves("spawning", "abandoning")
    /\ stopFlag' = TRUE
    /\ UNCHANGED <<stop, received, health, reported, captureVars, ring, lost, drainVars, frames>>

\* The thread of a session that could not start is joined; start() returns Err.
Abandoned ==
    /\ capture = "exited" /\ CallerMoves("abandoning", "failed")
    /\ UNCHANGED <<stop, received, health, reported, captureVars, stopFlag, ring, lost,
                   drainVars, frames>>

\* frames().recv(), also of what is queued once stop() has returned; a dropped session,
\* which has read no health, has nobody to ask.
Receive ==
    /\ \/ session = "running"
       \/ session = "stopped" /\ health # "none"
    /\ frames # <<>>
    /\ received' = received \o SubSeq(frames, 1, PacketSamples)
    /\ frames' = SubSeq(frames, PacketSamples + 1, Len(frames))
    /\ UNCHANGED <<stop, session, health, reported, captureVars, stopFlag, ring, lost, drainVars>>

\* What check_health() finds: a report, or a drain that dropped its end.
Unhealthy == error \/ drain = "exited"

\* check_health() on a session that is not stopped; a report is read once.
CheckHealth ==
    /\ session = "running"
    /\ reported' = (reported \/ Unhealthy)
    /\ error' = FALSE
    /\ UNCHANGED <<stop, received, session, health, captureVars, stopFlag, ring, lost,
                   drain, popped, frames>>

\* stop() begins with check_health().
CallStop ==
    /\ CallerMoves("running", "flagging")
    /\ health' = IF Unhealthy THEN "err" ELSE "ok"
    /\ error' = FALSE
    /\ UNCHANGED <<stop, received, reported, captureVars, stopFlag, ring, lost,
                   drain, popped, frames>>

\* Drop of a running session: PlatformSession::stop() alone.
DropSession ==
    /\ CallerMoves("running", "flagging")
    /\ UNCHANGED <<stop, received, health, reported, captureVars, stopFlag, ring, lost,
                   drainVars, frames>>

\* PlatformSession::stop(), first the drain's flag, then the backend's.
FlagDrain ==
    /\ CallerMoves("flagging", "stopBackend")
    /\ stop' = TRUE
    /\ UNCHANGED <<received, health, reported, captureVars, stopFlag, ring, lost,
                   drainVars, frames>>

\* Faults: the backend is told to stop, but nobody waits for it; the drain is not
\* waited for.
CaptureNotJoined ==
    /\ CallerMoves("joinCapture", "joinDrain")
    /\ UNCHANGED <<stop, received, health, reported, captureVars, stopFlag, ring, lost,
                   drainVars, frames>>

DrainNotJoined ==
    /\ CallerMoves("joinDrain", "stopped")
    /\ UNCHANGED <<stop, received, health, reported, captureVars, stopFlag, ring, lost,
                   drainVars, frames>>

StopBackend ==
    /\ CallerMoves("stopBackend", "joinCapture")
    /\ stopFlag' = TRUE
    /\ UNCHANGED <<stop, received, health, reported, captureVars, ring, lost, drainVars, frames>>

JoinCapture ==
    /\ capture = "exited" /\ CallerMoves("joinCapture", "joinDrain")
    /\ UNCHANGED <<stop, received, health, reported, captureVars, stopFlag, ring, lost,
                   drainVars, frames>>

JoinDrain ==
    /\ drain = "exited" /\ CallerMoves("joinDrain", "stopped")
    /\ UNCHANGED <<stop, received, health, reported, captureVars, stopFlag, ring, lost,
                   drainVars, frames>>

\* The steps the caller has begun and does not interrupt.
CallerProceeds ==
    \/ StartBackend \/ SpawnDrain \/ SpawnDrainFails \/ Abandoned
    \/ FlagDrain \/ StopBackend \/ JoinCapture \/ JoinDrain

CallerNext == CallerProceeds \/ Receive \/ CheckHealth \/ CallStop \/ DropSession

Next == CaptureNext \/ DrainNext \/ CallerNext

Spec == Init /\ [][Next]_vars

\* The threads run; a caller polls the health while it receives (receive_frame).
\* Nothing obliges the device to deliver or to fail, or the caller to stop.
Fairness ==
    /\ WF_vars(CaptureNext)
    /\ WF_vars(DrainNext)
    /\ WF_vars(CallerProceeds)
    /\ WF_vars(CheckHealth)

FairSpec == Spec /\ Fairness

-----------------------------------------------------------------------------
(* What the session promises *)

\* Every sample on its way, in the order the device delivered it.
Pipeline == received \o frames \o popped \o ring

\* Frames are whole: the channel holds a number of complete frames, the drain has
\* one in its hand or nothing, and pop_slice never comes back short.
FramesWhole ==
    /\ \E k \in 0 .. ChannelCapacity : Len(frames) = k * PacketSamples
    /\ drain = "send" => Len(popped) = PacketSamples
    /\ drain # "send" => popped = <<>>
    /\ drain = "pop" => Len(ring) >= PacketSamples

\* No thread reorders, repeats or forgets a sample: what has been captured is in
\* the pipeline, in order, or was dropped: by a full ring, by a full channel, or with a
\* packet that came without data or could not be pushed.
SamplesConserved ==
    /\ \A i, j \in DOMAIN Pipeline : i < j => Pipeline[i] < Pipeline[j]
    /\ Range(Pipeline) \cap lost = {}
    /\ Range(Pipeline) \cup lost = 1 .. captured

\* check_health() and stop() cry wolf never: an error is queued, returned or read
\* only if the backend really ended by itself, however a stop interleaves.
NoFalseAlarm ==
    error \/ reported \/ health = "err" => failure # "none"

\* The inductive invariant behind NoFalseAlarm: while the caller is running, a
\* raised flag, a capture thread on its way out and a drain on its way out all
\* mean that the backend ended by itself.
AlarmInv ==
    /\ capture = "setup" <=> ready = "none"
    /\ session \notin {"starting", "abandoning", "failed"} => ready = "ok"
    /\ drain # "none" <=> session \notin {"starting", "spawning", "abandoning", "failed"}
    /\ stop <=> session \in {"stopBackend", "joinCapture", "joinDrain", "stopped"}
    /\ capture \in {"leaving", "exited"} =>
          failure # "none" \/ stopFlag \/ ready = "err"
    /\ stopFlag =>
          failure # "none" \/ stop \/ ready = "err" \/ session \in {"abandoning", "failed"}
    /\ drain \in {"terminated", "exited"} => failure # "none" \/ stop
    /\ NoFalseAlarm

\* A start() that failed and a stop() that returned leave no thread behind.
NoThreadLeft ==
    /\ session = "failed" => capture = "exited" /\ drain = "none"
    /\ session = "stopped" => capture = "exited" /\ drain = "exited"

\* The session keeps what CaptureContract promises: whole frames in order, an alarm
\* only for a backend that ended by itself, no frame more once stop() has returned or
\* start() has failed.  Packets and ring are counted here in samples of one channel.
Phase ==
    CASE session \in {"starting", "spawning", "abandoning"} -> "starting"
      [] session \in {"flagging", "stopBackend", "joinCapture", "joinDrain"} -> "stopping"
      [] OTHER -> session

Contract == INSTANCE CaptureContract WITH
    FrameSamples <- PacketSamples, Channels <- 1,
    phase <- Phase, channel <- frames, failed <- failure # "none",
    alarm <- reported \/ health = "err"

ImplementsContract == Contract!Spec

\* A backend that ends by itself is reported to a caller that polls.
FailureIsReported ==
    failure = "running" ~> reported \/ session \notin {"starting", "spawning", "running"}

\* Every call comes to its end: start() returns, and stop() and drop do, although they
\* join two threads that only poll flags.
CallsEnd ==
    /\ <>(session \notin {"starting", "spawning", "abandoning"})
    /\ session = "flagging" ~> session = "stopped"

\* README: "Backend termination ... surfaced as errors instead of being mistaken
\* for ... successful completion".  A stop() that returns Ok, with no error
\* reported before, should mean that the backend had not ended by itself when
\* stop() was called.  The drain may not have noticed it yet.
OkMeansNoFailure ==
    session = "stopped" /\ health = "ok" /\ ~reported => failure # "running"
=============================================================================
