----------------------------- MODULE MacCapture -----------------------------
(***************************************************************************)
(* A CaptureSession on macOS: src/src/lib.rs over                          *)
(* src/src/platform/macos.rs.  Four actors:                                *)
(*                                                                         *)
(*   thread    builds the chain tap, aggregate device, IO procedure and    *)
(*             running device, waits for the stop flag, unwinds the chain; *)
(*   callback  Core Audio's calls of the IO procedure, into the ring;      *)
(*   drain     the ring into frames of PacketSamples;                      *)
(*   caller    start(), receiving frames, check_health(), stop(), drop.    *)
(*                                                                         *)
(* One flag stops all of them; a callback that panics raises it too.  A    *)
(* sample is its number, and the channels take turns.                      *)
(***************************************************************************)
EXTENDS Integers, Sequences, SequencesExt

CONSTANTS
    Channels,         \* of the tap
    PacketSamples,    \* sample_rate / 50 * channels
    RingCapacity,     \* samples the raw ring holds
    ChannelCapacity,  \* config.channel_capacity, in frames
    BufferLists,      \* what a callback may get: a sequence of buffer sizes in samples,
                      \* one interleaved buffer or one buffer per channel
    MaxSamples        \* bound: samples the device delivers

ASSUME SizesAssumption ==
    /\ Channels \in Nat \ {0} /\ PacketSamples \in Nat \ {0}
    /\ PacketSamples % Channels = 0
    /\ RingCapacity \in Nat /\ RingCapacity % Channels = 0
    /\ ChannelCapacity \in Nat \ {0}   \* CaptureSession::start rejects zero
    /\ \A list \in BufferLists :
          /\ list \in Seq(Nat) /\ Len(list) \in {0, 1, Channels}
          /\ Len(list) = 1 => list[1] % Channels = 0
    /\ MaxSamples \in Nat

VARIABLES
    thread,    \* where the capture thread is
    live,      \* the parts of the chain that exist
    todo,      \* the parts it has still to destroy, in the code's order
    ready,     \* the setup report that start() waits for
    stop,      \* the stop flag of session, thread, callback, drain and chain
    callback,  \* where the call of the IO procedure is
    captured,  \* samples the device has delivered
    ring,      \* the raw ring
    drain,     \* where the drain thread is
    popped,    \* the samples it has taken out of the ring
    frames,    \* the bounded channel of frames
    error,     \* the runtime error waiting in its channel of one
    received,  \* samples the caller has received
    session,   \* what the caller is doing
    health,    \* the health that stop() read first
    reported,  \* check_health() has returned an error to the caller
    failure    \* a callback panicked: "none", "running" (before stop() was called)
               \* or "stopping"

threadVars   == <<thread, live, todo, ready>>
callbackVars == <<callback, captured, failure>>
drainVars    == <<drain, popped>>
callerVars   == <<received, session, health, reported>>
vars == <<threadVars, callbackVars, drainVars, callerVars, stop, ring, frames, error>>

Samples == 1 .. MaxSamples

\* The parts of a chain in the order they are built; "device" is the started device.
Chain == <<"tap", "aggregate", "ioproc", "device">>

TypeOK ==
    /\ thread \in {"none", "translate", "tap", "format", "aggregate", "ioproc", "device",
                   "ready", "loop", "drop", "unwind", "exited"}
    /\ live \subseteq Range(Chain)
    /\ todo \in Seq(Range(Chain))
    /\ ready \in {"none", "ok", "err"}
    /\ stop \in BOOLEAN
    /\ callback \in {"idle", "copying", "reporting"}
    /\ captured \in 0 .. MaxSamples
    /\ ring \in Seq(Samples) /\ Len(ring) <= RingCapacity
    /\ drain \in {"none", "loop", "poll", "pop", "send", "exited"}
    /\ popped \in Seq(Samples)
    /\ frames \in Seq(Samples) /\ Len(frames) <= ChannelCapacity * PacketSamples
    /\ error \in BOOLEAN
    /\ received \in Seq(Samples)
    /\ session \in {"checking", "starting", "spawning", "running", "flagging",
                    "joinCapture", "joinDrain", "stopped", "abandoning", "failed"}
    /\ health \in {"none", "ok", "err"}
    /\ reported \in BOOLEAN
    /\ failure \in {"none", "running", "stopping"}

Init ==
    /\ thread = "none" /\ live = {} /\ todo = <<>> /\ ready = "none" /\ stop = FALSE
    /\ callback = "idle" /\ captured = 0 /\ failure = "none" /\ ring = <<>>
    /\ drain = "none" /\ popped = <<>> /\ frames = <<>> /\ error = FALSE
    /\ received = <<>> /\ session = "checking" /\ health = "none" /\ reported = FALSE

-----------------------------------------------------------------------------
(* The capture thread: build_tap_chain, the stop loop, TapChain::drop *)

ThreadMoves(from, to) == thread = from /\ thread' = to

ThreadOnly == UNCHANGED <<callbackVars, drainVars, callerVars, ring, frames, error>>

\* The thread goes on, and leaves what it has to tear down as it is.
Passes(from, to) ==
    /\ ThreadMoves(from, to)
    /\ UNCHANGED <<live, todo, ready, stop>> /\ ThreadOnly

\* A part of the chain is made, and the next one is due.
Makes(part, next) ==
    /\ ThreadMoves(part, next)
    /\ live' = live \cup {part}
    /\ UNCHANGED <<todo, ready, stop>> /\ ThreadOnly

\* A step fails: the code destroys the parts it names there, then reports.
FailsAt(step, parts) ==
    /\ ThreadMoves(step, "unwind")
    /\ todo' = parts
    /\ UNCHANGED <<live, ready, stop>> /\ ThreadOnly

\* The object of the target process; a global tap does not look for one.
TranslatePid == Passes("translate", "tap") \/ FailsAt("translate", <<>>)

CreateTap == Makes("tap", "format") \/ FailsAt("tap", <<>>)

ReadTapFormat == Passes("format", "aggregate") \/ FailsAt("format", <<"tap">>)

\* Fault: the failure of the aggregate device forgets the tap.
CreateAggregateOrNothing == Makes("aggregate", "ioproc") \/ FailsAt("aggregate", <<>>)

CreateAggregate == Makes("aggregate", "ioproc") \/ FailsAt("aggregate", <<"tap">>)

CreateIoProc == Makes("ioproc", "device") \/ FailsAt("ioproc", <<"aggregate", "tap">>)

StartDevice ==
    \/ Makes("device", "ready")
    \/ FailsAt("device", <<"ioproc", "aggregate", "tap">>)

ReportReady ==
    /\ ThreadMoves("ready", "loop")
    /\ ready' = "ok"
    /\ UNCHANGED <<live, todo, stop>> /\ ThreadOnly

\* while !thread_stop, every 10 ms.
SeesStop == stop /\ Passes("loop", "drop")

\* TapChain::drop raises the flag before it takes the chain apart.
DropChain ==
    /\ ThreadMoves("drop", "unwind")
    /\ stop' = TRUE /\ todo' = <<"device", "ioproc", "aggregate", "tap">>
    /\ UNCHANGED <<live, ready>> /\ ThreadOnly

Destroy ==
    /\ thread = "unwind" /\ todo # <<>>
    /\ live' = live \ {Head(todo)} /\ todo' = Tail(todo)
    /\ UNCHANGED <<thread, ready, stop>> /\ ThreadOnly

\* The thread ends; an error of the construction goes to start().
ThreadExits ==
    /\ todo = <<>> /\ ThreadMoves("unwind", "exited")
    /\ ready' = IF ready = "none" THEN "err" ELSE ready
    /\ UNCHANGED <<live, todo, stop>> /\ ThreadOnly

ThreadNext ==
    \/ TranslatePid \/ CreateTap \/ ReadTapFormat \/ CreateAggregate \/ CreateIoProc
    \/ StartDevice \/ ReportReady \/ SeesStop \/ DropChain \/ Destroy \/ ThreadExits

-----------------------------------------------------------------------------
(* The IO procedure *)

\* The c-th buffer of a list, the only one of which holds all channels in turn (external).
\* The samples are numbered as they sound, the channels of a moment in turn.
Buffer(list, c) == [moment \in 1 .. list[c] |-> (moment - 1) * Len(list) + c]

\* Fault: the channels one after the other, as in the buffers.
CopyBufferByBuffer(list) == FlattenSeq([c \in DOMAIN list |-> Buffer(list, c)])

\* copy_buffer_list: sample by sample from each buffer in turn, as far as the shortest
\* goes; a single buffer is so copied as it is.
CopyBufferList(list) ==
    LET n      == Len(list)
        copied == IF n = 0 THEN 0 ELSE n * Min(Range(list))
    IN [i \in 1 .. copied |-> Buffer(list, ((i - 1) % n) + 1)[((i - 1) \div n) + 1]]

\* The samples that the device has moved on by, copied or not.
Advance(list) == IF list = <<>> THEN 0 ELSE Len(list) * Max(Range(list))

CallbackOnly == UNCHANGED <<threadVars, drainVars, callerVars, frames>>

\* Core Audio calls a started device's procedure, which returns at once when stopped.
CallbackStarts ==
    /\ callback = "idle" /\ "device" \in live /\ ~stop
    /\ callback' = "copying"
    /\ UNCHANGED <<captured, failure, stop, ring, error>> /\ CallbackOnly

\* The samples go into the ring; what does not fit is dropped there (external).
CallbackPushes ==
    /\ callback = "copying" /\ callback' = "idle"
    /\ \E list \in BufferLists :
          LET copied == CopyBufferList(list)
              room   == RingCapacity - Len(ring)
              taken  == SubSeq(copied, 1, IF Len(copied) <= room THEN Len(copied) ELSE room)
          IN /\ captured + Advance(list) <= MaxSamples
             /\ captured' = captured + Advance(list)
             /\ ring' = ring \o [i \in DOMAIN taken |-> captured + taken[i]]
    /\ UNCHANGED <<failure, stop, error>> /\ CallbackOnly

\* Fault: a panic is caught and forgotten.
CallbackSwallows ==
    /\ callback = "copying" /\ callback' = "idle"
    /\ failure' = IF session \in {"starting", "spawning", "running"} THEN "running"
                  ELSE "stopping"
    /\ UNCHANGED <<captured, stop, ring, error>> /\ CallbackOnly

\* A caught panic raises the flag ...
CallbackPanics ==
    /\ callback = "copying" /\ callback' = "reporting"
    /\ stop' = TRUE
    /\ failure' = IF session \in {"starting", "spawning", "running"} THEN "running"
                  ELSE "stopping"
    /\ UNCHANGED <<captured, ring, error>> /\ CallbackOnly

\* ... and then queues the error, or drops it into a full channel.
CallbackReports ==
    /\ callback = "reporting" /\ callback' = "idle"
    /\ error' = TRUE
    /\ UNCHANGED <<captured, failure, stop, ring>> /\ CallbackOnly

CallbackNext == CallbackStarts \/ CallbackPushes \/ CallbackPanics \/ CallbackReports

-----------------------------------------------------------------------------
(* The drain thread *)

DrainMoves(from, to) == drain = from /\ drain' = to

DrainOnly == UNCHANGED <<threadVars, callbackVars, callerVars, stop, error>>

\* while !drain_stop.
DrainTest ==
    /\ IF stop THEN DrainMoves("loop", "exited") ELSE DrainMoves("loop", "poll")
    /\ UNCHANGED <<popped, ring, frames>> /\ DrainOnly

\* consumer.available() < packet_samples, then 2 ms of sleep.
DrainPoll ==
    /\ IF Len(ring) < PacketSamples THEN DrainMoves("poll", "loop")
       ELSE DrainMoves("poll", "pop")
    /\ UNCHANGED <<popped, ring, frames>> /\ DrainOnly

DrainPops ==
    /\ DrainMoves("pop", "send")
    /\ popped' = SubSeq(ring, 1, PacketSamples)
    /\ ring' = SubSeq(ring, PacketSamples + 1, Len(ring))
    /\ UNCHANGED frames /\ DrainOnly

\* Fault: the channel has no bound.
DrainSendsUnbounded ==
    /\ DrainMoves("send", "loop")
    /\ popped' = <<>> /\ frames' = frames \o popped
    /\ UNCHANGED ring /\ DrainOnly

\* try_send of the frame; a full channel drops it.
DrainSends ==
    /\ DrainMoves("send", "loop")
    /\ popped' = <<>>
    /\ frames' = IF Len(frames) < ChannelCapacity * PacketSamples THEN frames \o popped
                 ELSE frames
    /\ UNCHANGED ring /\ DrainOnly

DrainNext == DrainTest \/ DrainPoll \/ DrainPops \/ DrainSends

-----------------------------------------------------------------------------
(* The caller *)

\* The caller gets on with a call, which concerns the flag and the threads at most.
CallerMoves(from, to) ==
    /\ session = from /\ session' = to
    /\ UNCHANGED <<callbackVars, live, todo, ready, popped, ring, frames, error,
                   received, health, reported>>

\* The system is too old, an endpoint is named, or the thread cannot be spawned.
Refused == CallerMoves("checking", "failed") /\ UNCHANGED <<thread, drain, stop>>

\* The thread is spawned for one process or for the mix of all.
SpawnThread ==
    CallerMoves("checking", "starting") /\ thread' \in {"translate", "tap"}
    /\ UNCHANGED <<drain, stop>>

\* ready_receiver.recv().
StartReturns ==
    /\ \/ ready = "ok" /\ CallerMoves("starting", "spawning")
       \/ ready = "err" /\ CallerMoves("starting", "abandoning")
    /\ UNCHANGED <<thread, drain, stop>>

SpawnDrain ==
    CallerMoves("spawning", "running") /\ drain' = "loop" /\ UNCHANGED <<thread, stop>>

\* Fault: the thread is joined without being told to stop.
SpawnDrainFailsUnflagged ==
    CallerMoves("spawning", "abandoning") /\ UNCHANGED <<thread, drain, stop>>

SpawnDrainFails ==
    CallerMoves("spawning", "abandoning") /\ stop' = TRUE /\ UNCHANGED <<thread, drain>>

Abandoned ==
    /\ thread = "exited" /\ CallerMoves("abandoning", "failed")
    /\ UNCHANGED <<thread, drain, stop>>

\* Drop of a running session: PlatformSession::stop() alone.
DropSession == CallerMoves("running", "flagging") /\ UNCHANGED <<thread, drain, stop>>

FlagStop ==
    CallerMoves("flagging", "joinCapture") /\ stop' = TRUE /\ UNCHANGED <<thread, drain>>

JoinCapture ==
    /\ thread = "exited" /\ CallerMoves("joinCapture", "joinDrain")
    /\ UNCHANGED <<thread, drain, stop>>

JoinDrain ==
    /\ drain = "exited" /\ CallerMoves("joinDrain", "stopped")
    /\ UNCHANGED <<thread, drain, stop>>

CallerOnly == UNCHANGED <<threadVars, callbackVars, drainVars, ring, stop>>

\* frames().recv(), also of what is queued once stop() has returned; a dropped session,
\* which has read no health, has nobody to ask.
Receive ==
    /\ \/ session = "running"
       \/ session = "stopped" /\ health # "none"
    /\ frames # <<>>
    /\ received' = received \o SubSeq(frames, 1, PacketSamples)
    /\ frames' = SubSeq(frames, PacketSamples + 1, Len(frames))
    /\ UNCHANGED <<error, session, health, reported>> /\ CallerOnly

\* The last sender of errors belongs to the IO procedure's block.
SenderGone == thread = "exited" /\ callback = "idle"

\* What check_health() finds: a report, or nobody left to send one.
Unhealthy == error \/ SenderGone

\* check_health() on a session that is not stopped; a report is read once.
CheckHealth ==
    /\ session = "running"
    /\ reported' = (reported \/ Unhealthy)
    /\ error' = FALSE
    /\ UNCHANGED <<frames, received, session, health>> /\ CallerOnly

\* stop() begins with check_health().
CallStop ==
    /\ session = "running" /\ session' = "flagging"
    /\ health' = IF Unhealthy THEN "err" ELSE "ok"
    /\ error' = FALSE
    /\ UNCHANGED <<frames, received, reported>> /\ CallerOnly

\* The steps the caller has begun and does not interrupt.
CallerProceeds ==
    \/ Refused \/ SpawnThread \/ StartReturns \/ SpawnDrain \/ SpawnDrainFails \/ Abandoned
    \/ FlagStop \/ JoinCapture \/ JoinDrain

CallerNext == CallerProceeds \/ Receive \/ CheckHealth \/ CallStop \/ DropSession

Next == ThreadNext \/ CallbackNext \/ DrainNext \/ CallerNext

Spec == Init /\ [][Next]_vars

\* The threads run, a call of the IO procedure comes to its end, and a caller polls the
\* health while it receives (receive_frame).  Core Audio need not call the procedure.
Fairness ==
    /\ WF_vars(ThreadNext)
    /\ WF_vars(CallbackReports)
    /\ WF_vars(DrainNext)
    /\ WF_vars(CallerProceeds)
    /\ WF_vars(CheckHealth)

FairSpec == Spec /\ Fairness

-----------------------------------------------------------------------------
(* What the session promises *)

\* The chain is taken apart in the reverse order of its construction, wherever that
\* failed or a stop met it, and nothing of it and no thread is left once start() has
\* failed or stop() has returned.
ChainUnwound ==
    /\ \A i \in 2 .. Len(Chain) : Chain[i] \in live => Chain[i - 1] \in live
    /\ ready = "err" \/ thread = "exited" => live = {}
    /\ session \in {"failed", "stopped"} =>
          /\ thread \in {"none", "exited"} /\ drain \in {"none", "exited"}
          /\ live = {}

\* The session keeps what CaptureContract promises: frames in order with every sample in
\* the place of its channel, an alarm only for a callback that panicked, no frame more
\* once stop() has returned or start() has failed.
Phase ==
    CASE session \in {"checking", "starting", "spawning", "abandoning"} -> "starting"
      [] session \in {"flagging", "joinCapture", "joinDrain"} -> "stopping"
      [] OTHER -> session

Contract == INSTANCE CaptureContract WITH
    FrameSamples <- PacketSamples,
    phase <- Phase, channel <- frames, failed <- failure # "none",
    alarm <- reported \/ health = "err"

ImplementsContract == Contract!Spec

\* A panic of the callback is reported to a caller that polls, in whatever order the flag
\* it raised tears the session down and the error is queued.
FailureIsReported ==
    failure = "running" ~> reported \/ session \notin {"starting", "spawning", "running"}

\* Every call comes to its end: start() returns, and stop() and drop do.
CallsEnd ==
    /\ <>(session \notin {"checking", "starting", "spawning", "abandoning"})
    /\ session = "flagging" ~> session = "stopped"
=============================================================================
