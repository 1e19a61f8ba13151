-------------------------- MODULE CaptureContract --------------------------
(***************************************************************************)
(* What a CaptureSession promises to whoever holds it, without devices,    *)
(* rings, flags or threads: whole frames in the order of the device, gaps  *)
(* but no repetition, every sample in the place of its channel; an alarm   *)
(* only for a capture that ended by itself; and no frame more once stop()  *)
(* has returned or start() has failed, though what is queued can still be  *)
(* received.  WindowsCapture and MacCapture implement it.                  *)
(***************************************************************************)
EXTENDS Integers, Sequences, SequencesExt

CONSTANTS
    FrameSamples,  \* samples in a frame, all channels together
    Channels       \* channels, whose samples take turns

VARIABLES
    phase,     \* "starting", "running", "stopping", then "stopped" or "failed"
    channel,   \* the samples in the channel of frames
    received,  \* the samples the caller has received
    failed,    \* the native capture ended by itself
    alarm      \* the caller has been told so

vars == <<phase, channel, received, failed, alarm>>

Increasing(s) == \A i, j \in DOMAIN s : i < j => s[i] < s[j]

\* Every sample is where its channel is read.
InPlace(s) == \A i \in DOMAIN s : (s[i] - i) % Channels = 0

Init ==
    /\ phase = "starting" /\ channel = <<>> /\ received = <<>>
    /\ failed = FALSE /\ alarm = FALSE

\* start() returns.
Starts ==
    /\ phase = "starting" /\ phase' \in {"running", "failed"}
    /\ UNCHANGED <<channel, received, failed, alarm>>

\* A frame is queued: later samples than all before, perhaps behind a gap.
Deliver ==
    /\ phase \in {"running", "stopping"}
    /\ Len(channel') = Len(channel) + FrameSamples
    /\ IsPrefix(channel, channel')
    /\ Increasing(received \o channel') /\ InPlace(received \o channel')
    /\ UNCHANGED <<phase, received, failed, alarm>>

\* frames().recv(), which a session that has been stopped answers too.
Receive ==
    /\ phase \in {"running", "stopped"} /\ channel # <<>>
    /\ received' = received \o SubSeq(channel, 1, FrameSamples)
    /\ channel' = SubSeq(channel, FrameSamples + 1, Len(channel))
    /\ UNCHANGED <<phase, failed, alarm>>

\* The device, the target or the capture itself is gone.
Breaks ==
    /\ failed' = TRUE
    /\ UNCHANGED <<phase, channel, received, alarm>>

\* check_health() tells the caller.
Alarms ==
    /\ phase = "running" /\ failed
    /\ alarm' = TRUE
    /\ UNCHANGED <<phase, channel, received, failed>>

\* stop() or drop; stop() may find an error to return.
Stops ==
    /\ phase = "running" /\ phase' = "stopping"
    /\ alarm' \in {alarm, alarm \/ failed}
    /\ UNCHANGED <<channel, received, failed>>

\* stop() returns.
Stopped ==
    /\ phase = "stopping" /\ phase' = "stopped"
    /\ UNCHANGED <<channel, received, failed, alarm>>

Next == Starts \/ Deliver \/ Receive \/ Breaks \/ Alarms \/ Stops \/ Stopped

Spec == Init /\ [][Next]_vars
=============================================================================
