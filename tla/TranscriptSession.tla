------------------------- MODULE TranscriptSession -------------------------
(***************************************************************************)
(* What a FunASR session promises to the reader of its events and to the   *)
(* caller of finish(), without queue, task, socket or server: a stream of  *)
(* Partial and Final results, ended by at most one of End, ServerError and *)
(* Disconnected, and an outcome that agrees with it.  FunAsrConnection     *)
(* implements it.                                                          *)
(***************************************************************************)
EXTENDS Sequences, Naturals

VARIABLES
    stream,   \* the events sent so far
    outcome   \* "none" while the session runs, then its result

vars == <<stream, outcome>>

Results == {"Partial", "Final"}
Outcomes == {"none", "ok", "aborted", "Network", "Protocol"}

\* The session has been acknowledged and can only succeed or be aborted.
Acknowledged == stream # <<>> /\ stream[Len(stream)] = "End"

Running == outcome = "none" /\ ~Acknowledged

Init == stream = <<>> /\ outcome = "none"

\* A reply with text adds one result.
Transcribe ==
    /\ Running
    /\ \E e \in Results : stream' = Append(stream, e)
    /\ UNCHANGED outcome

\* The final acknowledgement, perhaps with a last result.  The session succeeds
\* at once or closes its socket first.
Acknowledge ==
    /\ Running
    /\ \/ stream' = Append(stream, "End")
       \/ \E e \in Results : stream' = stream \o <<e, "End">>
    /\ outcome' \in {"none", "ok"}

Succeed ==
    /\ outcome = "none" /\ Acknowledged
    /\ outcome' = "ok" /\ UNCHANGED stream

\* An error, with its event or without one: a FinishMessage that cannot be sent,
\* an unreadable reply and the final timeout have no event of their own.
Fail ==
    /\ Running
    /\ \/ outcome' = "Network" /\ stream' \in {stream, Append(stream, "Disconnected")}
       \/ outcome' = "Protocol" /\ stream' \in {stream, Append(stream, "ServerError")}
       \/ /\ outcome' = "Protocol"
          /\ \E e \in Results : stream' = stream \o <<e, "ServerError">>

Abort ==
    /\ outcome = "none"
    /\ outcome' = "aborted" /\ UNCHANGED stream

Next == Transcribe \/ Acknowledge \/ Succeed \/ Fail \/ Abort

Spec == Init /\ [][Next]_vars
=============================================================================
