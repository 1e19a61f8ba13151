-------------------------- MODULE FunAsrConnection --------------------------
(***************************************************************************)
(* One FunASR session as src/src/asr/funasr.rs runs it.  Four parties      *)
(* meet here:                                                              *)
(*                                                                         *)
(*   owner      the code that holds the FunAsrClient: connect(), finish(), *)
(*              dropping the client, dropping one of those futures;        *)
(*   producers  holders of a cloned FunAsrInput: try_send() and send();    *)
(*   task       the spawned run_connection();                              *)
(*   network    the WebSocket and the server behind it (external).         *)
(*                                                                         *)
(* A chunk of speech is the pair of its producer and a number; a server    *)
(* reply keeps only the fields emit_server_message branches on; an event   *)
(* keeps its kind.                                                         *)
(***************************************************************************)
EXTENDS Integers, Sequences, SequencesExt

CONSTANTS
    Producers,    \* holders of a FunAsrInput clone
    Owner,        \* sender of InputMessage::Finish, not a producer
    Capacity,     \* config.audio_queue_capacity
    NetCapacity,  \* messages in flight in one direction of the WebSocket
    Replies,      \* what the server may say
    MaxChunks,    \* bound: chunks one producer makes
    MaxReplies    \* bound: messages the server sends

EventKinds == {"Partial", "Final", "ServerError", "End", "Disconnected"}

\* A message of the server: a Text frame that parses as ServerMessage (mode
\* "offline" stands for "offline" and "2pass-offline"), a Text frame that does
\* not, a Close frame, or a Ping, Pong or Binary frame.
ServerFrame ==
    [kind : {"text", "malformed", "close", "control"},
     error : BOOLEAN, text : BOOLEAN, mode : {"online", "offline"},
     is_final : BOOLEAN, is_end : BOOLEAN]

ASSUME OwnerAssumption == Owner \notin Producers
ASSUME BoundsAssumption ==
    /\ Capacity \in Nat \ {0}      \* connect() rejects a zero capacity
    /\ NetCapacity \in Nat \ {0}
    /\ MaxChunks \in Nat
    /\ MaxReplies \in Nat
ASSUME RepliesAssumption == Replies \subseteq ServerFrame

Message == [from : Producers \cup {Owner}, n : 0 .. MaxChunks]
Audio(p, n) == [from |-> p, n |-> n]
Finish == [from |-> Owner, n |-> 0]

VARIABLES
    pc,         \* where run_connection is
    hand,       \* the command the task took from the queue and has not yet sent
    queue,      \* the mpsc channel; what is left in it at the end is discarded
    waiting,    \* senders inside Sender::send().await, in the order they came
    ready,      \* the oneshot that connect() awaits
    result,     \* the Result<()> of the task
    events,     \* everything sent on the event channel
    owner,      \* what the holder of the client is doing
    holders,    \* producers that hold a clone of the input
    made,       \* number of chunks each producer has made
    submitted,  \* history: messages the queue accepted, in order
    link,       \* the WebSocket: "none", "up", "closed" by us, "down"
    wire,       \* commands the socket accepted after the start message
    heard,      \* how many of those the server has read
    inbox,      \* server messages the task has not read
    replies     \* number of messages the server has sent

taskVars  == <<pc, hand, ready, result, events>>
inputVars == <<queue, waiting, made, submitted>>
ownerVars == <<owner, holders>>
netVars   == <<link, wire, heard, inbox, replies>>
vars == <<taskVars, inputVars, ownerVars, netVars>>

AwaitPoints ==
    {"handshake", "start", "select", "sending", "sendFinish", "awaitFinal", "closing"}
Failures == {"Network", "Protocol"}

TypeOK ==
    /\ pc \in AwaitPoints \cup {"done"}
    /\ hand \in Seq(Message) /\ Len(hand) <= 1
    /\ queue \in Seq(Message) /\ Len(queue) <= Capacity
    /\ waiting \in Seq(Message)
    /\ ready \in {"pending", "ok", "err"}
    /\ result \in {"none", "ok", "aborted"} \cup Failures
    /\ events \in Seq(EventKinds)
    /\ owner \in {"connecting", "streaming", "finishSend", "joining",
                  "returned", "failed", "dropped", "detached"}
    /\ holders \subseteq Producers
    /\ made \in [Producers -> 0 .. MaxChunks]
    /\ submitted \in Seq(Message)
    /\ link \in {"none", "up", "closed", "down"}
    /\ wire \in Seq(Message)
    /\ heard \in 0 .. Len(wire)
    /\ inbox \in Seq(Replies) /\ Len(inbox) <= NetCapacity
    /\ replies \in 0 .. MaxReplies

Init ==
    /\ pc = "handshake" /\ hand = <<>> /\ queue = <<>> /\ waiting = <<>>
    /\ ready = "pending" /\ result = "none" /\ events = <<>>
    /\ owner = "connecting" /\ holders = {} /\ made = [p \in Producers |-> 0]
    /\ submitted = <<>>
    /\ link = "none" /\ wire = <<>> /\ heard = 0 /\ inbox = <<>> /\ replies = 0

-----------------------------------------------------------------------------
(* The replies: handle_incoming and emit_server_message as functions of one *)
(* message.                                                                 *)

\* The transcript part of a reply.
TextEvents(m) ==
    IF ~m.text THEN <<>>
    ELSE IF m.is_final \/ m.mode = "offline" THEN <<"Final">> ELSE <<"Partial">>

\* What the reply says about the end of the session.
EndEvents(m) ==
    IF ~m.is_end THEN <<>>
    ELSE IF m.is_final THEN <<"End">> ELSE <<"ServerError">>

EventsOf(m) ==
    CASE m.kind = "text"  -> IF m.error THEN <<"ServerError">>
                             ELSE TextEvents(m) \o EndEvents(m)
      [] m.kind = "close" -> <<"Disconnected">>
      [] OTHER            -> <<>>

\* Fault: an end without is_final is taken for an acknowledgement.
VerdictOfAnyEnd(m) ==
    CASE m.kind = "text" ->
            IF m.error THEN "Protocol" ELSE IF m.is_end THEN "acknowledged" ELSE "continue"
      [] m.kind = "malformed" -> "Protocol"
      [] m.kind = "close"     -> "Network"
      [] OTHER                -> "continue"

\* Ok(false), Ok(true), or the error that handle_incoming returns.
VerdictOf(m) ==
    CASE m.kind = "text" ->
            IF m.error \/ (m.is_end /\ ~m.is_final) THEN "Protocol"
            ELSE IF m.is_end THEN "acknowledged" ELSE "continue"
      [] m.kind = "malformed" -> "Protocol"
      [] m.kind = "close"     -> "Network"
      [] OTHER                -> "continue"

-----------------------------------------------------------------------------
(* The task *)

\* Fault: the task keeps a sender of its own channel.
SenderLeaked == TRUE

\* Some sender of the channel is alive: the client's own or a clone.
SenderAlive ==
    owner \in {"connecting", "streaming", "finishSend", "joining"} \/ holders # {}

\* run_connection returns r: the receiver, the event sender and the socket go
\* away, and a startup failure is reported through the oneshot.
TaskReturns(r) ==
    /\ pc' = "done" /\ result' = r
    /\ ready' = IF ready = "pending" THEN "err" ELSE ready
    /\ link' = IF link = "up" THEN "closed" ELSE link

\* connect_async succeeds before connect_timeout.
HandshakeSucceeds ==
    /\ pc = "handshake"
    /\ pc' = "start" /\ link' = "up"
    /\ UNCHANGED <<hand, ready, result, events, inputVars, ownerVars,
                   wire, heard, inbox, replies>>

\* An invalid URL or token, a refused connection, or connect_timeout.
HandshakeFails ==
    /\ pc = "handshake"
    /\ TaskReturns("Network")
    /\ UNCHANGED <<hand, events, inputVars, ownerVars, wire, heard, inbox, replies>>

\* socket.send() of a message can complete: there is room, or the connection is
\* gone and the bytes go nowhere.
SocketAccepts == link = "down" \/ Len(wire) - heard < NetCapacity

\* The start message is written and connect() is told; the socket is empty, so
\* nothing can block it.
SendStart ==
    /\ pc = "start"
    /\ pc' = "select" /\ ready' = "ok"
    /\ UNCHANGED <<hand, result, events, inputVars, ownerVars, netVars>>

StartFails ==
    /\ pc = "start" /\ link = "down"
    /\ TaskReturns("Network")
    /\ UNCHANGED <<hand, events, inputVars, ownerVars, wire, heard, inbox, replies>>

\* Faults: the command is read but not removed, and commands are taken in pairs.
TakeCommandTwice ==
    /\ pc = "select" /\ queue # <<>>
    /\ hand' = <<Head(queue)>>
    /\ pc' = IF Head(queue) = Finish THEN "sendFinish" ELSE "sending"
    /\ UNCHANGED <<queue, waiting, made, submitted, ready, result, events, ownerVars, netVars>>

TakeCommandInPairs ==
    /\ pc = "select" /\ Len(queue) > 1
    /\ hand' = <<Head(queue)>> /\ queue' = Tail(queue)
    /\ pc' = IF Head(queue) = Finish THEN "sendFinish" ELSE "sending"
    /\ UNCHANGED <<waiting, made, submitted, ready, result, events, ownerVars, netVars>>

\* The first select branch, input.recv() = Some(command).
TakeCommand ==
    /\ pc = "select" /\ queue # <<>>
    /\ hand' = <<Head(queue)>> /\ queue' = Tail(queue)
    /\ pc' = IF Head(queue) = Finish THEN "sendFinish" ELSE "sending"
    /\ UNCHANGED <<waiting, made, submitted, ready, result, events, ownerVars, netVars>>

\* input.recv() = None: every sender is gone and the queue is drained.
TakeNone ==
    /\ pc = "select" /\ queue = <<>> /\ ~SenderAlive
    /\ hand' = <<Finish>> /\ pc' = "sendFinish"
    /\ UNCHANGED <<ready, result, events, inputVars, ownerVars, netVars>>

\* Fault: the loop goes on after the FinishMessage.
SendCommandAndLoop ==
    /\ pc \in {"sending", "sendFinish"} /\ SocketAccepts
    /\ wire' = wire \o hand /\ hand' = <<>> /\ pc' = "select"
    /\ UNCHANGED <<ready, result, events, inputVars, ownerVars, link, heard, inbox, replies>>

\* socket.send() of the chunk, or of the FinishMessage, completes.
SendCommand ==
    /\ pc \in {"sending", "sendFinish"} /\ SocketAccepts
    /\ wire' = wire \o hand /\ hand' = <<>>
    /\ pc' = IF pc = "sending" THEN "select" ELSE "awaitFinal"
    /\ UNCHANGED <<ready, result, events, inputVars, ownerVars, link, heard, inbox, replies>>

\* A chunk that cannot be sent is a disconnect, with its event.
SendAudioFails ==
    /\ pc = "sending" /\ link = "down"
    /\ events' = Append(events, "Disconnected")
    /\ TaskReturns("Network")
    /\ UNCHANGED <<hand, inputVars, ownerVars, wire, heard, inbox, replies>>

\* A FinishMessage that cannot be sent is an error without an event.
SendFinishFails ==
    /\ pc = "sendFinish" /\ link = "down"
    /\ TaskReturns("Network")
    /\ UNCHANGED <<hand, events, inputVars, ownerVars, wire, heard, inbox, replies>>

\* Fault: the send is itself a branch of the select, and a reply that arrives
\* first cancels it.
IncomingCancelsSend ==
    /\ pc \in {"select", "sending", "awaitFinal"} /\ inbox # <<>>
    /\ inbox' = Tail(inbox)
    /\ events' = events \o EventsOf(Head(inbox))
    /\ LET verdict == VerdictOf(Head(inbox)) IN
         \/ /\ verdict = "continue"
            /\ pc' = IF pc = "sending" THEN "select" ELSE pc
            /\ hand' = <<>> /\ UNCHANGED <<result, ready, link>>
         \/ verdict # "continue" /\ UNCHANGED hand /\ TaskReturns(verdict)
    /\ UNCHANGED <<inputVars, ownerVars, wire, heard, replies>>

\* socket.next() yields a message, in the select loop or in the final wait.  An
\* acknowledgement ends the select loop's function at once, and the final wait
\* goes on to close the socket.
Incoming ==
    /\ pc \in {"select", "awaitFinal"} /\ inbox # <<>>
    /\ inbox' = Tail(inbox)
    /\ events' = events \o EventsOf(Head(inbox))
    /\ LET verdict == VerdictOf(Head(inbox)) IN
         \/ verdict = "continue" /\ UNCHANGED <<pc, result, ready, link>>
         \/ verdict = "acknowledged" /\ pc = "select" /\ TaskReturns("ok")
         \/ /\ verdict = "acknowledged" /\ pc = "awaitFinal"
            /\ pc' = "closing" /\ UNCHANGED <<result, ready, link>>
         \/ verdict \in Failures /\ TaskReturns(verdict)
    /\ UNCHANGED <<hand, inputVars, ownerVars, wire, heard, replies>>

\* socket.next() yields an error or None.
StreamEnds ==
    /\ pc \in {"select", "awaitFinal"} /\ inbox = <<>> /\ link = "down"
    /\ events' = Append(events, "Disconnected")
    /\ TaskReturns("Network")
    /\ UNCHANGED <<hand, inputVars, ownerVars, wire, heard, inbox, replies>>

\* Fault: the end of the wait is taken for the end of the session.
FinalTimeoutIsSuccess ==
    /\ pc = "awaitFinal"
    /\ TaskReturns("ok")
    /\ UNCHANGED <<hand, events, inputVars, ownerVars, wire, heard, inbox, replies>>

\* final_result_timeout passes.
FinalTimeout ==
    /\ pc = "awaitFinal"
    /\ TaskReturns("Network")
    /\ UNCHANGED <<hand, events, inputVars, ownerVars, wire, heard, inbox, replies>>

\* socket.close(None), whose result is ignored.
CloseSocket ==
    /\ pc = "closing" /\ SocketAccepts
    /\ TaskReturns("ok")
    /\ UNCHANGED <<hand, events, inputVars, ownerVars, wire, heard, inbox, replies>>

\* JoinHandle::abort() by Drop takes effect at the task's next await.
TaskAborted ==
    /\ pc # "done" /\ owner = "dropped"
    /\ TaskReturns("aborted")
    /\ UNCHANGED <<hand, events, inputVars, ownerVars, wire, heard, inbox, replies>>

TaskNext ==
    \/ HandshakeSucceeds \/ HandshakeFails \/ SendStart \/ StartFails
    \/ TakeCommand \/ TakeNone \/ SendCommand \/ SendAudioFails \/ SendFinishFails
    \/ Incoming \/ StreamEnds \/ FinalTimeout \/ CloseSocket \/ TaskAborted

-----------------------------------------------------------------------------
(* The senders.  tokio hands the slots of a bounded channel to waiting      *)
(* senders first come, first served: the first Capacity - Len(queue) of     *)
(* them own a slot, and try_send finds one only when slots remain.          *)

\* Fault: one waiting sender too many is let in.
OwnsSlotOffByOne(i) == Len(queue) + i <= Capacity + 1

IsWaiting(p) == \E i \in DOMAIN waiting : waiting[i].from = p
OwnsSlot(i) == Len(queue) + i <= Capacity
SlotFree == Len(queue) + Len(waiting) < Capacity

MakesChunk(p) ==
    /\ p \in holders /\ ~IsWaiting(p) /\ made[p] < MaxChunks
    /\ made' = [made EXCEPT ![p] = @ + 1]

\* Fault: a chunk is accepted although the receiver is gone.
TrySendUnchecked(p) ==
    /\ SlotFree
    /\ MakesChunk(p)
    /\ queue' = Append(queue, Audio(p, made[p] + 1))
    /\ submitted' = Append(submitted, Audio(p, made[p] + 1))
    /\ UNCHANGED <<waiting, taskVars, ownerVars, netVars>>

\* FunAsrInput::try_send returns Ok.
TrySendAccepted(p) ==
    /\ pc # "done" /\ SlotFree
    /\ MakesChunk(p)
    /\ queue' = Append(queue, Audio(p, made[p] + 1))
    /\ submitted' = Append(submitted, Audio(p, made[p] + 1))
    /\ UNCHANGED <<waiting, taskVars, ownerVars, netVars>>

\* FunAsrInput::try_send returns AudioQueueFull or, when the task is over,
\* "FunASR connection is closed"; the caller keeps the error, the chunk is gone.
TrySendRefused(p) ==
    /\ pc = "done" \/ ~SlotFree
    /\ MakesChunk(p)
    /\ UNCHANGED <<queue, waiting, submitted, taskVars, ownerVars, netVars>>

\* FunAsrInput::send starts to wait for a slot.
SendWaits(p) ==
    /\ MakesChunk(p)
    /\ waiting' = Append(waiting, Audio(p, made[p] + 1))
    /\ UNCHANGED <<queue, submitted, taskVars, ownerVars, netVars>>

\* Fault: a Finish that cannot be sent leaves finish() where it is.
AfterWaitOnlyIfSent(i) ==
    owner' = IF waiting[i] = Finish /\ pc # "done" THEN "joining" ELSE owner

\* Where the owner goes when the i-th wait is over: finish() ignores the
\* outcome of its own send and joins the task.
AfterWait(i) ==
    owner' = IF waiting[i] = Finish THEN "joining" ELSE owner

\* The i-th waiting sender, which owns a slot, fills it.
WaitingPushes(i) ==
    /\ pc # "done" /\ OwnsSlot(i)
    /\ queue' = Append(queue, waiting[i])
    /\ submitted' = Append(submitted, waiting[i])
    /\ waiting' = RemoveAt(waiting, i)
    /\ AfterWait(i)
    /\ UNCHANGED <<made, holders, taskVars, netVars>>

\* The receiver is gone: every wait ends with an error.
WaitingFails(i) ==
    /\ pc = "done"
    /\ waiting' = RemoveAt(waiting, i)
    /\ AfterWait(i)
    /\ UNCHANGED <<queue, made, submitted, holders, taskVars, netVars>>

\* FunAsrClient::input() hands out a clone.
CloneInput(p) ==
    /\ owner = "streaming" /\ p \notin holders
    /\ holders' = holders \cup {p}
    /\ UNCHANGED <<owner, taskVars, inputVars, netVars>>

\* A producer drops its clone.
DropInput(p) ==
    /\ p \in holders /\ ~IsWaiting(p)
    /\ holders' = holders \ {p}
    /\ UNCHANGED <<owner, taskVars, inputVars, netVars>>

ProducerNext(p) ==
    \/ TrySendAccepted(p) \/ TrySendRefused(p) \/ SendWaits(p)
    \/ CloneInput(p) \/ DropInput(p)

-----------------------------------------------------------------------------
(* The owner of the client *)

\* connect() resumes from ready_receiver.await; on an error it joins the task.
ConnectReturns ==
    /\ owner = "connecting"
    /\ \/ ready = "ok" /\ owner' = "streaming"
       \/ ready = "err" /\ pc = "done" /\ owner' = "failed"
    /\ UNCHANGED <<holders, taskVars, inputVars, netVars>>

\* finish(self) begins: it sends InputMessage::Finish, waiting for a slot.
CallFinish ==
    /\ owner = "streaming"
    /\ owner' = "finishSend"
    /\ waiting' = Append(waiting, Finish)
    /\ UNCHANGED <<queue, made, submitted, holders, taskVars, netVars>>

\* finish() returns the task's result.
FinishReturns ==
    /\ owner = "joining" /\ pc = "done"
    /\ owner' = "returned"
    /\ UNCHANGED <<holders, taskVars, inputVars, netVars>>

\* The client is dropped; Drop aborts the task it still holds.
DropClient ==
    /\ owner = "streaming"
    /\ owner' = "dropped"
    /\ UNCHANGED <<holders, taskVars, inputVars, netVars>>

\* The future of finish() is dropped while it waits for a slot.  The client is
\* dropped with it, its JoinHandle not yet taken, so the task is aborted too.
CancelFinish ==
    /\ owner = "finishSend"
    /\ owner' = "dropped"
    /\ \E i \in DOMAIN waiting :
          waiting[i] = Finish /\ waiting' = RemoveAt(waiting, i)
    /\ UNCHANGED <<queue, made, submitted, holders, taskVars, netVars>>

\* The future of connect(), or of finish() at its join, is dropped: its
\* JoinHandle is a local by then, and the task runs on, detached.
CancelDetaches ==
    /\ owner \in {"connecting", "joining"}
    /\ owner' = "detached"
    /\ UNCHANGED <<holders, taskVars, inputVars, netVars>>

OwnerNext ==
    \/ ConnectReturns \/ CallFinish \/ FinishReturns
    \/ DropClient \/ CancelFinish \/ CancelDetaches

-----------------------------------------------------------------------------
(* The network and the server (external): any reply at any time, a reader   *)
(* that may lag by NetCapacity, and a connection that may break and lose    *)
(* what is in flight.                                                       *)

ServerReads ==
    /\ link \in {"up", "closed"} /\ heard < Len(wire)
    /\ heard' = heard + 1
    /\ UNCHANGED <<link, wire, inbox, replies, taskVars, inputVars, ownerVars>>

\* Nothing follows a Close frame.
ServerReplies(m) ==
    /\ link = "up" /\ replies < MaxReplies /\ Len(inbox) < NetCapacity
    /\ inbox' = Append(inbox, m)
    /\ replies' = IF m.kind = "close" THEN MaxReplies ELSE replies + 1
    /\ UNCHANGED <<link, wire, heard, taskVars, inputVars, ownerVars>>

LinkBreaks ==
    /\ link \in {"up", "closed"}
    /\ link' = "down"
    /\ \E n \in 0 .. Len(inbox) : inbox' = SubSeq(inbox, 1, n)
    /\ UNCHANGED <<wire, heard, replies, taskVars, inputVars, ownerVars>>

NetNext == ServerReads \/ LinkBreaks \/ \E m \in Replies : ServerReplies(m)

\* The waits of send() and of finish() that can end.
WaitNext == \E i \in DOMAIN waiting : WaitingPushes(i) \/ WaitingFails(i)

Next ==
    \/ TaskNext
    \/ \E p \in Producers : ProducerNext(p)
    \/ WaitNext
    \/ OwnerNext
    \/ NetNext

Spec == Init /\ [][Next]_vars

\* The runtime polls what can run: the task (its timeouts included), a sender
\* whose slot or error is there, connect() and finish().  Nobody has to produce,
\* finish, drop or cancel.  ServerReads is the one assumption about the server:
\* it goes on reading what is sent to it.
Fairness ==
    /\ WF_vars(TaskNext)
    /\ WF_vars(WaitNext)
    /\ WF_vars(ConnectReturns)
    /\ WF_vars(FinishReturns)
    /\ WF_vars(ServerReads)

FairSpec == Spec /\ Fairness
-----------------------------------------------------------------------------
(* What the session promises *)

Terminal == {"ServerError", "End", "Disconnected"}

\* What the socket accepted is a prefix of what the queue accepted, in the same
\* order and without a gap; only the FinishMessage that follows the loss of the
\* last sender (recv() = None) has no counterpart in the queue.  Nothing that
\* try_send or send accepted before Finish can be overtaken by it or skipped.
UploadInOrder ==
    IsPrefix(wire, submitted) \/ wire = Append(submitted, Finish)

\* The FinishMessage is the last command of the session: no speech follows it,
\* and it is never sent twice (a Finish in the queue and the None arm).
FinishIsLast ==
    \A i \in DOMAIN wire : wire[i] = Finish => i = Len(wire)

\* Every message the queue ever accepted is on the wire, in the task's hand or
\* still in the queue, in that order: none is dropped or duplicated between
\* try_send or send and the socket while the task takes, sends, fails or stops.
SpeechConserved ==
    \/ submitted = wire \o hand \o queue
    \/ Append(submitted, Finish) = wire \o hand /\ queue = <<>>

\* What the task holds at each of its await points, and what it has sent.
NoFinish(s) == \A i \in DOMAIN s : s[i] # Finish

HandMatchesPc ==
    /\ pc \in {"handshake", "start", "select", "awaitFinal", "closing"} => hand = <<>>
    /\ pc = "sending" => hand # <<>> /\ NoFinish(hand)
    /\ pc = "sendFinish" => hand = <<Finish>>
    /\ pc \in {"handshake", "start", "select", "sending", "sendFinish"} => NoFinish(wire)
    /\ pc = "done" => hand = <<>> \/ NoFinish(wire)

\* Whoever waits for a slot keeps the channel alive, and finish() waits once.
WaitersAlive ==
    /\ \A i \in DOMAIN waiting :
          IF waiting[i] = Finish THEN owner = "finishSend" ELSE waiting[i].from \in holders
    /\ \A i, j \in DOMAIN waiting : waiting[i] = Finish /\ waiting[j] = Finish => i = j

\* recv() = None is final: the task has left the select loop, and nobody can
\* put anything behind the FinishMessage that follows it.
NoneIsFinal ==
    submitted # wire \o hand \o queue =>
        ~SenderAlive /\ pc \in {"sendFinish", "awaitFinal", "closing", "done"}

\* The inductive invariant of the upload, behind UploadInOrder: no step of a
\* sender, the owner, the task or the network breaks the order of the speech.
UploadInv ==
    SpeechConserved /\ NoneIsFinal /\ HandMatchesPc /\ WaitersAlive /\ FinishIsLast

\* End, ServerError and Disconnected end the event stream: at most one of them
\* is sent and nothing follows it, whatever the server sends afterwards.
TerminalEventIsLast ==
    \A i \in DOMAIN events : events[i] \in Terminal => i = Len(events)

\* The event stream and the task's result tell the same story: the task returns
\* Ok exactly when the stream ends with End (an abort may still catch it while
\* it closes the socket), and an error event never comes with a success.
ResultMatchesEvents ==
    LET last == events[Len(events)] IN
    /\ result = "ok" => events # <<>> /\ last = "End"
    /\ events # <<>> =>
         /\ last = "End" => (pc = "closing" \/ result \in {"ok", "aborted"})
         /\ last = "ServerError" => result = "Protocol"
         /\ last = "Disconnected" => result = "Network"

\* The inductive invariant of the stream: while the task runs it has emitted
\* results only, and it closes the socket only after an End.
StreamInv ==
    /\ result = "none" <=> pc # "done"
    /\ pc \notin {"closing", "done"} => events \in Seq({"Partial", "Final"})
    /\ pc = "closing" => events # <<>> /\ events[Len(events)] = "End"
    /\ TerminalEventIsLast /\ ResultMatchesEvents

\* The receiver goes away with the task: after its end no sender's chunk is
\* accepted any more, and nothing is sent, emitted or returned a second time.
EndIsFinal ==
    [][pc = "done" => UNCHANGED <<pc, wire, events, result, submitted>>]_vars

\* connect() returns, one way or the other, and finish() returns unless its future is
\* dropped: it cannot wait for ever for a slot of the queue, for the task or for the
\* final result of a silent server.
CallsEnd ==
    /\ <>(owner # "connecting")
    /\ owner = "finishSend" ~> owner \in {"returned", "dropped", "detached"}

\* No task outlives its client: an abort, or the loss of the last sender, ends it.
NoOrphanTask == owner \in {"dropped", "detached"} ~> pc = "done"

\* A chunk the queue accepted reaches the socket unless the task ends first.
AcceptedSpeechMoves ==
    \A p \in Producers, n \in 1 .. MaxChunks :
        Audio(p, n) \in Range(submitted) ~> Audio(p, n) \in Range(wire) \/ pc = "done"

\* main.rs reports "sent {sent_chunks} audio chunks to FunASR" after finish()
\* returned Ok, counting the chunks the queue accepted: all of them should be on
\* the wire.  An acknowledgement during the upload breaks this.
OkMeansAllSpeechSent ==
    owner = "returned" /\ result = "ok" =>
        \A i \in DOMAIN submitted :
            Finish \in Range(SubSeq(submitted, 1, i)) \/ i <= Len(wire)

\* The stream and the result are those of TranscriptSession.
Session == INSTANCE TranscriptSession WITH stream <- events, outcome <- result
ImplementsSession == Session!Spec
=============================================================================
