---------------------- MODULE FunAsrConnection_proofs ----------------------
(***************************************************************************)
(* Theorems about FunAsrConnection for every set of producers, every       *)
(* capacity and every set of server replies.                               *)
(***************************************************************************)
EXTENDS FunAsrConnection, SequenceTheorems, TLAPS

-----------------------------------------------------------------------------
(* Operators the model is built from *)

\* Taking one element out of a sequence leaves a sequence, one shorter.
LEMMA RemoveAtType ==
    ASSUME NEW S, NEW s \in Seq(S), NEW i \in DOMAIN s
    PROVE  RemoveAt(s, i) \in Seq(S) /\ Len(RemoveAt(s, i)) = Len(s) - 1
<1>1. i \in 1 .. Len(s) /\ Len(s) \in Nat
  BY LenProperties
<1>2. /\ SubSeq(s, 1, i - 1) \in Seq(S) /\ Len(SubSeq(s, 1, i - 1)) = i - 1
  BY <1>1, SubSeqProperties, LenProperties
<1>3. /\ SubSeq(s, i + 1, Len(s)) \in Seq(S)
      /\ Len(SubSeq(s, i + 1, Len(s))) = Len(s) - i
  BY <1>1, SubSeqProperties, LenProperties
<1>4. SubSeq(s, 1, i - 1) \o SubSeq(s, i + 1, Len(s)) \in Seq(S)
      /\ Len(SubSeq(s, 1, i - 1) \o SubSeq(s, i + 1, Len(s))) = (i - 1) + (Len(s) - i)
  BY <1>2, <1>3, ConcatProperties
<1>5. (i - 1) + (Len(s) - i) = Len(s) - 1
  BY <1>1
<1> QED
  BY <1>4, <1>5 DEF RemoveAt

\* handle_incoming emits events and nothing else, and it has four verdicts.
LEMMA ReplyType ==
    ASSUME NEW m \in Replies
    PROVE  /\ EventsOf(m) \in Seq(EventKinds)
           /\ VerdictOf(m) \in {"continue", "acknowledged"} \cup Failures
<1> DEFINE E == Seq(EventKinds)
<1>1. <<>> \in E /\ <<"Partial">> \in E /\ <<"Final">> \in E /\ <<"End">> \in E
      /\ <<"ServerError">> \in E /\ <<"Disconnected">> \in E
  BY DEF EventKinds
<1> HIDE DEF E
<1>2. TextEvents(m) \in E /\ EndEvents(m) \in E
  BY <1>1 DEF TextEvents, EndEvents
<1>3. TextEvents(m) \o EndEvents(m) \in E
  BY <1>2, ConcatProperties DEF E
<1>4. EventsOf(m) \in E
  <2>1. CASE m.kind = "text"
    BY <2>1, <1>1, <1>3 DEF EventsOf
  <2>2. CASE m.kind # "text"
    BY <2>2, <1>1 DEF EventsOf
  <2> QED
    BY <2>1, <2>2
<1>5. VerdictOf(m) \in {"continue", "acknowledged"} \cup Failures
  <2>1. CASE m.kind = "text"
    BY <2>1 DEF VerdictOf, Failures
  <2>2. CASE m.kind # "text"
    BY <2>2 DEF VerdictOf, Failures
  <2> QED
    BY <2>1, <2>2
<1> QED
  BY <1>4, <1>5 DEF E

LEMMA MessageType ==
    /\ Finish \in Message
    /\ \A p \in Producers, n \in 0 .. MaxChunks : Audio(p, n) \in Message /\ Audio(p, n) # Finish
  BY OwnerAssumption, BoundsAssumption DEF Finish, Audio, Message

-----------------------------------------------------------------------------
(* Type correctness *)

\* TypeOK holds in every reachable state, for every value of the constants.
THEOREM TypeCorrect == Spec => []TypeOK
<1> USE BoundsAssumption, OwnerAssumption
<1>1. Init => TypeOK
  BY DEF Init, TypeOK, AwaitPoints, Failures
<1>2. TypeOK /\ [Next]_vars => TypeOK'
  <2> SUFFICES ASSUME TypeOK, [Next]_vars PROVE TypeOK'
    OBVIOUS
  <2> USE DEF TypeOK
  <2>1. CASE TaskNext
    <3>1. CASE HandshakeSucceeds
      BY <3>1 DEF HandshakeSucceeds, AwaitPoints, inputVars, ownerVars
    <3>2. CASE HandshakeFails
      BY <3>2 DEF HandshakeFails, TaskReturns, Failures, inputVars, ownerVars
    <3>3. CASE SendStart
      BY <3>3 DEF SendStart, AwaitPoints, inputVars, ownerVars, netVars
    <3>4. CASE StartFails
      BY <3>4 DEF StartFails, TaskReturns, Failures, inputVars, ownerVars
    <3>5. CASE TakeCommand
      <4>1. Head(queue) \in Message /\ Tail(queue) \in Seq(Message)
            /\ Len(Tail(queue)) = Len(queue) - 1
        BY <3>5, HeadTailProperties DEF TakeCommand
      <4>2. <<Head(queue)>> \in Seq(Message) /\ Len(<<Head(queue)>>) = 1
        BY <4>1
      <4> QED
        BY <3>5, <4>1, <4>2 DEF TakeCommand, AwaitPoints, ownerVars, netVars
    <3>6. CASE TakeNone
      <4>1. <<Finish>> \in Seq(Message) /\ Len(<<Finish>>) = 1
        BY MessageType
      <4> QED
        BY <3>6, <4>1 DEF TakeNone, AwaitPoints, inputVars, ownerVars, netVars
    <3>7. CASE SendCommand
      <4>1. wire \o hand \in Seq(Message) /\ Len(wire \o hand) = Len(wire) + Len(hand)
        BY ConcatProperties
      <4>2. heard \in 0 .. Len(wire \o hand)
        BY <4>1, LenProperties
      <4> QED
        BY <3>7, <4>1, <4>2 DEF SendCommand, AwaitPoints, inputVars, ownerVars
    <3>8. CASE SendAudioFails
      <4>1. Append(events, "Disconnected") \in Seq(EventKinds)
        BY AppendProperties DEF EventKinds
      <4> QED
        BY <3>8, <4>1 DEF SendAudioFails, TaskReturns, Failures, inputVars, ownerVars
    <3>9. CASE SendFinishFails
      BY <3>9 DEF SendFinishFails, TaskReturns, Failures, inputVars, ownerVars
    <3>10. CASE Incoming
      <4>1. Head(inbox) \in Replies /\ Tail(inbox) \in Seq(Replies)
            /\ Len(Tail(inbox)) = Len(inbox) - 1
        BY <3>10, HeadTailProperties DEF Incoming
      <4>2. events \o EventsOf(Head(inbox)) \in Seq(EventKinds)
        BY <4>1, ReplyType, ConcatProperties
      <4>3. /\ inbox' \in Seq(Replies) /\ Len(inbox') <= NetCapacity
            /\ events' \in Seq(EventKinds)
        BY <3>10, <4>1, <4>2, LenProperties DEF Incoming
      <4>4. /\ UNCHANGED <<hand, queue, waiting, made, submitted, owner, holders>>
            /\ UNCHANGED <<wire, heard, replies>>
        BY <3>10 DEF Incoming, inputVars, ownerVars
      <4>5. /\ pc' \in AwaitPoints \cup {"done"}
            /\ result' \in {"none", "ok", "aborted"} \cup Failures
            /\ ready' \in {"pending", "ok", "err"}
            /\ link' \in {"none", "up", "closed", "down"}
        <5>1. CASE UNCHANGED <<pc, result, ready, link>>
          BY <5>1
        <5>2. CASE pc' = "closing" /\ UNCHANGED <<result, ready, link>>
          BY <5>2 DEF AwaitPoints
        <5>3. CASE \E r \in {"ok"} \cup Failures : TaskReturns(r)
          BY <5>3 DEF TaskReturns
        <5> QED
          BY <3>10, <5>1, <5>2, <5>3 DEF Incoming
      <4> QED
        BY <4>3, <4>4, <4>5
    <3>11. CASE StreamEnds
      <4>1. Append(events, "Disconnected") \in Seq(EventKinds)
        BY AppendProperties DEF EventKinds
      <4> QED
        BY <3>11, <4>1 DEF StreamEnds, TaskReturns, Failures, inputVars, ownerVars
    <3>12. CASE FinalTimeout
      BY <3>12 DEF FinalTimeout, TaskReturns, Failures, inputVars, ownerVars
    <3>13. CASE CloseSocket
      BY <3>13 DEF CloseSocket, TaskReturns, inputVars, ownerVars
    <3>14. CASE TaskAborted
      BY <3>14 DEF TaskAborted, TaskReturns, inputVars, ownerVars
    <3> QED
      BY <2>1, <3>1, <3>2, <3>3, <3>4, <3>5, <3>6, <3>7, <3>8, <3>9, <3>10, <3>11,
         <3>12, <3>13, <3>14 DEF TaskNext
  <2>2. CASE \E p \in Producers : ProducerNext(p)
    <3> SUFFICES ASSUME NEW p \in Producers, ProducerNext(p) PROVE TypeOK'
      BY <2>2
    <3>1. ASSUME MakesChunk(p)
          PROVE  /\ made' \in [Producers -> 0 .. MaxChunks]
                 /\ Audio(p, made[p] + 1) \in Message
      <4>1. made[p] + 1 \in 0 .. MaxChunks
        BY <3>1 DEF MakesChunk
      <4> QED
        BY <3>1, <4>1, MessageType DEF MakesChunk
    <3>2. CASE TrySendAccepted(p)
      <4>1. Audio(p, made[p] + 1) \in Message /\ made' \in [Producers -> 0 .. MaxChunks]
        BY <3>1, <3>2 DEF TrySendAccepted
      <4>2. /\ Append(queue, Audio(p, made[p] + 1)) \in Seq(Message)
            /\ Len(Append(queue, Audio(p, made[p] + 1))) = Len(queue) + 1
            /\ Append(submitted, Audio(p, made[p] + 1)) \in Seq(Message)
        BY <4>1, AppendProperties
      <4>3. Len(queue) + 1 <= Capacity
        BY <3>2, LenProperties DEF TrySendAccepted, SlotFree
      <4> QED
        BY <3>2, <4>1, <4>2, <4>3 DEF TrySendAccepted, taskVars, ownerVars, netVars
    <3>3. CASE TrySendRefused(p)
      BY <3>1, <3>3 DEF TrySendRefused, taskVars, ownerVars, netVars
    <3>4. CASE SendWaits(p)
      <4>1. waiting' \in Seq(Message) /\ made' \in [Producers -> 0 .. MaxChunks]
        BY <3>1, <3>4, AppendProperties DEF SendWaits
      <4>2. UNCHANGED <<queue, submitted, taskVars, ownerVars, netVars>>
        BY <3>4 DEF SendWaits
      <4> QED
        BY <4>1, <4>2 DEF taskVars, ownerVars, netVars
    <3>5. CASE CloneInput(p)
      BY <3>5 DEF CloneInput, taskVars, inputVars, netVars
    <3>6. CASE DropInput(p)
      BY <3>6 DEF DropInput, taskVars, inputVars, netVars
    <3> QED
      BY <3>2, <3>3, <3>4, <3>5, <3>6 DEF ProducerNext
  <2>3. CASE WaitNext
    <3> SUFFICES ASSUME NEW i \in DOMAIN waiting, WaitingPushes(i) \/ WaitingFails(i)
                 PROVE  TypeOK'
      BY <2>3 DEF WaitNext
    <3>1. RemoveAt(waiting, i) \in Seq(Message)
      BY RemoveAtType
    <3>2. i \in 1 .. Len(waiting) /\ waiting[i] \in Message
      BY LenProperties, ElementOfSeq
    <3>3. CASE WaitingPushes(i)
      <4>1. /\ Append(queue, waiting[i]) \in Seq(Message)
            /\ Len(Append(queue, waiting[i])) = Len(queue) + 1
            /\ Append(submitted, waiting[i]) \in Seq(Message)
        BY <3>2, AppendProperties
      <4>2. Len(queue) + 1 <= Capacity
        BY <3>2, <3>3, LenProperties DEF WaitingPushes, OwnsSlot
      <4> QED
        BY <3>1, <3>3, <4>1, <4>2 DEF WaitingPushes, AfterWait, taskVars, netVars
    <3>4. CASE WaitingFails(i)
      BY <3>1, <3>4 DEF WaitingFails, AfterWait, taskVars, netVars
    <3> QED
      BY <3>3, <3>4
  <2>4. CASE OwnerNext
    <3>1. CASE ConnectReturns
      BY <3>1 DEF ConnectReturns, taskVars, inputVars, netVars
    <3>2. CASE CallFinish
      BY <3>2, MessageType, AppendProperties DEF CallFinish, taskVars, netVars
    <3>3. CASE FinishReturns
      BY <3>3 DEF FinishReturns, taskVars, inputVars, netVars
    <3>4. CASE DropClient
      BY <3>4 DEF DropClient, taskVars, inputVars, netVars
    <3>5. CASE CancelFinish
      BY <3>5, RemoveAtType DEF CancelFinish, taskVars, netVars
    <3>6. CASE CancelDetaches
      BY <3>6 DEF CancelDetaches, taskVars, inputVars, netVars
    <3> QED
      BY <2>4, <3>1, <3>2, <3>3, <3>4, <3>5, <3>6 DEF OwnerNext
  <2>5. CASE NetNext
    <3>1. CASE ServerReads
      BY <3>1, LenProperties DEF ServerReads, taskVars, inputVars, ownerVars
    <3>2. CASE LinkBreaks
      <4> PICK n \in 0 .. Len(inbox) : inbox' = SubSeq(inbox, 1, n)
        BY <3>2 DEF LinkBreaks
      <4>1. inbox' \in Seq(Replies) /\ Len(inbox') = n
        BY SubSeqProperties, LenProperties
      <4>2. Len(inbox') <= NetCapacity
        BY <4>1, LenProperties
      <4> QED
        BY <3>2, <4>1, <4>2 DEF LinkBreaks, taskVars, inputVars, ownerVars
    <3>3. ASSUME NEW m \in Replies, ServerReplies(m) PROVE TypeOK'
      <4>1. Append(inbox, m) \in Seq(Replies) /\ Len(Append(inbox, m)) = Len(inbox) + 1
        BY AppendProperties
      <4>2. Len(Append(inbox, m)) <= NetCapacity
        BY <3>3, <4>1, LenProperties DEF ServerReplies
      <4> QED
        BY <3>3, <4>1, <4>2 DEF ServerReplies, taskVars, inputVars, ownerVars
    <3> QED
      BY <2>5, <3>1, <3>2, <3>3 DEF NetNext
  <2>6. CASE UNCHANGED vars
    BY <2>6 DEF vars, taskVars, inputVars, ownerVars, netVars
  <2> QED
    BY <2>1, <2>2, <2>3, <2>4, <2>5, <2>6 DEF Next
<1> QED
  BY <1>1, <1>2, PTL DEF Spec

-----------------------------------------------------------------------------
(* The upload: every accepted chunk, in order *)

\* The elements that stay when one is taken out.
LEMMA RemoveAtElements ==
    ASSUME NEW S, NEW s \in Seq(S), NEW i \in DOMAIN s
    PROVE  \A k \in DOMAIN RemoveAt(s, i) :
              RemoveAt(s, i)[k] = IF k < i THEN s[k] ELSE s[k + 1]
<1> DEFINE a == SubSeq(s, 1, i - 1)
           b == SubSeq(s, i + 1, Len(s))
<1>1. i \in 1 .. Len(s) /\ Len(s) \in Nat
  BY LenProperties
<1>2. /\ a \in Seq(S) /\ Len(a) = i - 1
      /\ \A k \in 1 .. i - 1 : a[k] = s[k]
  <2>1. \A k \in 1 .. i - 1 : s[k] \in S
    BY <1>1, ElementOfSeq
  <2> QED
    BY <1>1, <2>1, SubSeqProperties
<1>3. /\ b \in Seq(S) /\ Len(b) = Len(s) - i
      /\ \A k \in 1 .. Len(s) - i : b[k] = s[k + i]
  <2>1. \A k \in i + 1 .. Len(s) : s[k] \in S
    BY <1>1, ElementOfSeq
  <2>2. /\ b \in Seq(S) /\ Len(b) = IF i + 1 <= Len(s) THEN Len(s) - (i + 1) + 1 ELSE 0
        /\ \A k \in 1 .. Len(s) - (i + 1) + 1 : b[k] = s[(i + 1) + k - 1]
    <3>1. i + 1 \in Int /\ Len(s) \in Int
      BY <1>1
    <3> QED
      BY <2>1, <3>1, SubSeqProperties
  <2> QED
    BY <1>1, <2>2
<1> HIDE DEF a, b
<1>4. /\ Len(a \o b) = Len(s) - 1
      /\ \A k \in 1 .. Len(s) - 1 : (a \o b)[k] = IF k <= i - 1 THEN a[k] ELSE b[k - (i - 1)]
  <2>1. a \in Seq(S) /\ b \in Seq(S)
    BY <1>2, <1>3
  <2>2. /\ Len(a \o b) = Len(a) + Len(b)
        /\ \A k \in 1 .. Len(a) + Len(b) :
              (a \o b)[k] = IF k <= Len(a) THEN a[k] ELSE b[k - Len(a)]
    BY <2>1, ConcatProperties
  <2>3. Len(a) = i - 1 /\ Len(a) + Len(b) = Len(s) - 1
    BY <1>1, <1>2, <1>3
  <2> QED
    BY <2>2, <2>3
<1>5. ASSUME NEW k \in 1 .. Len(s) - 1
      PROVE  (a \o b)[k] = IF k < i THEN s[k] ELSE s[k + 1]
  <2>1. CASE k < i
    BY <1>1, <1>2, <1>4, <2>1
  <2>2. CASE ~(k < i)
    <3>1. k - (i - 1) \in 1 .. Len(s) - i /\ (k - (i - 1)) + i = k + 1
      BY <1>1, <2>2
    <3>2. b[k - (i - 1)] = s[k + 1]
      BY <1>3, <3>1
    <3> QED
      BY <1>1, <1>4, <2>2, <3>2
  <2> QED
    BY <2>1, <2>2
<1>6. RemoveAt(s, i) = a \o b
  BY DEF RemoveAt, a, b
<1>7. DOMAIN (a \o b) = 1 .. Len(s) - 1
  BY <1>2, <1>3, <1>4, ConcatProperties, LenProperties
<1> QED
  BY <1>5, <1>6, <1>7

\* Appending to the last part of a concatenation appends to the whole.
LEMMA AppendToQueue ==
    ASSUME NEW S, NEW a \in Seq(S), NEW c \in Seq(S), NEW e \in S
    PROVE  a \o Append(c, e) = Append(a \o c, e)
<1>1. a \o c \in Seq(S) /\ <<e>> \in Seq(S)
  BY ConcatProperties
<1>2. (a \o c) \o <<e>> = a \o (c \o <<e>>)
  BY <1>1, ConcatAssociative
<1> QED
  BY <1>1, <1>2, AppendIsConcat

\* Taking the head moves it from the last part of a concatenation to the middle.
LEMMA TakeFromQueue ==
    ASSUME NEW S, NEW a \in Seq(S), NEW c \in Seq(S), NEW e \in S
    PROVE  a \o (<<e>> \o c) = (a \o <<e>>) \o c
<1>1. <<e>> \in Seq(S)
  OBVIOUS
<1> QED
  BY <1>1, ConcatAssociative

\* What the task holds, if anything, is one command.
LEMMA SingletonSeq ==
    ASSUME NEW S, NEW s \in Seq(S), Len(s) <= 1, s # <<>>
    PROVE  \E e \in S : s = <<e>>
<1>1. Len(s) \in Nat /\ Len(s) # 0
  BY LenProperties, EmptySeq
<1>2. Len(s) = 1
  <2>1. Len(s) <= 1
    OBVIOUS
  <2>2. \A n \in Nat : n # 0 /\ n <= 1 => n = 1
    OBVIOUS
  <2> QED
    BY ONLY <1>1, <2>1, <2>2, Zenon
<1>3. s[1] \in S
  BY <1>2, ElementOfSeq
<1>4. <<s[1]>> \in Seq(S) /\ Len(<<s[1]>>) = 1 /\ <<s[1]>>[1] = s[1]
  BY <1>3
<1>5. s = <<s[1]>>
  <2>1. Len(s) = Len(<<s[1]>>)
    BY <1>2, <1>4
  <2>2. \A i \in 1 .. Len(s) : s[i] = <<s[1]>>[i]
    BY <1>2, <1>4
  <2>3. s \in Seq(S) /\ <<s[1]>> \in Seq(S)
    BY <1>4
  <2> QED
    BY ONLY <2>1, <2>2, <2>3, SeqEqual
<1> QED
  BY <1>3, <1>5

\* The first part of a concatenation is a prefix of it.
LEMMA PrefixOfConcat ==
    ASSUME NEW S, NEW a \in Seq(S), NEW b \in Seq(S)
    PROVE  IsPrefix(a, a \o b)
<1>1. /\ a \o b \in Seq(S) /\ Len(a \o b) = Len(a) + Len(b)
      /\ Len(a) \in Nat /\ Len(b) \in Nat
      /\ \A i \in 1 .. Len(a) : (a \o b)[i] = a[i] /\ a[i] \in S
  BY ConcatProperties, LenProperties, ElementOfSeq
<1>2. SubSeq(a, 1, Len(a)) \in Seq(S) /\ Len(SubSeq(a, 1, Len(a))) = Len(a)
      /\ \A i \in 1 .. Len(a) : SubSeq(a, 1, Len(a))[i] = a[i]
  BY <1>1, SubSeqProperties
<1>3. SubSeq(a \o b, 1, Len(a)) \in Seq(S) /\ Len(SubSeq(a \o b, 1, Len(a))) = Len(a)
      /\ \A i \in 1 .. Len(a) : SubSeq(a \o b, 1, Len(a))[i] = a[i]
  BY <1>1, SubSeqProperties
<1>4. SubSeq(a, 1, Len(a)) = SubSeq(a \o b, 1, Len(a))
  BY <1>1, <1>2, <1>3, SeqEqual
<1> QED
  BY <1>1, <1>4 DEF IsPrefix

\* The task ends, wherever it was, and leaves the rest alone.
LEMMA UploadSurvivesEnd ==
    ASSUME TypeOK, UploadInv, pc' = "done", UNCHANGED <<hand, wire, inputVars, ownerVars>>
    PROVE  UploadInv'
<1>1. pc \in AwaitPoints \cup {"done"}
  BY DEF TypeOK
<1>2. HandMatchesPc'
  BY <1>1 DEF UploadInv, HandMatchesPc, NoFinish, AwaitPoints
<1>3. SpeechConserved' /\ NoneIsFinal' /\ WaitersAlive' /\ FinishIsLast'
  BY DEF UploadInv, SpeechConserved, NoneIsFinal, WaitersAlive, FinishIsLast,
         SenderAlive, inputVars, ownerVars
<1> QED
  BY <1>2, <1>3 DEF UploadInv

\* Only what the upload is about matters.
LEMMA UploadSurvivesOthers ==
    ASSUME UploadInv, UNCHANGED <<pc, hand, wire, queue, waiting, submitted, owner, holders>>
    PROVE  UploadInv'
BY DEF UploadInv, SpeechConserved, NoneIsFinal, WaitersAlive, FinishIsLast,
       SenderAlive, HandMatchesPc, NoFinish

\* When a wait ends, the other waits go on holding their senders.
LEMMA WaitersAliveAfterRemoval ==
    ASSUME waiting \in Seq(Message), WaitersAlive, NEW i \in DOMAIN waiting,
           waiting' = RemoveAt(waiting, i), UNCHANGED holders,
           waiting[i] # Finish => owner' = owner
    PROVE  WaitersAlive'
<1> DEFINE old(k) == IF k < i THEN k ELSE k + 1
<1>1. /\ Len(waiting) \in Nat /\ i \in 1 .. Len(waiting)
      /\ DOMAIN waiting = 1 .. Len(waiting) /\ DOMAIN waiting' = 1 .. Len(waiting) - 1
  BY RemoveAtType, LenProperties
<1>2. \A k \in DOMAIN waiting' :
         old(k) \in DOMAIN waiting /\ old(k) # i /\ waiting'[k] = waiting[old(k)]
  BY <1>1, RemoveAtElements
<1>3. \A j, k \in DOMAIN waiting' : old(j) = old(k) => j = k
  BY <1>1
<1> HIDE DEF old
<1>4. \A k \in DOMAIN waiting' : waiting'[k] = Finish => waiting[i] # Finish
  BY <1>2 DEF WaitersAlive
<1>5. \A k \in DOMAIN waiting' :
         IF waiting'[k] = Finish THEN owner' = "finishSend" ELSE waiting'[k].from \in holders'
  BY <1>2, <1>4 DEF WaitersAlive
<1>6. \A j, k \in DOMAIN waiting' : waiting'[j] = Finish /\ waiting'[k] = Finish => j = k
  BY <1>2, <1>3 DEF WaitersAlive
<1> QED
  BY <1>5, <1>6 DEF WaitersAlive

\* A step of the task preserves the upload.
LEMMA UploadTaskStep ==
    ASSUME TypeOK, UploadInv, TaskNext
    PROVE  UploadInv'
<1> USE DEF UploadInv
<1>0. /\ wire \in Seq(Message) /\ hand \in Seq(Message) /\ queue \in Seq(Message)
      /\ submitted \in Seq(Message) /\ Len(hand) <= 1
  BY DEF TypeOK
<1>1. CASE HandshakeSucceeds \/ SendStart
  <2>1. UNCHANGED <<hand, wire, inputVars, ownerVars>> /\ pc \in {"handshake", "start"}
        /\ pc' \in {"start", "select"}
    BY <1>1 DEF HandshakeSucceeds, SendStart, netVars
  <2>2. HandMatchesPc'
    BY <2>1 DEF HandMatchesPc, NoFinish
  <2> QED
    BY <2>1, <2>2 DEF SpeechConserved, NoneIsFinal, WaitersAlive, FinishIsLast,
       SenderAlive, inputVars, ownerVars
<1>2. CASE \/ HandshakeFails \/ StartFails \/ SendAudioFails \/ SendFinishFails
           \/ StreamEnds \/ FinalTimeout \/ CloseSocket \/ TaskAborted
  <2>1. pc' = "done" /\ UNCHANGED <<hand, wire, inputVars, ownerVars>>
    BY <1>2 DEF HandshakeFails, StartFails, SendAudioFails, SendFinishFails, StreamEnds,
       FinalTimeout, CloseSocket, TaskAborted, TaskReturns
  <2> QED
    BY <2>1, UploadSurvivesEnd
<1>3. CASE TakeCommand
  <2>1. /\ hand = <<>> /\ NoFinish(wire) /\ pc = "select"
        /\ submitted = wire \o hand \o queue
    BY <1>3 DEF TakeCommand, HandMatchesPc, NoneIsFinal
  <2>2. Head(queue) \in Message /\ Tail(queue) \in Seq(Message)
    BY <1>0, <1>3, HeadTailProperties DEF TakeCommand
  <2>3. submitted = (wire \o <<Head(queue)>>) \o Tail(queue)
    <3>1. queue = <<Head(queue)>> \o Tail(queue)
      BY <1>0, <1>3 DEF TakeCommand
    <3>2. wire \o hand = wire
      BY <1>0, <2>1, ConcatEmptySeq
    <3>3. wire \o (<<Head(queue)>> \o Tail(queue)) = (wire \o <<Head(queue)>>) \o Tail(queue)
      <4>1. wire \in Seq(Message)
        BY <1>0
      <4> HIDE DEF UploadInv
      <4> QED
        BY ONLY <2>2, <4>1, TakeFromQueue
    <3> QED
      BY <2>1, <3>1, <3>2, <3>3
  <2>4. hand' = <<Head(queue)>> /\ queue' = Tail(queue) /\ wire' = wire /\ submitted' = submitted
    BY <1>3 DEF TakeCommand, netVars
  <2>5. SpeechConserved' /\ NoneIsFinal'
    BY <2>3, <2>4 DEF SpeechConserved, NoneIsFinal
  <2>6. HandMatchesPc'
    <3>1. CASE Head(queue) = Finish
      BY <1>3, <2>1, <2>4, <3>1 DEF TakeCommand, HandMatchesPc, NoFinish
    <3>2. CASE Head(queue) # Finish
      <4>1. NoFinish(hand')
        BY <2>4, <3>2 DEF NoFinish
      <4>2. pc' = "sending" /\ hand' # <<>>
        BY <1>3, <2>4, <3>2 DEF TakeCommand
      <4> QED
        BY <2>1, <2>4, <4>1, <4>2 DEF HandMatchesPc, NoFinish
    <3> QED
      BY <3>1, <3>2
  <2> QED
    BY <1>3, <2>4, <2>5, <2>6 DEF TakeCommand, WaitersAlive, FinishIsLast, ownerVars
<1>4. CASE TakeNone
  <2>1. /\ hand = <<>> /\ queue = <<>> /\ NoFinish(wire) /\ pc = "select" /\ ~SenderAlive
        /\ submitted = wire \o hand \o queue
    BY <1>4 DEF TakeNone, HandMatchesPc, NoneIsFinal
  <2>2. submitted = wire
    BY <1>0, <2>1, ConcatEmptySeq
  <2>3. /\ hand' = <<Finish>> /\ pc' = "sendFinish"
        /\ UNCHANGED <<queue, wire, submitted, waiting, owner, holders>>
    BY <1>4 DEF TakeNone, inputVars, ownerVars, netVars
  <2>4. Append(submitted', Finish) = wire' \o hand'
    BY <1>0, <2>2, <2>3, MessageType, AppendIsConcat
  <2>5. SpeechConserved' /\ NoneIsFinal'
    BY <2>1, <2>3, <2>4 DEF SpeechConserved, NoneIsFinal, SenderAlive
  <2>6. HandMatchesPc'
    BY <2>1, <2>3 DEF HandMatchesPc, NoFinish
  <2> QED
    BY <2>3, <2>5, <2>6 DEF WaitersAlive, FinishIsLast
<1>5. CASE SendCommand
  <2>1. /\ wire' = wire \o hand /\ hand' = <<>> /\ NoFinish(wire)
        /\ UNCHANGED <<queue, submitted, waiting, owner, holders>>
    BY <1>5 DEF SendCommand, HandMatchesPc, inputVars, ownerVars
  <2>2. wire' \in Seq(Message) /\ wire' \o hand' = wire \o hand
    BY <1>0, <2>1, ConcatProperties, ConcatEmptySeq
  <2>3. SpeechConserved'
    BY <2>1, <2>2 DEF SpeechConserved
  <2>4. NoneIsFinal'
    <3>1. pc = "sending" => submitted' = wire' \o hand' \o queue'
      BY <2>1, <2>2 DEF NoneIsFinal
    <3>2. pc # "sending" => pc' = "awaitFinal"
      BY <1>5 DEF SendCommand
    <3> QED
      BY <2>1, <2>2, <3>1, <3>2 DEF NoneIsFinal, SenderAlive
  <2>5. /\ Len(wire') = Len(wire) + Len(hand)
        /\ \A i \in 1 .. Len(wire) + Len(hand) :
              wire'[i] = IF i <= Len(wire) THEN wire[i] ELSE hand[i - Len(wire)]
    BY <1>0, <2>1, ConcatProperties
  <2>6. DOMAIN wire' = 1 .. Len(wire) + Len(hand) /\ DOMAIN wire = 1 .. Len(wire)
        /\ DOMAIN hand = 1 .. Len(hand) /\ Len(wire) \in Nat /\ Len(hand) \in Nat
    BY <1>0, <2>2, <2>5, LenProperties
  <2>7. FinishIsLast'
    <3> SUFFICES ASSUME NEW i \in DOMAIN wire', wire'[i] = Finish PROVE i = Len(wire')
      BY DEF FinishIsLast
    <3>1. i > Len(wire)
      BY <2>1, <2>5, <2>6 DEF NoFinish
    <3> QED
      BY <1>0, <2>5, <2>6, <3>1
  <2>8. HandMatchesPc'
    <3>1. CASE pc = "sending"
      <4>1. NoFinish(hand) /\ pc' = "select"
        BY <1>5, <3>1 DEF SendCommand, HandMatchesPc
      <4>2. NoFinish(wire')
        <5> SUFFICES ASSUME NEW i \in DOMAIN wire' PROVE wire'[i] # Finish
          BY DEF NoFinish
        <5>1. CASE i <= Len(wire)
          BY <2>1, <2>5, <2>6, <5>1 DEF NoFinish
        <5>2. CASE i > Len(wire)
          <6>1. i - Len(wire) \in DOMAIN hand
            BY <2>6, <5>2
          <6> QED
            BY <2>5, <2>6, <4>1, <5>2, <6>1 DEF NoFinish
        <5> QED
          BY <2>6, <5>1, <5>2
      <4> QED
        BY <2>1, <4>1, <4>2 DEF HandMatchesPc
    <3>2. CASE pc = "sendFinish"
      BY <1>5, <2>1, <3>2 DEF SendCommand, HandMatchesPc
    <3> QED
      BY <1>5, <3>1, <3>2 DEF SendCommand
  <2> QED
    BY <2>1, <2>3, <2>4, <2>7, <2>8 DEF WaitersAlive
<1>6. CASE Incoming
  <2>1. UNCHANGED <<hand, wire, inputVars, ownerVars>> /\ pc \in {"select", "awaitFinal"}
    BY <1>6 DEF Incoming
  <2>2. \/ pc' = "done" \/ pc' = pc \/ (pc = "awaitFinal" /\ pc' = "closing")
    BY <1>6 DEF Incoming, TaskReturns
  <2>3. CASE pc' = "done"
    BY <2>1, <2>3, UploadSurvivesEnd
  <2>4. CASE pc' = pc
    BY <2>1, <2>4, UploadSurvivesOthers DEF inputVars, ownerVars
  <2>5. CASE pc = "awaitFinal" /\ pc' = "closing"
    <3>1. HandMatchesPc'
      BY <2>1, <2>5 DEF HandMatchesPc
    <3> QED
      BY <2>1, <2>5, <3>1 DEF SpeechConserved, NoneIsFinal, WaitersAlive, FinishIsLast,
         SenderAlive, inputVars, ownerVars
  <2> QED
    BY <2>2, <2>3, <2>4, <2>5
<1> QED
  BY <1>1, <1>2, <1>3, <1>4, <1>5, <1>6 DEF TaskNext

\* A step of a sender preserves the upload.
LEMMA UploadSenderStep ==
    ASSUME TypeOK, UploadInv, (\E p \in Producers : ProducerNext(p)) \/ WaitNext
    PROVE  UploadInv'
<1> USE DEF UploadInv
<1>0. /\ wire \in Seq(Message) /\ hand \in Seq(Message) /\ queue \in Seq(Message)
      /\ submitted \in Seq(Message) /\ waiting \in Seq(Message)
      /\ made \in [Producers -> 0 .. MaxChunks]
  BY DEF TypeOK
<1>1. ASSUME NEW m \in Message, pc # "done", SenderAlive,
             queue' = Append(queue, m), submitted' = Append(submitted, m),
             UNCHANGED <<pc, hand, wire>>
      PROVE  SpeechConserved' /\ NoneIsFinal' /\ HandMatchesPc' /\ FinishIsLast'
  <2>1. submitted = wire \o hand \o queue
    BY <1>1 DEF NoneIsFinal
  <2>2. wire \o hand \o Append(queue, m) = Append(wire \o hand \o queue, m)
    <3>1. /\ wire \in Seq(Message) /\ hand \in Seq(Message) /\ queue \in Seq(Message)
          /\ m \in Message
      BY <1>0, <1>1
    <3>2. wire \o hand \in Seq(Message)
      BY ONLY <3>1, ConcatProperties
    <3> QED
      BY ONLY <3>1, <3>2, AppendToQueue
  <2>3. submitted' = wire' \o hand' \o queue'
    BY <1>1, <2>1, <2>2
  <2> QED
    BY <1>1, <2>3 DEF SpeechConserved, NoneIsFinal, HandMatchesPc, FinishIsLast, NoFinish
<1>2. ASSUME NEW m \in Message, waiting' = Append(waiting, m), m # Finish,
             m.from \in holders, UNCHANGED <<owner, holders>>
      PROVE  WaitersAlive'
  <2>1. /\ DOMAIN waiting' = 1 .. Len(waiting) + 1 /\ DOMAIN waiting = 1 .. Len(waiting)
        /\ Len(waiting) \in Nat /\ waiting'[Len(waiting) + 1] = m
        /\ \A i \in 1 .. Len(waiting) : waiting'[i] = waiting[i]
    BY <1>0, <1>2, AppendProperties, LenProperties
  <2> QED
    BY <1>2, <2>1 DEF WaitersAlive
<1>3. CASE \E p \in Producers : ProducerNext(p)
  <2> SUFFICES ASSUME NEW p \in Producers, ProducerNext(p) PROVE UploadInv'
    BY <1>3
  <2>1. ASSUME MakesChunk(p)
        PROVE  /\ Audio(p, made[p] + 1) \in Message /\ Audio(p, made[p] + 1) # Finish
               /\ Audio(p, made[p] + 1).from \in holders
    <3>1. made[p] + 1 \in 0 .. MaxChunks
      BY <1>0, <2>1, BoundsAssumption DEF MakesChunk
    <3> QED
      BY <2>1, <3>1, MessageType DEF MakesChunk, Audio
  <2>2. CASE TrySendAccepted(p)
    <3>1. SenderAlive /\ UNCHANGED <<pc, hand, wire, waiting, owner, holders>>
      BY <2>2 DEF TrySendAccepted, MakesChunk, SenderAlive, taskVars, ownerVars, netVars
    <3>2. SpeechConserved' /\ NoneIsFinal' /\ HandMatchesPc' /\ FinishIsLast'
      BY <1>1, <2>1, <2>2, <3>1 DEF TrySendAccepted
    <3> QED
      BY <3>1, <3>2 DEF WaitersAlive
  <2>3. CASE TrySendRefused(p)
    BY <2>3, UploadSurvivesOthers DEF TrySendRefused, taskVars, ownerVars, netVars
  <2>4. CASE SendWaits(p)
    <3>1. UNCHANGED <<pc, hand, wire, queue, submitted, owner, holders>>
      BY <2>4 DEF SendWaits, taskVars, ownerVars, netVars
    <3>2. WaitersAlive'
      <4>1. MakesChunk(p) /\ waiting' = Append(waiting, Audio(p, made[p] + 1))
        BY <2>4 DEF SendWaits
      <4> QED
        BY <1>2, <2>1, <3>1, <4>1
    <3> QED
      BY <3>1, <3>2 DEF SpeechConserved, NoneIsFinal, HandMatchesPc, FinishIsLast,
         NoFinish, SenderAlive
  <2>5. CASE CloneInput(p)
    <3>1. /\ UNCHANGED <<pc, hand, wire, queue, submitted, waiting, owner>>
          /\ SenderAlive /\ SenderAlive' /\ holders \subseteq holders'
      BY <2>5 DEF CloneInput, SenderAlive, taskVars, inputVars, netVars
    <3> QED
      BY <3>1 DEF SpeechConserved, NoneIsFinal, HandMatchesPc, FinishIsLast, NoFinish,
         WaitersAlive
  <2>6. CASE DropInput(p)
    <3>1. /\ UNCHANGED <<pc, hand, wire, queue, submitted, waiting, owner>>
          /\ ~SenderAlive => ~SenderAlive'
      BY <2>6 DEF DropInput, SenderAlive, taskVars, inputVars, netVars
    <3>2. WaitersAlive'
      BY <2>6, <3>1 DEF DropInput, IsWaiting, WaitersAlive
    <3> QED
      BY <3>1, <3>2 DEF SpeechConserved, NoneIsFinal, HandMatchesPc, FinishIsLast, NoFinish
  <2> QED
    BY <2>2, <2>3, <2>4, <2>5, <2>6 DEF ProducerNext
<1>4. CASE WaitNext
  <2> SUFFICES ASSUME NEW i \in DOMAIN waiting, WaitingPushes(i) \/ WaitingFails(i)
               PROVE  UploadInv'
    BY <1>4 DEF WaitNext
  <2>1. waiting[i] \in Message
    BY <1>0, LenProperties, ElementOfSeq
  <2>2. /\ waiting' = RemoveAt(waiting, i) /\ AfterWait(i)
        /\ UNCHANGED <<pc, hand, wire, holders>>
    BY DEF WaitingPushes, WaitingFails, taskVars, netVars
  <2>3. WaitersAlive'
    BY <1>0, <2>2, WaitersAliveAfterRemoval DEF AfterWait
  <2>4. SenderAlive
    BY DEF WaitersAlive, SenderAlive
  <2>5. ~SenderAlive => ~SenderAlive'
    BY <2>4
  <2>6. CASE WaitingPushes(i)
    BY <1>1, <2>1, <2>2, <2>3, <2>4, <2>6 DEF WaitingPushes
  <2>7. CASE WaitingFails(i)
    <3>1. UNCHANGED <<queue, submitted>>
      BY <2>7 DEF WaitingFails
    <3> QED
      BY <2>2, <2>3, <2>4, <3>1 DEF SpeechConserved, NoneIsFinal, HandMatchesPc,
         FinishIsLast, NoFinish
  <2> QED
    BY <2>6, <2>7
<1> QED
  BY <1>3, <1>4

\* A step of the owner preserves the upload.
LEMMA UploadOwnerStep ==
    ASSUME TypeOK, UploadInv, OwnerNext
    PROVE  UploadInv'
<1> USE DEF UploadInv
<1>0. waiting \in Seq(Message)
  BY DEF TypeOK
<1>1. UNCHANGED <<pc, hand, wire, queue, submitted, holders>>
  BY DEF OwnerNext, ConnectReturns, CallFinish, FinishReturns, DropClient, CancelFinish,
     CancelDetaches, taskVars, inputVars, netVars
<1>2. ~SenderAlive => ~SenderAlive'
  BY <1>1 DEF OwnerNext, ConnectReturns, CallFinish, FinishReturns, DropClient,
     CancelFinish, CancelDetaches, SenderAlive
<1>3. WaitersAlive'
  <2>1. CASE CallFinish
    <3>1. /\ DOMAIN waiting' = 1 .. Len(waiting) + 1 /\ DOMAIN waiting = 1 .. Len(waiting)
          /\ Len(waiting) \in Nat /\ waiting'[Len(waiting) + 1] = Finish
          /\ \A i \in 1 .. Len(waiting) : waiting'[i] = waiting[i]
      BY <1>0, <2>1, MessageType, AppendProperties, LenProperties DEF CallFinish
    <3>2. \A i \in DOMAIN waiting : waiting[i] # Finish
      BY <2>1 DEF CallFinish, WaitersAlive
    <3> QED
      BY <1>1, <2>1, <3>1, <3>2 DEF CallFinish, WaitersAlive
  <2>2. CASE CancelFinish
    <3> PICK i \in DOMAIN waiting : waiting[i] = Finish /\ waiting' = RemoveAt(waiting, i)
      BY <2>2 DEF CancelFinish
    <3> QED
      BY <1>0, <1>1, WaitersAliveAfterRemoval
  <2>3. CASE ConnectReturns \/ FinishReturns \/ DropClient \/ CancelDetaches
    <3>1. waiting' = waiting /\ owner # "finishSend"
      BY <2>3 DEF ConnectReturns, FinishReturns, DropClient, CancelDetaches, inputVars
    <3> QED
      BY <1>1, <3>1 DEF WaitersAlive
  <2> QED
    BY <2>1, <2>2, <2>3 DEF OwnerNext
<1> QED
  BY <1>1, <1>2, <1>3 DEF SpeechConserved, NoneIsFinal, HandMatchesPc, FinishIsLast, NoFinish

\* The upload invariant: between the moment try_send or send accepts a chunk and
\* the moment the socket accepts it, none is lost, repeated or overtaken.
THEOREM UploadCorrect == Spec => []UploadInv
<1>1. Init => UploadInv
  BY DEF Init, UploadInv, SpeechConserved, NoneIsFinal, HandMatchesPc, WaitersAlive,
     FinishIsLast, NoFinish
<1>2. TypeOK /\ UploadInv /\ [Next]_vars => UploadInv'
  <2> SUFFICES ASSUME TypeOK, UploadInv, [Next]_vars PROVE UploadInv'
    OBVIOUS
  <2>1. CASE NetNext
    <3>1. UNCHANGED <<pc, hand, wire, queue, waiting, submitted, owner, holders>>
      BY <2>1 DEF NetNext, ServerReads, LinkBreaks, ServerReplies, taskVars, inputVars,
         ownerVars
    <3> QED
      BY <3>1, UploadSurvivesOthers
  <2>2. CASE UNCHANGED vars
    BY <2>2, UploadSurvivesOthers DEF vars, taskVars, inputVars, ownerVars, netVars
  <2> QED
    BY <2>1, <2>2, UploadTaskStep, UploadSenderStep, UploadOwnerStep DEF Next
<1> QED
  BY <1>1, <1>2, TypeCorrect, PTL DEF Spec

\* The wire is a prefix of what the queue accepted, but for the FinishMessage
\* that follows the loss of the last sender.
THEOREM UploadOrder == Spec => []UploadInOrder
<1>1. TypeOK /\ UploadInv => UploadInOrder
  <2> SUFFICES ASSUME TypeOK, UploadInv PROVE UploadInOrder
    OBVIOUS
  <2>1. /\ wire \in Seq(Message) /\ hand \in Seq(Message) /\ queue \in Seq(Message)
        /\ submitted \in Seq(Message) /\ Len(hand) <= 1
    BY DEF TypeOK
  <2>2. CASE submitted = wire \o hand \o queue
    <3>1. hand \o queue \in Seq(Message) /\ submitted = wire \o (hand \o queue)
      <4>1. hand \o queue \in Seq(Message)
        BY <2>1, ConcatProperties
      <4>2. (wire \o hand) \o queue = wire \o (hand \o queue)
        <5>1. wire \in Seq(Message) /\ hand \in Seq(Message) /\ queue \in Seq(Message)
          BY <2>1
        <5> QED
          BY ONLY <5>1, ConcatAssociative
      <4> QED
        BY <2>2, <4>1, <4>2
    <3>2. IsPrefix(wire, submitted)
      BY <2>1, <3>1, PrefixOfConcat
    <3> QED
      BY <3>2 DEF UploadInOrder
  <2>3. CASE Append(submitted, Finish) = wire \o hand
    <3>1. CASE hand = <<>>
      BY <2>1, <2>3, <3>1, ConcatEmptySeq DEF UploadInOrder
    <3>2. CASE hand # <<>>
      <4>1. PICK m \in Message : hand = <<m>>
        BY <2>1, <3>2, SingletonSeq
      <4>2. Append(submitted, Finish) = Append(wire, m)
        BY <2>1, <2>3, <4>1, AppendIsConcat
      <4>3. submitted = wire
        BY <2>1, <4>2, MessageType, AppendInjective
      <4>4. IsPrefix(wire, submitted)
        BY <2>1, <4>3, LenProperties DEF IsPrefix
      <4> QED
        BY <4>4 DEF UploadInOrder
    <3> QED
      BY <3>1, <3>2
  <2> QED
    BY <2>2, <2>3 DEF UploadInv, SpeechConserved
<1> QED
  BY <1>1, TypeCorrect, UploadCorrect, PTL

\* Every accepted message is on the wire, in the task's hand or in the queue, in this order.
THEOREM SpeechKept == Spec => []SpeechConserved
<1>1. UploadInv => SpeechConserved
  BY DEF UploadInv
<1> QED
  BY <1>1, UploadCorrect, PTL

\* Nothing follows the FinishMessage on the wire.
THEOREM FinishOrder == Spec => []FinishIsLast
<1>1. UploadInv => FinishIsLast
  BY DEF UploadInv
<1> QED
  BY <1>1, UploadCorrect, PTL

\* After the end of the task nothing is accepted, sent, emitted or returned.
THEOREM EndTheorem == Spec => EndIsFinal
<1>1. [Next]_vars => (pc = "done" => UNCHANGED <<pc, wire, events, result, submitted>>)
  <2> SUFFICES ASSUME [Next]_vars, pc = "done"
               PROVE  UNCHANGED <<pc, wire, events, result, submitted>>
    OBVIOUS
  <2>1. ~TaskNext
    BY DEF TaskNext, HandshakeSucceeds, HandshakeFails, SendStart, StartFails, TakeCommand,
       TakeNone, SendCommand, SendAudioFails, SendFinishFails, Incoming, StreamEnds,
       FinalTimeout, CloseSocket, TaskAborted
  <2>2. CASE \E p \in Producers : ProducerNext(p)
    BY <2>2 DEF ProducerNext, TrySendAccepted, TrySendRefused, SendWaits, CloneInput,
       DropInput, taskVars, inputVars, netVars
  <2>3. CASE WaitNext
    BY <2>3 DEF WaitNext, WaitingPushes, WaitingFails, taskVars, netVars
  <2>4. CASE OwnerNext
    BY <2>4 DEF OwnerNext, ConnectReturns, CallFinish, FinishReturns, DropClient,
       CancelFinish, CancelDetaches, taskVars, inputVars, netVars
  <2>5. CASE NetNext
    BY <2>5 DEF NetNext, ServerReads, LinkBreaks, ServerReplies, taskVars, inputVars
  <2>6. CASE UNCHANGED vars
    BY <2>6 DEF vars, taskVars, inputVars, netVars
  <2> QED
    BY <2>1, <2>2, <2>3, <2>4, <2>5, <2>6 DEF Next
<1> QED
  BY <1>1, PTL DEF Spec, EndIsFinal
-----------------------------------------------------------------------------
(* The event stream, its agreement with the task's result, and the         *)
(* refinement of TranscriptSession                                         *)

ResultKinds == {"Partial", "Final"}

\* One more event after results: it is the last, and the only one that may be
\* terminal.
LEMMA ExtendStream ==
    ASSUME NEW s \in Seq(ResultKinds), NEW e \in EventKinds
    PROVE  /\ Append(s, e) # <<>> /\ Append(s, e)[Len(Append(s, e))] = e
           /\ \A i \in DOMAIN Append(s, e) :
                 Append(s, e)[i] \in Terminal => i = Len(Append(s, e))
<1>1. s \in Seq(EventKinds)
  BY SeqMonotonic DEF ResultKinds, EventKinds
<1>2. /\ Append(s, e) \in Seq(EventKinds) /\ Append(s, e) # <<>>
      /\ Len(Append(s, e)) = Len(s) + 1 /\ Len(s) \in Nat
      /\ \A i \in 1 .. Len(s) : Append(s, e)[i] = s[i]
      /\ Append(s, e)[Len(s) + 1] = e
  BY <1>1, AppendProperties, LenProperties
<1>3. DOMAIN Append(s, e) = 1 .. Len(s) + 1
  BY <1>2, LenProperties
<1>4. \A i \in 1 .. Len(s) : s[i] \in ResultKinds
  BY ElementOfSeq
<1>5. \A i \in 1 .. Len(s) : Append(s, e)[i] \notin Terminal
  BY <1>2, <1>4 DEF ResultKinds, Terminal
<1> QED
  BY <1>2, <1>3, <1>5

\* A pair is the concatenation of its halves.
LEMMA PairIsConcat ==
    ASSUME NEW S, NEW e \in S, NEW f \in S
    PROVE  <<e>> \o <<f>> = <<e, f>>
<1>1. /\ <<e>> \in Seq(S) /\ <<f>> \in Seq(S) /\ <<e, f>> \in Seq(S)
      /\ Len(<<e>>) = 1 /\ Len(<<f>>) = 1 /\ Len(<<e, f>>) = 2
      /\ <<e>>[1] = e /\ <<f>>[1] = f /\ <<e, f>>[1] = e /\ <<e, f>>[2] = f
  OBVIOUS
<1>2. /\ <<e>> \o <<f>> \in Seq(S) /\ Len(<<e>> \o <<f>>) = 2
      /\ \A i \in 1 .. 2 : (<<e>> \o <<f>>)[i] = IF i <= 1 THEN <<e>>[i] ELSE <<f>>[i - 1]
  BY <1>1, ConcatProperties
<1>3. (<<e>> \o <<f>>)[1] = e /\ (<<e>> \o <<f>>)[2] = f
  BY <1>1, <1>2
<1>4. \A i \in 1 .. 2 : (<<e>> \o <<f>>)[i] = <<e, f>>[i]
  <2> SUFFICES ASSUME NEW i \in 1 .. 2 PROVE (<<e>> \o <<f>>)[i] = <<e, f>>[i]
    OBVIOUS
  <2>1. i = 1 \/ i = 2
    OBVIOUS
  <2> QED
    BY <1>1, <1>3, <2>1
<1> QED
  BY <1>1, <1>2, <1>4, SeqEqual

\* Two events at once are one after the other.
LEMMA AppendTwo ==
    ASSUME NEW S, NEW s \in Seq(S), NEW e \in S, NEW f \in S
    PROVE  s \o <<e, f>> = Append(Append(s, e), f)
<1>1. <<e>> \in Seq(S) /\ <<f>> \in Seq(S) /\ <<e>> \o <<f>> = <<e, f>>
  BY PairIsConcat
<1>2. s \o (<<e>> \o <<f>>) = (s \o <<e>>) \o <<f>>
  BY <1>1, ConcatAssociative
<1>3. s \o <<e>> = Append(s, e) /\ Append(s, e) \in Seq(S)
  BY AppendIsConcat, AppendProperties
<1>4. Append(s, e) \o <<f>> = Append(Append(s, e), f)
  BY <1>3, AppendIsConcat
<1> QED
  BY <1>1, <1>2, <1>3, <1>4

\* Results stay results, and they hold nothing terminal.
LEMMA ResultsOnly ==
    ASSUME NEW s \in Seq(ResultKinds)
    PROVE  /\ \A i \in DOMAIN s : s[i] \notin Terminal
           /\ s # <<>> => s[Len(s)] \notin Terminal
<1>1. Len(s) \in Nat /\ DOMAIN s = 1 .. Len(s) /\ \A i \in 1 .. Len(s) : s[i] \in ResultKinds
  BY LenProperties, ElementOfSeq
<1>2. s # <<>> => Len(s) \in 1 .. Len(s)
  BY <1>1, EmptySeq
<1> QED
  BY <1>1, <1>2 DEF ResultKinds, Terminal

\* What handle_incoming emits for each of its verdicts.
LEMMA ReplyCases ==
    ASSUME NEW m
    PROVE  /\ VerdictOf(m) = "continue" =>
                EventsOf(m) \in {<<>>, <<"Partial">>, <<"Final">>}
           /\ VerdictOf(m) = "acknowledged" =>
                EventsOf(m) \in {<<"End">>, <<"Partial", "End">>, <<"Final", "End">>}
           /\ VerdictOf(m) = "Protocol" =>
                EventsOf(m) \in {<<>>, <<"ServerError">>, <<"Partial", "ServerError">>,
                                 <<"Final", "ServerError">>}
           /\ VerdictOf(m) = "Network" => EventsOf(m) = <<"Disconnected">>
<1>1. TextEvents(m) \in {<<>>, <<"Partial">>, <<"Final">>}
  BY DEF TextEvents
<1>2. /\ ~m.is_end => EndEvents(m) = <<>>
      /\ m.is_end /\ m.is_final => EndEvents(m) = <<"End">>
      /\ m.is_end /\ ~m.is_final => EndEvents(m) = <<"ServerError">>
  BY DEF EndEvents
<1>3. /\ <<>> \o <<>> = <<>> /\ <<"Partial">> \o <<>> = <<"Partial">>
      /\ <<"Final">> \o <<>> = <<"Final">>
      /\ <<>> \o <<"End">> = <<"End">> /\ <<>> \o <<"ServerError">> = <<"ServerError">>
  <2>1. \A e \in EventKinds : <<e>> \in Seq(EventKinds)
    OBVIOUS
  <2> QED
    BY <2>1, ConcatEmptySeq, EmptySeq DEF EventKinds
<1>4. /\ <<"Partial">> \o <<"End">> = <<"Partial", "End">>
      /\ <<"Final">> \o <<"End">> = <<"Final", "End">>
      /\ <<"Partial">> \o <<"ServerError">> = <<"Partial", "ServerError">>
      /\ <<"Final">> \o <<"ServerError">> = <<"Final", "ServerError">>
  <2>1. \A e, f \in EventKinds : <<e>> \o <<f>> = <<e, f>>
    BY PairIsConcat
  <2> QED
    BY <2>1 DEF EventKinds
<1>5. CASE m.kind = "text"
  <2>1. CASE m.error
    BY <1>5, <2>1 DEF EventsOf, VerdictOf
  <2>2. CASE ~m.error
    <3>1. EventsOf(m) = TextEvents(m) \o EndEvents(m)
      BY <1>5, <2>2 DEF EventsOf
    <3>2. CASE ~m.is_end
      BY <1>1, <1>2, <1>3, <1>4, <1>5, <2>2, <3>1, <3>2 DEF VerdictOf
    <3>3. CASE m.is_end /\ m.is_final
      BY <1>1, <1>2, <1>3, <1>4, <1>5, <2>2, <3>1, <3>3 DEF VerdictOf
    <3>4. CASE m.is_end /\ ~m.is_final
      BY <1>1, <1>2, <1>3, <1>4, <1>5, <2>2, <3>1, <3>4 DEF VerdictOf
    <3> QED
      BY <3>2, <3>3, <3>4
  <2> QED
    BY <2>1, <2>2
<1>6. CASE m.kind # "text"
  BY <1>6 DEF EventsOf, VerdictOf
<1> QED
  BY <1>5, <1>6

-----------------------------------------------------------------------------
(* What one step does to the stream *)

Quiet ==
    /\ pc \notin {"closing", "done"} /\ pc' \notin {"closing", "done"}
    /\ UNCHANGED <<events, result>>

FailsSilently ==
    /\ pc \notin {"closing", "done"} /\ pc' = "done"
    /\ result' = "Network" /\ UNCHANGED events

Disconnects ==
    /\ pc \notin {"closing", "done"} /\ pc' = "done"
    /\ result' = "Network" /\ events' = Append(events, "Disconnected")

\* Every step of the task is of one of six kinds for the stream.
LEMMA TaskStepKinds ==
    ASSUME TypeOK, TaskNext
    PROVE  Quiet \/ FailsSilently \/ Disconnects \/ Incoming \/ CloseSocket \/ TaskAborted
<1>1. CASE HandshakeSucceeds \/ SendStart \/ TakeCommand \/ TakeNone \/ SendCommand
  BY <1>1 DEF HandshakeSucceeds, SendStart, TakeCommand, TakeNone, SendCommand, Quiet
<1>2. CASE HandshakeFails \/ StartFails \/ SendFinishFails \/ FinalTimeout
  BY <1>2 DEF HandshakeFails, StartFails, SendFinishFails, FinalTimeout, TaskReturns,
     FailsSilently
<1>3. CASE SendAudioFails \/ StreamEnds
  BY <1>3 DEF SendAudioFails, StreamEnds, TaskReturns, Disconnects
<1> QED
  BY <1>1, <1>2, <1>3 DEF TaskNext

LEMMA OtherStepsQuiet ==
    ASSUME [Next]_vars, ~TaskNext
    PROVE  UNCHANGED <<pc, events, result>>
<1>1. CASE \E p \in Producers : ProducerNext(p)
  BY <1>1 DEF ProducerNext, TrySendAccepted, TrySendRefused, SendWaits, CloneInput,
     DropInput, taskVars
<1>2. CASE WaitNext
  BY <1>2 DEF WaitNext, WaitingPushes, WaitingFails, taskVars
<1>3. CASE OwnerNext
  BY <1>3 DEF OwnerNext, ConnectReturns, CallFinish, FinishReturns, DropClient,
     CancelFinish, CancelDetaches, taskVars
<1>4. CASE NetNext
  BY <1>4 DEF NetNext, ServerReads, LinkBreaks, ServerReplies, taskVars
<1>5. CASE UNCHANGED vars
  BY <1>5 DEF vars, taskVars
<1> QED
  BY <1>1, <1>2, <1>3, <1>4, <1>5 DEF Next

-----------------------------------------------------------------------------
(* The theorems *)

\* An event that ends the task comes last and names its result.
LEMMA StreamEndsWith ==
    ASSUME NEW s \in Seq(ResultKinds), NEW e \in Terminal, events' = Append(s, e),
           \/ pc' = "closing" /\ e = "End" /\ result' = "none"
           \/ /\ pc' = "done" /\ result' # "none"
              /\ e = "End" <=> result' = "ok"
              /\ e = "ServerError" => result' = "Protocol"
              /\ e = "Disconnected" => result' = "Network"
    PROVE  StreamInv'
<1>1. e \in EventKinds
  BY DEF Terminal, EventKinds
<1>2. /\ events' # <<>> /\ events'[Len(events')] = e
      /\ \A i \in DOMAIN events' : events'[i] \in Terminal => i = Len(events')
  BY <1>1, ExtendStream
<1>3. TerminalEventIsLast'
  BY <1>2 DEF TerminalEventIsLast
<1>4. ResultMatchesEvents'
  BY <1>2 DEF ResultMatchesEvents, Terminal
<1> QED
  BY <1>2, <1>3, <1>4 DEF StreamInv

\* An end without an event leaves a stream of results.
LEMMA StreamEndsSilently ==
    ASSUME events \in Seq(ResultKinds), UNCHANGED events, pc' = "done",
           result' \in {"Network", "Protocol", "aborted"}
    PROVE  StreamInv'
<1>1. TerminalEventIsLast'
  BY ResultsOnly DEF TerminalEventIsLast
<1>2. ResultMatchesEvents'
  BY ResultsOnly DEF ResultMatchesEvents, Terminal
<1> QED
  BY <1>1, <1>2 DEF StreamInv

\* A step that leaves the task running adds results at most.
LEMMA StreamGoesOn ==
    ASSUME events' \in Seq(ResultKinds), pc' \notin {"closing", "done"}, result' = "none"
    PROVE  StreamInv'
<1>1. TerminalEventIsLast' /\ ResultMatchesEvents'
  BY ResultsOnly DEF TerminalEventIsLast, ResultMatchesEvents, Terminal
<1> QED
  BY <1>1 DEF StreamInv, ResultKinds

\* The reply that the task reads, by its verdict.
LEMMA StreamIncoming ==
    ASSUME TypeOK, StreamInv, Incoming
    PROVE  StreamInv' /\ [Session!Next]_(Session!vars)
<1> DEFINE m == Head(inbox)
<1>1. /\ events \in Seq(ResultKinds) /\ result = "none" /\ pc \in {"select", "awaitFinal"}
      /\ events' = events \o EventsOf(m)
  BY DEF Incoming, StreamInv, ResultKinds
<1>2. m \in Replies
  BY HeadTailProperties DEF Incoming, TypeOK
<1>3. VerdictOf(m) \in {"continue", "acknowledged", "Network", "Protocol"}
  BY <1>2, ReplyType DEF Failures
<1>4. /\ events \in Seq(EventKinds) /\ events \o <<>> = events
      /\ \A e \in EventKinds : events \o <<e>> = Append(events, e)
      /\ \A e \in EventKinds, f \in EventKinds :
            events \o <<e, f>> = Append(Append(events, e), f)
  <2>1. events \in Seq(EventKinds)
    BY DEF TypeOK
  <2> QED
    BY <2>1, ConcatEmptySeq, AppendIsConcat, AppendTwo
<1>5. Session!Running
  BY <1>1, ResultsOnly DEF Session!Running, Session!Acknowledged, Terminal
<1>6. \A e \in ResultKinds : Append(events, e) \in Seq(ResultKinds)
  BY <1>1, AppendProperties
<1>7. /\ VerdictOf(m) = "continue" =>
            EventsOf(m) \in {<<>>, <<"Partial">>, <<"Final">>}
      /\ VerdictOf(m) = "acknowledged" =>
            EventsOf(m) \in {<<"End">>, <<"Partial", "End">>, <<"Final", "End">>}
      /\ VerdictOf(m) = "Protocol" =>
            EventsOf(m) \in {<<>>, <<"ServerError">>, <<"Partial", "ServerError">>,
                             <<"Final", "ServerError">>}
      /\ VerdictOf(m) = "Network" => EventsOf(m) = <<"Disconnected">>
  BY ReplyCases
<1> HIDE DEF m
<1>8. CASE VerdictOf(m) = "continue"
  <2>1. UNCHANGED <<pc, result>>
    BY <1>8 DEF Incoming, Failures, m
  <2>2. \/ events' = events
        \/ events' = Append(events, "Partial")
        \/ events' = Append(events, "Final")
    BY <1>1, <1>4, <1>7, <1>8 DEF EventKinds
  <2>3. events' \in Seq(ResultKinds)
    BY <1>1, <1>6, <2>2 DEF ResultKinds
  <2>4. StreamInv'
    BY <1>1, <2>1, <2>3, StreamGoesOn
  <2>5. [Session!Next]_(Session!vars)
    BY <1>5, <2>1, <2>2 DEF Session!Next, Session!Transcribe, Session!Results, Session!vars
  <2> QED
    BY <2>4, <2>5
<1>9. CASE VerdictOf(m) = "acknowledged"
  <2>1. \/ pc' = "done" /\ result' = "ok"
        \/ pc' = "closing" /\ result' = "none"
    BY <1>1, <1>9 DEF Incoming, TaskReturns, Failures, m
  <2>2. \/ events' = Append(events, "End")
        \/ events' = Append(Append(events, "Partial"), "End")
        \/ events' = Append(Append(events, "Final"), "End")
    BY <1>1, <1>4, <1>7, <1>9 DEF EventKinds
  <2>3. \E s \in Seq(ResultKinds) : events' = Append(s, "End")
    BY <1>1, <1>6, <2>2 DEF ResultKinds
  <2>4. StreamInv'
    BY <2>1, <2>3, StreamEndsWith DEF Terminal
  <2>5. \/ events' = Append(events, "End")
        \/ \E e \in ResultKinds : events' = events \o <<e, "End">>
    BY <1>4, <2>2 DEF ResultKinds, EventKinds
  <2>6. Session!Next
    BY <1>5, <2>1, <2>5 DEF Session!Next, Session!Acknowledge, Session!Results, ResultKinds
  <2> QED
    BY <2>4, <2>6
<1>10. CASE VerdictOf(m) = "Protocol"
  <2>1. pc' = "done" /\ result' = "Protocol"
    BY <1>10 DEF Incoming, TaskReturns, Failures, m
  <2>2. \/ events' = events
        \/ events' = Append(events, "ServerError")
        \/ events' = Append(Append(events, "Partial"), "ServerError")
        \/ events' = Append(Append(events, "Final"), "ServerError")
    BY <1>1, <1>4, <1>7, <1>10 DEF EventKinds
  <2>3. CASE events' = events
    <3>1. StreamInv'
      BY <1>1, <2>1, <2>3, StreamEndsSilently
    <3>2. Session!Next
      BY <1>5, <2>1, <2>3 DEF Session!Next, Session!Fail
    <3> QED
      BY <3>1, <3>2
  <2>4. CASE events' # events
    <3>1. \E s \in Seq(ResultKinds) : events' = Append(s, "ServerError")
      BY <1>1, <1>6, <2>2, <2>4 DEF ResultKinds
    <3>2. StreamInv'
      BY <2>1, <3>1, StreamEndsWith DEF Terminal
    <3>3. \/ events' = Append(events, "ServerError")
          \/ \E e \in ResultKinds : events' = events \o <<e, "ServerError">>
      BY <1>4, <2>2, <2>4 DEF ResultKinds, EventKinds
    <3>4. Session!Next
      BY <1>5, <2>1, <3>3 DEF Session!Next, Session!Fail, Session!Results, ResultKinds
    <3> QED
      BY <3>2, <3>4
  <2> QED
    BY <2>3, <2>4
<1>11. CASE VerdictOf(m) = "Network"
  <2>1. pc' = "done" /\ result' = "Network"
    BY <1>11 DEF Incoming, TaskReturns, Failures, m
  <2>2. events' = Append(events, "Disconnected")
    BY <1>1, <1>4, <1>7, <1>11 DEF EventKinds
  <2>3. StreamInv'
    BY <1>1, <2>1, <2>2, StreamEndsWith DEF Terminal
  <2>4. Session!Next
    BY <1>5, <2>1, <2>2 DEF Session!Next, Session!Fail
  <2> QED
    BY <2>3, <2>4
<1> QED
  BY <1>3, <1>8, <1>9, <1>10, <1>11

\* One step of the system, for the stream and for TranscriptSession.
LEMMA StreamStep ==
    ASSUME TypeOK, StreamInv, [Next]_vars
    PROVE  StreamInv' /\ [Session!Next]_(Session!vars)
<1>1. ASSUME pc \notin {"closing", "done"}
      PROVE  events \in Seq(ResultKinds) /\ result = "none" /\ Session!Running
  <2>1. events \in Seq(ResultKinds) /\ result = "none"
    BY <1>1 DEF StreamInv, ResultKinds
  <2> QED
    BY <2>1, ResultsOnly DEF Session!Running, Session!Acknowledged, Terminal
<1>2. CASE Quiet
  <2>1. StreamInv'
    BY <1>1, <1>2, StreamGoesOn DEF Quiet
  <2> QED
    BY <1>2, <2>1 DEF Quiet, Session!vars
<1>3. CASE FailsSilently
  <2>1. StreamInv'
    BY <1>1, <1>3, StreamEndsSilently DEF FailsSilently
  <2>2. Session!Next
    BY <1>1, <1>3 DEF FailsSilently, Session!Next, Session!Fail
  <2> QED
    BY <2>1, <2>2
<1>4. CASE Disconnects
  <2>1. StreamInv'
    BY <1>1, <1>4, StreamEndsWith DEF Disconnects, Terminal
  <2>2. Session!Next
    BY <1>1, <1>4 DEF Disconnects, Session!Next, Session!Fail
  <2> QED
    BY <2>1, <2>2
<1>5. CASE CloseSocket
  <2>1. /\ pc = "closing" /\ pc' = "done" /\ result = "none" /\ result' = "ok"
        /\ events # <<>> /\ events[Len(events)] = "End" /\ UNCHANGED events
    BY <1>5 DEF CloseSocket, TaskReturns, StreamInv
  <2>2. StreamInv'
    BY <2>1 DEF StreamInv, TerminalEventIsLast, ResultMatchesEvents
  <2>3. Session!Next
    BY <2>1 DEF Session!Next, Session!Succeed, Session!Acknowledged
  <2> QED
    BY <2>2, <2>3
<1>6. CASE TaskAborted
  <2>1. /\ pc # "done" /\ pc' = "done" /\ result = "none" /\ result' = "aborted"
        /\ UNCHANGED events
    BY <1>6 DEF TaskAborted, TaskReturns, StreamInv
  <2>2. StreamInv'
    <3>1. CASE pc = "closing"
      BY <2>1, <3>1 DEF StreamInv, TerminalEventIsLast, ResultMatchesEvents
    <3>2. CASE pc # "closing"
      BY <1>1, <2>1, <3>2, StreamEndsSilently
    <3> QED
      BY <3>1, <3>2
  <2>3. Session!Next
    BY <2>1 DEF Session!Next, Session!Abort
  <2> QED
    BY <2>2, <2>3
<1>7. CASE UNCHANGED <<pc, events, result>>
  BY <1>7 DEF StreamInv, TerminalEventIsLast, ResultMatchesEvents, Session!vars
<1> QED
  BY <1>2, <1>3, <1>4, <1>5, <1>6, <1>7, StreamIncoming, TaskStepKinds, OtherStepsQuiet

\* At most one terminal event is ever emitted, it is the last, and the result of
\* the task agrees with it, whatever the server sends and whoever aborts.
THEOREM StreamCorrect == Spec => []StreamInv
<1>1. Init => StreamInv
  BY EmptySeq DEF Init, StreamInv, TerminalEventIsLast, ResultMatchesEvents
<1>2. TypeOK /\ StreamInv /\ [Next]_vars => StreamInv'
  BY StreamStep
<1> QED
  BY <1>1, <1>2, TypeCorrect, PTL DEF Spec

\* The two invariants a reader of the events relies on.
THEOREM StreamPromises == Spec => [](TerminalEventIsLast /\ ResultMatchesEvents)
<1>1. StreamInv => TerminalEventIsLast /\ ResultMatchesEvents
  BY DEF StreamInv
<1> QED
  BY <1>1, StreamCorrect, PTL

\* FunAsrConnection implements TranscriptSession.
THEOREM Refinement == Spec => ImplementsSession
<1>1. Init => Session!Init
  BY DEF Init, Session!Init
<1>2. TypeOK /\ StreamInv /\ [Next]_vars => [Session!Next]_(Session!vars)
  BY StreamStep
<1> QED
  BY <1>1, <1>2, TypeCorrect, StreamCorrect, PTL DEF Spec, ImplementsSession, Session!Spec
=============================================================================
