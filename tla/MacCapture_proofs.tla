--------------------------- MODULE MacCapture_proofs ---------------------------
(***************************************************************************)
(* Theorems about MacCapture for every number of channels, packet, ring    *)
(* and buffer list.                                                        *)
(***************************************************************************)
EXTENDS MacCapture, SampleLemmas

-----------------------------------------------------------------------------
(* The control of the four actors *)

\* The part of TypeOK that says where the actors and their flags are.
ControlOK ==
    /\ thread \in {"none", "translate", "tap", "format", "aggregate", "ioproc", "device",
                   "ready", "loop", "drop", "unwind", "exited"}
    /\ ready \in {"none", "ok", "err"}
    /\ stop \in BOOLEAN
    /\ callback \in {"idle", "copying", "reporting"}
    /\ drain \in {"none", "loop", "poll", "pop", "send", "exited"}
    /\ error \in BOOLEAN
    /\ session \in {"checking", "starting", "spawning", "running", "flagging",
                    "joinCapture", "joinDrain", "stopped", "abandoning", "failed"}
    /\ health \in {"none", "ok", "err"}
    /\ reported \in BOOLEAN
    /\ failure \in {"none", "running", "stopping"}

\* What exists of the chain, and what is still to be destroyed, at every place of the
\* thread: the unwinding always names exactly what is left.
ChainInv ==
    /\ thread \in {"none", "translate", "tap", "exited"} => live = {}
    /\ thread \in {"format", "aggregate"} => live = {"tap"}
    /\ thread = "ioproc" => live = {"tap", "aggregate"}
    /\ thread = "device" => live = {"tap", "aggregate", "ioproc"}
    /\ thread \in {"ready", "loop", "drop"} => live = {"tap", "aggregate", "ioproc", "device"}
    /\ thread = "unwind" =>
          \/ todo = <<>> /\ live = {}
          \/ todo = <<"tap">> /\ live = {"tap"}
          \/ todo = <<"aggregate", "tap">> /\ live = {"tap", "aggregate"}
          \/ todo = <<"ioproc", "aggregate", "tap">> /\ live = {"tap", "aggregate", "ioproc"}
          \/ /\ todo = <<"device", "ioproc", "aggregate", "tap">>
             /\ live = {"tap", "aggregate", "ioproc", "device"}
    /\ thread # "unwind" => todo = <<>>

\* When the thread has reported, and where the caller can be in the meantime.
SessionInv ==
    /\ thread \in {"loop", "drop"} => ready = "ok"
    /\ thread = "unwind" => ready # "err"
    /\ thread = "exited" => ready # "none"
    /\ thread \notin {"loop", "drop", "unwind", "exited"} => ready = "none"
    /\ thread = "none" <=> session = "checking" \/ (session = "failed" /\ thread # "exited")
    /\ session \in {"spawning", "running", "flagging", "joinCapture", "joinDrain", "stopped"} =>
          ready = "ok"
    /\ drain # "none" <=>
          session \in {"running", "flagging", "joinCapture", "joinDrain", "stopped"}
    /\ session \in {"joinDrain", "stopped"} => thread = "exited"
    /\ session = "stopped" => drain = "exited"
    /\ health # "none" => session \in {"flagging", "joinCapture", "joinDrain", "stopped"}

\* While the caller is running, a raised flag, a thread that leaves and a callback that
\* reports all mean that a callback has panicked.
AlarmInv ==
    /\ stop => \/ failure # "none"
               \/ session \in {"abandoning", "failed", "joinCapture", "joinDrain", "stopped"}
    /\ thread = "drop" \/ (thread \in {"unwind", "exited"} /\ ready = "ok") => stop
    /\ callback = "reporting" \/ error \/ reported \/ health = "err" => failure # "none"

ControlInv == ControlOK /\ ChainInv /\ SessionInv /\ AlarmInv

\* The thread's steps touch nothing of the other actors but the flag.
LEMMA ThreadAlone ==
    ASSUME ThreadNext
    PROVE  UNCHANGED <<callback, captured, failure, drain, popped, received, session, health,
                       reported, ring, frames, error>>
  BY DEF ThreadNext, TranslatePid, CreateTap, ReadTapFormat, CreateAggregate, CreateIoProc,
     StartDevice, ReportReady, SeesStop, DropChain, Destroy, ThreadExits, Passes, Makes,
     FailsAt, ThreadOnly, callbackVars, drainVars, callerVars

\* A part is destroyed: the first of those that are left.
LEMMA DestroyStep ==
    ASSUME ChainInv, Destroy
    PROVE  ChainInv'
<1>1. /\ thread = "unwind" /\ thread' = "unwind" /\ todo # <<>>
      /\ live' = live \ {Head(todo)} /\ todo' = Tail(todo)
  BY DEF Destroy
<1>2. CASE todo = <<"tap">> /\ live = {"tap"}
  BY <1>1, <1>2 DEF ChainInv
<1>3. CASE todo = <<"aggregate", "tap">> /\ live = {"tap", "aggregate"}
  <2>1. Head(todo) = "aggregate" /\ Tail(todo) = <<"tap">>
    BY <1>3
  <2> QED
    BY <1>1, <1>3, <2>1 DEF ChainInv
<1>4. CASE todo = <<"ioproc", "aggregate", "tap">> /\ live = {"tap", "aggregate", "ioproc"}
  <2>1. Head(todo) = "ioproc" /\ Tail(todo) = <<"aggregate", "tap">>
    BY <1>4
  <2> QED
    BY <1>1, <1>4, <2>1 DEF ChainInv
<1>5. CASE /\ todo = <<"device", "ioproc", "aggregate", "tap">>
           /\ live = {"tap", "aggregate", "ioproc", "device"}
  <2>1. Head(todo) = "device" /\ Tail(todo) = <<"ioproc", "aggregate", "tap">>
    BY <1>5
  <2> QED
    BY <1>1, <1>5, <2>1 DEF ChainInv
<1> QED
  BY <1>1, <1>2, <1>3, <1>4, <1>5 DEF ChainInv

\* The thread builds and takes apart the chain.
LEMMA ThreadStep ==
    ASSUME ControlInv, ThreadNext
    PROVE  ControlInv'
<1>1. UNCHANGED <<callback, failure, drain, session, health, reported, error>>
  BY ThreadAlone
<1> USE DEF ControlInv, ControlOK
<1>2. CASE TranslatePid
  BY <1>1, <1>2 DEF ChainInv, SessionInv, AlarmInv, TranslatePid, Passes, FailsAt, ThreadMoves
<1>3. CASE CreateTap
  BY <1>1, <1>3 DEF ChainInv, SessionInv, AlarmInv, CreateTap, Makes, FailsAt, ThreadMoves
<1>4. CASE ReadTapFormat
  BY <1>1, <1>4 DEF ChainInv, SessionInv, AlarmInv, ReadTapFormat, Passes, FailsAt, ThreadMoves
<1>5. CASE CreateAggregate
  BY <1>1, <1>5 DEF ChainInv, SessionInv, AlarmInv, CreateAggregate, Makes, FailsAt, ThreadMoves
<1>6. CASE CreateIoProc
  BY <1>1, <1>6 DEF ChainInv, SessionInv, AlarmInv, CreateIoProc, Makes, FailsAt, ThreadMoves
<1>7. CASE StartDevice
  BY <1>1, <1>7 DEF ChainInv, SessionInv, AlarmInv, StartDevice, Makes, FailsAt, ThreadMoves
<1>8. CASE ReportReady
  BY <1>1, <1>8 DEF ChainInv, SessionInv, AlarmInv, ReportReady, ThreadMoves
<1>9. CASE SeesStop
  BY <1>1, <1>9 DEF ChainInv, SessionInv, AlarmInv, SeesStop, Passes, ThreadMoves
<1>10. CASE DropChain
  BY <1>1, <1>10 DEF ChainInv, SessionInv, AlarmInv, DropChain, ThreadMoves
<1>11. CASE Destroy
  <2>1. UNCHANGED <<thread, ready, stop>>
    BY <1>11 DEF Destroy
  <2> QED
    BY <1>1, <1>11, <2>1, DestroyStep DEF SessionInv, AlarmInv
<1>12. CASE ThreadExits
  BY <1>1, <1>12 DEF ChainInv, SessionInv, AlarmInv, ThreadExits, ThreadMoves
<1> QED
  BY <1>2, <1>3, <1>4, <1>5, <1>6, <1>7, <1>8, <1>9, <1>10, <1>11, <1>12 DEF ThreadNext

\* The IO procedure is called, copies, panics and reports.
LEMMA CallbackStep ==
    ASSUME ControlInv, CallbackNext
    PROVE  ControlInv'
<1>1. UNCHANGED <<thread, live, todo, ready, drain, session, health, reported>>
  BY DEF CallbackNext, CallbackStarts, CallbackPushes, CallbackPanics, CallbackReports,
     CallbackOnly, threadVars, drainVars, callerVars
<1> USE DEF ControlInv, ControlOK
<1>2. CASE CallbackStarts
  BY <1>1, <1>2 DEF ChainInv, SessionInv, AlarmInv, CallbackStarts
<1>3. CASE CallbackPushes
  BY <1>1, <1>3 DEF ChainInv, SessionInv, AlarmInv, CallbackPushes
<1>4. CASE CallbackPanics
  BY <1>1, <1>4 DEF ChainInv, SessionInv, AlarmInv, CallbackPanics
<1>5. CASE CallbackReports
  BY <1>1, <1>5 DEF ChainInv, SessionInv, AlarmInv, CallbackReports
<1> QED
  BY <1>2, <1>3, <1>4, <1>5 DEF CallbackNext

\* The drain moves on its own, once it has been spawned.
LEMMA DrainStep ==
    ASSUME ControlInv, DrainNext
    PROVE  ControlInv'
<1>1. UNCHANGED <<thread, live, todo, ready, stop, callback, failure, session, health,
                  reported, error>>
  BY DEF DrainNext, DrainTest, DrainPoll, DrainPops, DrainSends, DrainOnly, threadVars,
     callbackVars, callerVars
<1>2. /\ drain \in {"loop", "poll", "pop", "send"}
      /\ drain' \in {"loop", "poll", "pop", "send", "exited"}
  BY DEF DrainNext, DrainTest, DrainPoll, DrainPops, DrainSends, DrainMoves
<1>3. ControlOK' /\ ChainInv' /\ AlarmInv'
  BY <1>1, <1>2 DEF ControlInv, ControlOK, ChainInv, AlarmInv
<1>4. SessionInv'
  BY <1>1, <1>2 DEF ControlInv, SessionInv
<1> QED
  BY <1>3, <1>4 DEF ControlInv

\* The calls of the caller.
LEMMA CallerStep ==
    ASSUME ControlInv, CallerNext
    PROVE  ControlInv'
<1> USE DEF ControlInv, ControlOK, ChainInv, SessionInv, AlarmInv
<1>1. CASE Refused
  BY <1>1 DEF Refused, CallerMoves, callbackVars
<1>2. CASE SpawnThread
  BY <1>2 DEF SpawnThread, CallerMoves, callbackVars
<1>3. CASE StartReturns
  BY <1>3 DEF StartReturns, CallerMoves, callbackVars
<1>4. CASE SpawnDrain
  BY <1>4 DEF SpawnDrain, CallerMoves, callbackVars
<1>5. CASE SpawnDrainFails
  BY <1>5 DEF SpawnDrainFails, CallerMoves, callbackVars
<1>6. CASE Abandoned
  BY <1>6 DEF Abandoned, CallerMoves, callbackVars
<1>7. CASE DropSession
  BY <1>7 DEF DropSession, CallerMoves, callbackVars
<1>8. CASE FlagStop
  BY <1>8 DEF FlagStop, CallerMoves, callbackVars
<1>9. CASE JoinCapture
  BY <1>9 DEF JoinCapture, CallerMoves, callbackVars
<1>10. CASE JoinDrain
  BY <1>10 DEF JoinDrain, CallerMoves, callbackVars
<1>11. CASE Receive
  BY <1>11 DEF Receive, CallerOnly, threadVars, callbackVars, drainVars
<1>12. CASE CheckHealth
  <2>1. /\ session = "running" /\ reported' = (reported \/ Unhealthy) /\ error' = FALSE
        /\ UNCHANGED <<thread, live, todo, ready, stop, callback, failure, drain, session, health>>
    BY <1>12 DEF CheckHealth, CallerOnly, threadVars, callbackVars, drainVars
  <2>2. Unhealthy => failure # "none"
    BY <2>1 DEF Unhealthy, SenderGone
  <2>3. reported' \in BOOLEAN /\ error' \in BOOLEAN
    BY <2>1
  <2>4. ControlOK' /\ ChainInv' /\ SessionInv'
    BY <2>1, <2>3
  <2>5. AlarmInv'
    BY <2>1, <2>2
  <2> QED
    BY <2>4, <2>5
<1>13. CASE CallStop
  <2>1. /\ session = "running" /\ session' = "flagging" /\ error' = FALSE
        /\ health' = IF Unhealthy THEN "err" ELSE "ok"
        /\ UNCHANGED <<thread, live, todo, ready, stop, callback, failure, drain, reported>>
    BY <1>13 DEF CallStop, CallerOnly, threadVars, callbackVars, drainVars
  <2>2. Unhealthy => failure # "none"
    BY <2>1 DEF Unhealthy, SenderGone
  <2>3. health' \in {"ok", "err"} /\ (health' = "err" => failure # "none")
    BY <2>1, <2>2
  <2>4. stop' \in BOOLEAN /\ reported' \in BOOLEAN /\ error' \in BOOLEAN
    BY <2>1
  <2>5. ControlOK' /\ ChainInv' /\ SessionInv'
    BY <2>1, <2>3, <2>4
  <2>6. AlarmInv'
    BY <2>1, <2>3
  <2> QED
    BY <2>5, <2>6
<1> QED
  BY <1>1, <1>2, <1>3, <1>4, <1>5, <1>6, <1>7, <1>8, <1>9, <1>10, <1>11, <1>12, <1>13
     DEF CallerNext, CallerProceeds

\* The control of the four actors is right, whoever moves when.
LEMMA ControlCorrect == Spec => []ControlInv
<1>1. Init => ControlInv
  BY DEF Init, ControlInv, ControlOK, ChainInv, SessionInv, AlarmInv
<1>2. ASSUME ControlInv, [Next]_vars PROVE ControlInv'
  <2>1. CASE UNCHANGED vars
    <3>1. UNCHANGED <<thread, live, todo, ready, stop, callback, drain, error, session, health,
                      reported, failure>>
      BY <2>1 DEF vars, threadVars, callbackVars, drainVars, callerVars
    <3> QED
      BY <1>2, <3>1 DEF ControlInv, ControlOK, ChainInv, SessionInv, AlarmInv
  <2> QED
    BY <1>2, <2>1, ThreadStep, CallbackStep, DrainStep, CallerStep DEF Next
<1> QED
  BY <1>1, <1>2, PTL DEF Spec

\* Wherever the construction of the chain fails or a stop meets it, what exists is taken
\* apart in the reverse order, and nothing of it and no thread outlives the call.
THEOREM ChainTheorem == Spec => []ChainUnwound
<1>1. ControlInv => ChainUnwound
  <2> SUFFICES ASSUME ControlInv PROVE ChainUnwound
    OBVIOUS
  <2> USE DEF ControlInv, ControlOK, ChainInv, SessionInv
  <2>1. ASSUME NEW i \in 2 .. Len(Chain), Chain[i] \in live
        PROVE  Chain[i - 1] \in live
    <3>1. /\ i \in {2, 3, 4} /\ Chain[1] = "tap" /\ Chain[2] = "aggregate"
          /\ Chain[3] = "ioproc" /\ Chain[4] = "device"
      BY DEF Chain
    <3>2. "device" \in live => "ioproc" \in live
      OBVIOUS
    <3>3. "ioproc" \in live => "aggregate" \in live
      OBVIOUS
    <3>4. "aggregate" \in live => "tap" \in live
      OBVIOUS
    <3> QED
      BY <2>1, <3>1, <3>2, <3>3, <3>4
  <2>2. ready = "err" \/ thread = "exited" => live = {}
    OBVIOUS
  <2>3. session \in {"failed", "stopped"} =>
          /\ thread \in {"none", "exited"} /\ drain \in {"none", "exited"}
          /\ live = {}
    OBVIOUS
  <2> QED
    BY <2>1, <2>2, <2>3 DEF ChainUnwound
<1> QED
  BY <1>1, ControlCorrect, PTL

-----------------------------------------------------------------------------
(* What a callback copies *)

\* copy_buffer_list yields the samples in the order in which they sound, as many as every
\* buffer has, and so whole turns of the channels; the device moves on by whole turns too.
LEMMA CopiedInOrder ==
    ASSUME NEW list \in BufferLists
    PROVE  /\ Advance(list) \in Nat /\ Advance(list) % Channels = 0
           /\ \E m \in 0 .. Advance(list) :
                 m % Channels = 0 /\ CopyBufferList(list) = [i \in 1 .. m |-> i]
<1> DEFINE n == Len(list)
<1>1. /\ Channels \in Nat \ {0} /\ list \in Seq(Nat) /\ n \in {0, 1, Channels}
      /\ n = 1 => list[1] % Channels = 0
  BY SizesAssumption
<1>2. CASE n = 0
  <2>1. list = <<>>
    BY <1>1, <1>2, EmptySeq
  <2>2. Advance(list) = 0 /\ 0 % Channels = 0
    BY <1>1, <2>1 DEF Advance
  <2>3. CopyBufferList(list) = [i \in 1 .. 0 |-> i]
    <3>1. \A i \in 1 .. 0 : FALSE
      OBVIOUS
    <3>2. CopyBufferList(list)
             = [i \in 1 .. 0 |-> Buffer(list, ((i - 1) % n) + 1)[((i - 1) \div n) + 1]]
      BY <1>2 DEF CopyBufferList
    <3> QED
      BY <3>1, <3>2
  <2> QED
    BY <2>2, <2>3
<1>3. CASE n # 0
  <2> DEFINE low == Min(Range(list))  high == Max(Range(list))
  <2>1. list # <<>> /\ n \in Nat \ {0}
    BY <1>1, <1>3, EmptySeq
  <2>2. /\ low \in Nat /\ high \in Nat /\ low \in Range(list) /\ high \in Range(list)
        /\ \A c \in 1 .. n : low <= list[c] /\ list[c] <= high /\ list[c] \in Nat
    BY <1>1, <2>1, Extremes, ElementOfSeq
  <2>3. Range(list) = {list[c] : c \in 1 .. n}
    BY <1>1, RangeEquality
  <2>4. Advance(list) = n * high
    BY <2>1 DEF Advance
  <2>5. CopyBufferList(list)
           = [i \in 1 .. n * low |-> Buffer(list, ((i - 1) % n) + 1)[((i - 1) \div n) + 1]]
    BY <1>3 DEF CopyBufferList
  <2>6. /\ \A c \in 1 .. n, moment \in 1 .. low :
              Buffer(list, c)[moment] = (moment - 1) * n + c
    BY <2>2 DEF Buffer
  <2>7. low <= high
    BY <2>1, <2>2
  <2> HIDE DEF n, low, high
  <2>8. ASSUME NEW i \in 1 .. n * low
        PROVE  Buffer(list, ((i - 1) % n) + 1)[((i - 1) \div n) + 1] = i
    <3>1. /\ (i - 1) \div n \in 0 .. low - 1 /\ (i - 1) % n \in 0 .. n - 1
          /\ ((i - 1) \div n) * n + ((i - 1) % n) = i - 1
      BY <2>1, <2>2, RowAndColumn
    <3> DEFINE row == (i - 1) \div n  column == (i - 1) % n
    <3>2. row + 1 \in 1 .. low /\ column + 1 \in 1 .. n /\ (row + 1) - 1 = row
      BY <2>1, <2>2, <3>1
    <3>3. row * n + (column + 1) = i
      BY <2>1, <3>1
    <3> HIDE DEF row, column
    <3>4. Buffer(list, column + 1)[row + 1] = ((row + 1) - 1) * n + (column + 1)
      BY <2>6, <3>2
    <3>5. Buffer(list, column + 1)[row + 1] = i
      BY <3>2, <3>3, <3>4
    <3> QED
      BY <3>5 DEF row, column
  <2>9. CopyBufferList(list) = [i \in 1 .. n * low |-> i]
    BY <2>5, <2>8
  <2>10. n * low \in 0 .. n * high
    BY <2>1, <2>2, <2>7
  <2>11. (n * low) % Channels = 0 /\ (n * high) % Channels = 0
    <3>1. CASE n = Channels
      BY <1>1, <2>2, <3>1, Product
    <3>2. CASE n = 1
      <4>1. low = list[1] /\ high = list[1]
        BY <2>2, <2>3, <3>2
      <4>2. list[1] % Channels = 0 /\ n * low = list[1] /\ n * high = list[1]
        BY <1>1, <2>2, <3>2, <4>1 DEF n
      <4> QED
        BY <4>2
    <3> QED
      BY <1>1, <1>3, <3>1, <3>2 DEF n
  <2> QED
    BY <2>1, <2>2, <2>4, <2>9, <2>10, <2>11
<1> QED
  BY <1>2, <1>3

-----------------------------------------------------------------------------
(* Type correctness and the order of the samples *)

\* The part of TypeOK that says where the samples are.
SamplesOK ==
    /\ captured \in 0 .. MaxSamples
    /\ ring \in Seq(Samples) /\ Len(ring) <= RingCapacity
    /\ popped \in Seq(Samples)
    /\ frames \in Seq(Samples)
    /\ received \in Seq(Samples)

\* The channel holds whole frames, and the drain has popped one when it is about to send.
FramesWhole ==
    /\ \E k \in 0 .. ChannelCapacity : Len(frames) = k * PacketSamples
    /\ drain = "send" => Len(popped) = PacketSamples
    /\ drain # "send" => popped = <<>>
    /\ drain = "pop" => Len(ring) >= PacketSamples

\* The samples that are not lost, from the first one received to the last one captured.
Pipeline == ((received \o frames) \o popped) \o ring

\* Samples in whole turns of the channels, each in the place of its channel.
WholeTurn(s) == Len(s) % Channels = 0 /\ Contract!InPlace(s)

\* At every place between the device and the caller the samples come in whole turns, and
\* all in the order of the device.
PlaceInv ==
    /\ captured % Channels = 0
    /\ WholeTurn(received) /\ WholeTurn(frames) /\ WholeTurn(popped) /\ WholeTurn(ring)
    /\ Ascending(Pipeline)
    /\ \A x \in Range(Pipeline) : x <= captured

SamplesInv == SamplesOK /\ FramesWhole /\ PlaceInv

\* Two sequences, the first of whole turns, are in place together if each one is.
LEMMA TurnsJoin ==
    ASSUME NEW s \in Seq(Samples), NEW t \in Seq(Samples), Len(s) % Channels = 0
    PROVE  WholeTurn(s \o t) <=> WholeTurn(s) /\ WholeTurn(t)
<1> DEFINE m == Len(s)  n == Len(t)  u == s \o t
<1>1. Channels \in Nat \ {0} /\ Samples \subseteq Int
  BY SizesAssumption DEF Samples
<1>2. /\ m \in Nat /\ n \in Nat /\ DOMAIN s = 1 .. m /\ DOMAIN t = 1 .. n
      /\ \A i \in 1 .. m : s[i] \in Int
      /\ \A i \in 1 .. n : t[i] \in Int
  BY <1>1, LenProperties, ElementOfSeq
<1>3. u \in Seq(Samples) /\ Len(u) = m + n
  BY ConcatProperties
<1>4. \A i \in 1 .. m + n : u[i] = IF i <= m THEN s[i] ELSE t[i - m]
  BY ConcatProperties
<1>5. DOMAIN u = 1 .. m + n
  BY <1>3, LenProperties
<1>6. m % Channels = 0
  OBVIOUS
<1> HIDE DEF m, n, u
<1>7. \A a, b \in Int : b = a - m => (a % Channels = 0 <=> b % Channels = 0)
  <2>1. m \in Int /\ Channels \in Nat \ {0}
    BY <1>1, <1>2
  <2> QED
    BY <1>6, <2>1, SameTurn
<1>8. (m + n) % Channels = 0 <=> n % Channels = 0
  BY <1>2, <1>7
<1>9. ASSUME NEW i \in 1 .. m
      PROVE  u[i] = s[i] /\ i \in DOMAIN u
  BY <1>2, <1>4, <1>5
<1>10. ASSUME NEW i \in 1 .. n
       PROVE  /\ u[i + m] = t[i] /\ i + m \in DOMAIN u
              /\ (t[i] - i) % Channels = 0 <=> (u[i + m] - (i + m)) % Channels = 0
  <2>1. i + m \in 1 .. m + n /\ ~(i + m <= m) /\ (i + m) - m = i
    BY <1>2
  <2>2. u[i + m] = t[i]
    BY <1>4, <2>1
  <2>3. /\ t[i] - i \in Int /\ u[i + m] - (i + m) \in Int
        /\ u[i + m] - (i + m) = (t[i] - i) - m
    BY <1>2, <2>2
  <2> QED
    BY <1>5, <1>7, <2>1, <2>2, <2>3
<1>11. ASSUME Contract!InPlace(u)
       PROVE  Contract!InPlace(s) /\ Contract!InPlace(t)
  <2>1. ASSUME NEW i \in 1 .. m PROVE (s[i] - i) % Channels = 0
    <3>1. (u[i] - i) % Channels = 0
      BY <1>9, <1>11 DEF Contract!InPlace
    <3> QED
      BY <1>9, <3>1
  <2>2. ASSUME NEW i \in 1 .. n PROVE (t[i] - i) % Channels = 0
    <3> DEFINE j == i + m
    <3>1. j \in DOMAIN u
      BY <1>10
    <3> HIDE DEF j
    <3>2. (u[j] - j) % Channels = 0
      BY <1>11, <3>1 DEF Contract!InPlace
    <3> QED
      BY <1>10, <3>2 DEF j
  <2> QED
    BY <1>2, <2>1, <2>2 DEF Contract!InPlace
<1>12. ASSUME Contract!InPlace(s), Contract!InPlace(t), NEW i \in 1 .. m + n
       PROVE  (u[i] - i) % Channels = 0
  <2>1. CASE i <= m
    <3>1. i \in 1 .. m
      BY <1>2, <2>1
    <3>2. (s[i] - i) % Channels = 0
      BY <1>2, <1>12, <3>1 DEF Contract!InPlace
    <3> QED
      BY <1>9, <3>1, <3>2
  <2>2. CASE ~(i <= m)
    <3> DEFINE j == i - m
    <3>1. j \in 1 .. n /\ j + m = i
      BY <1>2, <2>2
    <3> HIDE DEF j
    <3>2. (t[j] - j) % Channels = 0
      BY <1>2, <1>12, <3>1 DEF Contract!InPlace
    <3>3. (u[j + m] - (j + m)) % Channels = 0
      BY <1>10, <3>1, <3>2
    <3> QED
      BY <3>1, <3>3
  <2> QED
    BY <2>1, <2>2
<1>13. Contract!InPlace(u) <=> Contract!InPlace(s) /\ Contract!InPlace(t)
  BY <1>5, <1>11, <1>12 DEF Contract!InPlace
<1> QED
  BY <1>3, <1>6, <1>8, <1>13 DEF WholeTurn, u, m, n

\* Cut after a whole number of turns, samples in place stay in place.
LEMMA TurnsCut ==
    ASSUME NEW s \in Seq(Samples), WholeTurn(s), NEW n \in Nat, n <= Len(s),
           n % Channels = 0
    PROVE  WholeTurn(SubSeq(s, 1, n)) /\ WholeTurn(SubSeq(s, n + 1, Len(s)))
<1> DEFINE front == SubSeq(s, 1, n)  rest == SubSeq(s, n + 1, Len(s))
<1>1. front \in Seq(Samples) /\ rest \in Seq(Samples) /\ Len(front) = n
  BY SplitSeq
<1>2. front \o rest = s
  BY HalvesMeet
<1> HIDE DEF front, rest
<1>3. WholeTurn(front \o rest) <=> WholeTurn(front) /\ WholeTurn(rest)
  BY <1>1, TurnsJoin
<1> QED
  BY <1>2, <1>3 DEF front, rest

\* A callback appends the next samples to the ring, a whole number of turns of them: all
\* that every buffer has, or what the ring has room for.
LEMMA PushedInTurn ==
    ASSUME SamplesOK, WholeTurn(ring), captured % Channels = 0, CallbackPushes
    PROVE  \E k \in Nat :
              /\ k % Channels = 0 /\ Len(ring) + k <= RingCapacity
              /\ ring' = ring \o [i \in 1 .. k |-> captured + i]
              /\ captured' \in captured + k .. MaxSamples /\ captured' % Channels = 0
<1>1. PICK list \in BufferLists :
        LET copied == CopyBufferList(list)
            room   == RingCapacity - Len(ring)
            taken  == SubSeq(copied, 1, IF Len(copied) <= room THEN Len(copied) ELSE room)
        IN /\ captured + Advance(list) <= MaxSamples
           /\ captured' = captured + Advance(list)
           /\ ring' = ring \o [i \in DOMAIN taken |-> captured + taken[i]]
  BY DEF CallbackPushes
<1>2. /\ Advance(list) \in Nat /\ Advance(list) % Channels = 0
      /\ \E m \in 0 .. Advance(list) :
            m % Channels = 0 /\ CopyBufferList(list) = [i \in 1 .. m |-> i]
  BY CopiedInOrder
<1>3. PICK m \in 0 .. Advance(list) :
         m % Channels = 0 /\ CopyBufferList(list) = [i \in 1 .. m |-> i]
  BY <1>2
<1> DEFINE copied == [i \in 1 .. m |-> i]
           room   == RingCapacity - Len(ring)
           k      == IF m <= room THEN m ELSE room
           taken  == SubSeq(copied, 1, k)
<1>4. m \in Nat /\ copied \in Seq(Nat) /\ Len(copied) = m
  BY <1>2, <1>3
<1>5. /\ captured + Advance(list) <= MaxSamples
      /\ captured' = captured + Advance(list)
      /\ ring' = ring \o [i \in DOMAIN taken |-> captured + taken[i]]
  BY <1>1, <1>3, <1>4
<1>6. /\ Len(ring) \in Nat /\ RingCapacity \in Nat /\ Len(ring) <= RingCapacity
      /\ captured \in Nat /\ Channels \in Nat \ {0}
  BY SizesAssumption, LenProperties DEF SamplesOK
<1>7. k \in Nat /\ k <= m /\ Len(ring) + k <= RingCapacity
  BY <1>4, <1>6
<1>8. k % Channels = 0
  <2>1. Len(ring) % Channels = 0 /\ RingCapacity % Channels = 0
    BY SizesAssumption DEF WholeTurn
  <2>2. (RingCapacity - Len(ring)) % Channels = 0
    <3> DEFINE length == Len(ring)
    <3>1. /\ RingCapacity \in Int /\ length \in Int /\ Channels \in Nat \ {0}
          /\ RingCapacity % Channels = 0 /\ length % Channels = 0
      BY <1>6, <2>1
    <3> HIDE DEF length
    <3>2. (RingCapacity - length) % Channels = 0
      BY <3>1, Multiples
    <3> QED
      BY <3>2 DEF length
  <2> QED
    BY <1>3, <2>2
<1>9. DOMAIN taken = 1 .. k /\ \A i \in 1 .. k : taken[i] = i
  <2>1. \A i \in 1 .. k : copied[i] = i
    BY <1>4, <1>7
  <2>2. /\ taken \in Seq(Nat) /\ Len(taken) = k
        /\ \A i \in 1 .. k : taken[i] = copied[i]
    <3> HIDE DEF copied, k
    <3>1. \A i \in 1 .. k : copied[i] \in Nat
      BY <1>4, <1>7, ElementOfSeq
    <3> QED
      BY <1>4, <1>7, <3>1, SubSeqProperties
  <2> QED
    BY <2>1, <2>2, LenProperties
<1> HIDE DEF taken, k, room, copied
<1>10. [i \in DOMAIN taken |-> captured + taken[i]] = [i \in 1 .. k |-> captured + i]
  BY <1>9
<1>11. captured' \in captured + k .. MaxSamples
  BY <1>2, <1>3, <1>5, <1>6, <1>7, SizesAssumption
<1>12. captured' % Channels = 0
  BY <1>2, <1>5, <1>6, Multiples
<1> QED
  BY <1>5, <1>7, <1>8, <1>10, <1>11, <1>12

\* The next k samples, a whole number of turns of them, ascend and are in place.
LEMMA NextTurns ==
    ASSUME NEW c \in Nat, NEW k \in Nat, c + k <= MaxSamples, c % Channels = 0,
           k % Channels = 0, NEW new, new = [i \in 1 .. k |-> c + i]
    PROVE  /\ new \in Seq(Samples) /\ Len(new) = k /\ WholeTurn(new) /\ Ascending(new)
           /\ \A x \in Range(new) : c < x /\ x <= c + k
<1>1. MaxSamples \in Nat /\ Channels \in Nat \ {0}
  BY SizesAssumption
<1>2. \A i \in 1 .. k : new[i] = c + i /\ c + i \in Samples
  BY <1>1 DEF Samples
<1>3. new \in Seq(Samples) /\ Len(new) = k /\ DOMAIN new = 1 .. k
  BY <1>2
<1>4. Contract!InPlace(new)
  <2>1. ASSUME NEW i \in 1 .. k PROVE (new[i] - i) % Channels = 0
    BY <1>2
  <2> QED
    BY <1>3, <2>1 DEF Contract!InPlace
<1>5. Ascending(new)
  BY <1>2, <1>3 DEF Ascending
<1>6. \A x \in Range(new) : c < x /\ x <= c + k
  BY <1>2, <1>3 DEF Range
<1> QED
  BY <1>3, <1>4, <1>5, <1>6 DEF WholeTurn

\* Nothing is in place.
LEMMA EmptyTurn == WholeTurn(<<>>) /\ <<>> \in Seq(Samples)
<1>1. <<>> \in Seq(Samples) /\ Len(<<>>) = 0
  BY EmptySeq
<1>2. DOMAIN <<>> = 1 .. 0
  BY <1>1, LenProperties
<1>3. Contract!InPlace(<<>>)
  BY <1>2 DEF Contract!InPlace
<1>4. 0 % Channels = 0
  BY SizesAssumption
<1> QED
  BY <1>1, <1>3, <1>4 DEF WholeTurn

\* Which steps move samples: those of the IO procedure, the drain and the receiver.
LEMMA WhoMovesSamples ==
    ASSUME SessionInv, [Next]_vars
    PROVE  \/ CallbackPushes \/ DrainPoll \/ DrainPops \/ DrainSends \/ Receive
           \/ /\ UNCHANGED <<captured, ring, popped, frames, received>>
              /\ drain' # drain => {drain, drain'} \cap {"pop", "send"} = {}
<1> DEFINE Still == /\ UNCHANGED <<captured, ring, popped, frames, received>>
                    /\ drain' # drain => {drain, drain'} \cap {"pop", "send"} = {}
<1>1. ASSUME ThreadNext PROVE Still
  BY <1>1, ThreadAlone
<1>2. ASSUME CallbackStarts \/ CallbackPanics \/ CallbackReports PROVE Still
  BY <1>2 DEF CallbackStarts, CallbackPanics, CallbackReports, CallbackOnly, drainVars,
     callerVars
<1>3. ASSUME DrainTest PROVE Still
  BY <1>3 DEF DrainTest, DrainMoves, DrainOnly, callbackVars, callerVars
<1>4. ASSUME \/ Refused \/ SpawnThread \/ StartReturns \/ SpawnDrainFails \/ Abandoned
             \/ FlagStop \/ JoinCapture \/ JoinDrain \/ DropSession
      PROVE  Still
  BY <1>4 DEF Refused, SpawnThread, StartReturns, SpawnDrainFails, Abandoned, FlagStop,
     JoinCapture, JoinDrain, DropSession, CallerMoves, callbackVars
<1>5. ASSUME CheckHealth \/ CallStop PROVE Still
  BY <1>5 DEF CheckHealth, CallStop, CallerOnly, callbackVars, drainVars
<1>6. ASSUME SpawnDrain PROVE Still
  BY <1>6 DEF SpawnDrain, CallerMoves, callbackVars, SessionInv
<1>7. ASSUME UNCHANGED vars PROVE Still
  BY <1>7 DEF vars, callbackVars, drainVars, callerVars
<1> HIDE DEF Still
<1>8. ASSUME Next PROVE \/ CallbackPushes \/ DrainPoll \/ DrainPops \/ DrainSends \/ Receive
                         \/ Still
  BY <1>1, <1>2, <1>3, <1>4, <1>5, <1>6, <1>8
     DEF Next, CallbackNext, DrainNext, CallerNext, CallerProceeds
<1> QED
  BY <1>7, <1>8 DEF Still

\* A step that moves no sample, and the drain neither into nor out of the places where it
\* holds some.
LEMMA SamplesUntouched ==
    ASSUME SamplesInv, UNCHANGED <<captured, ring, popped, frames, received>>,
           drain' # drain => {drain, drain'} \cap {"pop", "send"} = {}
    PROVE  SamplesInv'
<1>1. SamplesOK' /\ PlaceInv'
  BY DEF SamplesInv, SamplesOK, PlaceInv, Pipeline, WholeTurn, Contract!InPlace, Ascending
<1>2. /\ drain' = "send" <=> drain = "send"
      /\ drain' = "pop" <=> drain = "pop"
  OBVIOUS
<1>3. \E k \in 0 .. ChannelCapacity : Len(frames') = k * PacketSamples
  BY DEF SamplesInv, FramesWhole
<1> QED
  BY <1>1, <1>2, <1>3 DEF SamplesInv, FramesWhole

\* The samples of the pipeline are the next ones when a callback has pushed some.
LEMMA CallbackKeepsOrder ==
    ASSUME SamplesInv, CallbackPushes
    PROVE  SamplesInv'
<1> USE DEF SamplesInv
<1>1. PICK k \in Nat :
              /\ k % Channels = 0 /\ Len(ring) + k <= RingCapacity
              /\ ring' = ring \o [i \in 1 .. k |-> captured + i]
              /\ captured' \in captured + k .. MaxSamples /\ captured' % Channels = 0
  BY PushedInTurn DEF PlaceInv
<1>2. UNCHANGED <<received, frames, popped, drain>>
  BY DEF CallbackPushes, CallbackOnly, drainVars, callerVars
<1>3. captured \in Nat /\ MaxSamples \in Nat /\ captured' \in Nat
  BY <1>1, SizesAssumption DEF SamplesOK
<1> DEFINE new == [i \in 1 .. k |-> captured + i]
<1>4. /\ new \in Seq(Samples) /\ Len(new) = k /\ WholeTurn(new) /\ Ascending(new)
      /\ \A x \in Range(new) : captured < x /\ x <= captured + k
  <2>1. captured + k <= MaxSamples /\ captured % Channels = 0
    BY <1>1, <1>3 DEF PlaceInv
  <2> QED
    BY <1>1, <1>3, <2>1, NextTurns
<1>5. ring' = ring \o new
  BY <1>1
<1> HIDE DEF new
<1>6. /\ received \in Seq(Samples) /\ frames \in Seq(Samples) /\ popped \in Seq(Samples)
      /\ ring \in Seq(Samples) /\ Samples \in SUBSET Int
  BY DEF SamplesOK, Samples
<1>7. ring' \in Seq(Samples) /\ Len(ring') = Len(ring) + k
  BY <1>4, <1>5, <1>6, ConcatProperties
<1>8. SamplesOK'
  BY <1>1, <1>2, <1>3, <1>7 DEF SamplesOK
<1>9. FramesWhole'
  <2>1. drain = "pop" => Len(ring') >= PacketSamples
    BY <1>6, <1>7, LenProperties, SizesAssumption DEF FramesWhole
  <2> QED
    BY <1>2, <2>1 DEF FramesWhole
<1>10. Pipeline \in Seq(Samples) /\ Pipeline' = Pipeline \o new
  <2> DEFINE base == (received \o frames) \o popped
  <2>1. base \in Seq(Samples) /\ ring \in Seq(Samples) /\ new \in Seq(Samples)
    BY <1>4, <1>6, JoinedSeqs
  <2>2. Pipeline = base \o ring /\ Pipeline' = base \o (ring \o new)
    BY <1>2, <1>5 DEF Pipeline
  <2> HIDE DEF base
  <2>3. base \o (ring \o new) = (base \o ring) \o new
    BY <2>1, PipelineGrows
  <2>4. base \o ring \in Seq(Samples)
    BY <2>1, JoinedSeqs
  <2> QED
    BY <2>2, <2>3, <2>4
<1>11. Ascending(Pipeline')
  <2>1. \A x \in Range(Pipeline), y \in Range(new) : x < y
    <3>1. Range(Pipeline) \subseteq Int /\ Range(new) \subseteq Int
      BY <1>4, <1>6, <1>10, RangeOfSeq
    <3> QED
      BY <1>3, <1>4, <3>1 DEF PlaceInv
  <2> QED
    BY <1>4, <1>6, <1>10, <2>1, AscendingConcat DEF PlaceInv
<1>12. \A x \in Range(Pipeline') : x <= captured'
  <2>1. Range(Pipeline') = Range(Pipeline) \cup Range(new)
    BY <1>4, <1>10, JoinedSeqs
  <2>2. Range(Pipeline) \subseteq Int /\ Range(new) \subseteq Int
    BY <1>4, <1>6, <1>10, RangeOfSeq
  <2> QED
    BY <1>1, <1>3, <1>4, <2>1, <2>2 DEF PlaceInv
<1>13. WholeTurn(ring')
  BY <1>4, <1>5, <1>6, TurnsJoin DEF PlaceInv, WholeTurn
<1>14. WholeTurn(received') /\ WholeTurn(frames') /\ WholeTurn(popped')
  BY <1>2 DEF PlaceInv
<1> QED
  BY <1>1, <1>8, <1>9, <1>11, <1>12, <1>13, <1>14 DEF PlaceInv

\* A poll of the drain finds a whole frame before it pops one.
LEMMA PollKeepsOrder ==
    ASSUME SamplesInv, DrainPoll
    PROVE  SamplesInv'
<1>1. UNCHANGED <<captured, ring, popped, frames, received>>
  BY DEF DrainPoll, DrainOnly, callbackVars, callerVars
<1>2. SamplesOK' /\ PlaceInv'
  BY <1>1 DEF SamplesInv, SamplesOK, PlaceInv, Pipeline, WholeTurn, Contract!InPlace, Ascending
<1>3. drain = "poll" /\ drain' # "send" /\ (drain' = "pop" => ~(Len(ring) < PacketSamples))
  BY DEF DrainPoll, DrainMoves
<1>4. Len(ring) \in Nat /\ PacketSamples \in Nat
  BY LenProperties, SizesAssumption DEF SamplesInv, SamplesOK
<1>5. /\ drain' # "send" => popped' = <<>>
      /\ drain' = "pop" => Len(ring') >= PacketSamples
  BY <1>1, <1>3, <1>4 DEF SamplesInv, FramesWhole
<1>6. FramesWhole'
  BY <1>1, <1>3, <1>5 DEF SamplesInv, FramesWhole
<1> QED
  BY <1>2, <1>6 DEF SamplesInv

\* A frame popped is cut from the ring after a whole number of turns.
LEMMA PopKeepsOrder ==
    ASSUME SamplesInv, DrainPops
    PROVE  SamplesInv'
<1> USE DEF SamplesInv
<1>1. /\ received \in Seq(Samples) /\ frames \in Seq(Samples) /\ ring \in Seq(Samples)
      /\ Len(ring) \in Nat /\ PacketSamples \in Nat /\ RingCapacity \in Nat
  BY LenProperties, SizesAssumption DEF SamplesOK
<1>2. popped = <<>> /\ PacketSamples <= Len(ring)
  BY DEF DrainPops, DrainMoves, FramesWhole
<1>3. /\ popped' = SubSeq(ring, 1, PacketSamples) /\ drain' = "send"
      /\ ring' = SubSeq(ring, PacketSamples + 1, Len(ring))
      /\ UNCHANGED <<captured, frames, received>>
  BY DEF DrainPops, DrainMoves, DrainOnly, callbackVars, callerVars
<1>4. /\ popped' \in Seq(Samples) /\ Len(popped') = PacketSamples
      /\ ring' \in Seq(Samples) /\ Len(ring') = Len(ring) - PacketSamples
  BY <1>1, <1>2, <1>3, SplitSeq
<1>5. SamplesOK' /\ FramesWhole'
  <2>1. Len(ring') <= RingCapacity
    BY <1>1, <1>4 DEF SamplesOK
  <2> QED
    BY <1>3, <1>4, <2>1 DEF SamplesOK, FramesWhole
<1>6. Pipeline' = Pipeline
  <2>1. received \o frames \in Seq(Samples)
    BY <1>1, JoinedSeqs
  <2>2. ((received \o frames) \o SubSeq(ring, 1, PacketSamples))
              \o SubSeq(ring, PacketSamples + 1, Len(ring))
           = ((received \o frames) \o <<>>) \o ring
    BY <1>1, <1>2, <2>1, PipelinePops
  <2> QED
    BY <1>2, <1>3, <2>2 DEF Pipeline
<1>7. WholeTurn(popped') /\ WholeTurn(ring')
  <2>1. PacketSamples % Channels = 0
    BY SizesAssumption
  <2> QED
    BY <1>1, <1>2, <1>3, <2>1, TurnsCut DEF PlaceInv
<1> QED
  BY <1>3, <1>5, <1>6, <1>7 DEF PlaceInv

\* A frame that finds room joins those in the channel, one that does not leaves a gap.
LEMMA SendKeepsOrder ==
    ASSUME SamplesInv, DrainSends
    PROVE  SamplesInv'
<1> USE DEF SamplesInv
<1>1. /\ received \in Seq(Samples) /\ frames \in Seq(Samples) /\ popped \in Seq(Samples)
      /\ ring \in Seq(Samples) /\ Samples \in SUBSET Int
  BY DEF SamplesOK, Samples
<1>2. /\ popped' = <<>> /\ drain' = "loop" /\ Len(popped) = PacketSamples
      /\ UNCHANGED <<captured, ring, received>>
  BY DEF DrainSends, DrainMoves, DrainOnly, FramesWhole, callbackVars, callerVars
<1>3. popped' \in Seq(Samples) /\ WholeTurn(popped')
  BY <1>2, EmptyTurn
<1>4. CASE Len(frames) < ChannelCapacity * PacketSamples /\ frames' = frames \o popped
  <2>1. frames' \in Seq(Samples) /\ Len(frames') = Len(frames) + PacketSamples
    BY <1>1, <1>2, <1>4, ConcatProperties
  <2>2. \E k \in 0 .. ChannelCapacity : Len(frames') = k * PacketSamples
    <3>1. PacketSamples \in Nat \ {0} /\ ChannelCapacity \in Nat
      BY SizesAssumption
    <3>2. \E k \in 0 .. ChannelCapacity : Len(frames) = k * PacketSamples
      BY DEF FramesWhole
    <3>3. \E k \in 0 .. ChannelCapacity : Len(frames) + PacketSamples = k * PacketSamples
      BY <1>4, <3>1, <3>2, WholeFrames
    <3> QED
      BY <2>1, <3>3
  <2>3. SamplesOK' /\ FramesWhole'
    BY <1>2, <1>3, <2>1, <2>2 DEF SamplesOK, FramesWhole
  <2>4. Pipeline' = Pipeline
    <3>1. (received \o (frames \o popped)) \o <<>> = (received \o frames) \o popped
      BY <1>1, PipelineSends
    <3> QED
      BY <1>2, <1>4, <3>1 DEF Pipeline
  <2>5. WholeTurn(frames')
    BY <1>1, <1>4, TurnsJoin DEF PlaceInv, WholeTurn
  <2> QED
    BY <1>2, <1>3, <2>3, <2>4, <2>5 DEF PlaceInv
<1>5. CASE UNCHANGED frames
  <2>1. SamplesOK' /\ FramesWhole'
    BY <1>2, <1>3, <1>5 DEF SamplesOK, FramesWhole
  <2> DEFINE head == received \o frames
  <2>2. head \in Seq(Samples)
    BY <1>1, JoinedSeqs
  <2>3. Pipeline = (head \o popped) \o ring /\ Pipeline' = (head \o <<>>) \o ring
    BY <1>2, <1>5 DEF Pipeline
  <2> HIDE DEF head
  <2>4. Ascending((head \o popped) \o ring)
    BY <2>3 DEF PlaceInv
  <2>5. /\ (head \o <<>>) \o ring = head \o ring
        /\ Ascending(head \o ring)
        /\ Range((head \o popped) \o ring) = Range(head \o ring) \cup Range(popped)
    BY <1>1, <2>2, <2>4, PipelineDrops
  <2>6. Ascending(Pipeline') /\ Range(Pipeline') \subseteq Range(Pipeline)
    BY <2>3, <2>5
  <2> QED
    BY <1>2, <1>3, <1>5, <2>1, <2>6 DEF PlaceInv
<1> QED
  BY <1>4, <1>5 DEF DrainSends

\* The caller receives the first frame of those in the channel.
LEMMA ReceiveKeepsOrder ==
    ASSUME SamplesInv, Receive
    PROVE  SamplesInv'
<1> USE DEF SamplesInv
<1>1. /\ received \in Seq(Samples) /\ frames \in Seq(Samples) /\ PacketSamples \in Nat \ {0}
      /\ ChannelCapacity \in Nat
  BY SizesAssumption DEF SamplesOK
<1>2. /\ received' = received \o SubSeq(frames, 1, PacketSamples)
      /\ frames' = SubSeq(frames, PacketSamples + 1, Len(frames)) /\ frames # <<>>
      /\ UNCHANGED <<captured, ring, popped, drain>>
  BY DEF Receive, CallerOnly, callbackVars, drainVars
<1>3. Len(frames) # 0 /\ \E k \in 0 .. ChannelCapacity : Len(frames) = k * PacketSamples
  BY <1>1, <1>2, EmptySeq DEF FramesWhole
<1>4. /\ PacketSamples <= Len(frames)
      /\ \E k \in 0 .. ChannelCapacity : Len(frames) - PacketSamples = k * PacketSamples
  BY <1>1, <1>3, WholeFrames
<1> DEFINE front == SubSeq(frames, 1, PacketSamples)
<1>5. /\ front \in Seq(Samples)
      /\ frames' \in Seq(Samples) /\ Len(frames') = Len(frames) - PacketSamples
  BY <1>1, <1>2, <1>4, SplitSeq
<1>6. received' \in Seq(Samples)
  BY <1>1, <1>2, <1>5, ConcatProperties
<1>7. SamplesOK' /\ FramesWhole'
  BY <1>2, <1>4, <1>5, <1>6 DEF SamplesOK, FramesWhole
<1>8. Pipeline' = Pipeline
  <2>1. (received \o SubSeq(frames, 1, PacketSamples))
             \o SubSeq(frames, PacketSamples + 1, Len(frames)) = received \o frames
    BY <1>1, <1>4, Regroup
  <2> QED
    BY <1>2, <2>1 DEF Pipeline
<1>9. WholeTurn(front) /\ WholeTurn(frames')
  <2>1. PacketSamples % Channels = 0
    BY SizesAssumption
  <2> QED
    BY <1>1, <1>2, <1>4, <2>1, TurnsCut DEF PlaceInv
<1> HIDE DEF front
<1>10. WholeTurn(received')
  <2>1. received' = received \o front
    BY <1>2 DEF front
  <2> QED
    BY <1>1, <1>5, <1>9, <2>1, TurnsJoin DEF PlaceInv, WholeTurn
<1> QED
  BY <1>2, <1>7, <1>8, <1>9, <1>10 DEF PlaceInv

\* The samples are in order from the device to the caller, whoever moves when.
LEMMA SamplesCorrect == Spec => []SamplesInv
<1>1. Init => SamplesInv
  <2> SUFFICES ASSUME Init PROVE SamplesInv
    OBVIOUS
  <2>1. /\ received = <<>> /\ frames = <<>> /\ popped = <<>> /\ ring = <<>>
        /\ captured = 0 /\ drain = "none"
    BY DEF Init
  <2>2. /\ <<>> \in Seq(Samples) /\ Len(<<>>) = 0 /\ DOMAIN <<>> = {} /\ Range(<<>>) = {}
        /\ <<>> \o <<>> = <<>>
    <3>1. <<>> \in Seq(Samples) /\ Len(<<>>) = 0
      BY EmptySeq
    <3>2. <<>> \o <<>> = <<>> /\ DOMAIN <<>> = {}
      BY <3>1, ConcatEmptySeq, LenProperties
    <3> QED
      BY <3>1, <3>2 DEF Range
  <2>3. SamplesOK /\ FramesWhole
    BY <2>1, <2>2, SizesAssumption DEF SamplesOK, FramesWhole
  <2>4. Pipeline = <<>>
    BY <2>1, <2>2 DEF Pipeline
  <2>5. Ascending(Pipeline) /\ \A x \in Range(Pipeline) : x <= captured
    BY <2>2, <2>4 DEF Ascending
  <2>6. captured % Channels = 0
    BY <2>1, SizesAssumption
  <2> QED
    BY <2>1, <2>3, <2>5, <2>6, EmptyTurn DEF SamplesInv, PlaceInv
<1>2. ASSUME ControlInv, SamplesInv, [Next]_vars PROVE SamplesInv'
  <2>1. SessionInv
    BY <1>2 DEF ControlInv
  <2> QED
    BY <1>2, <2>1, WhoMovesSamples, SamplesUntouched, CallbackKeepsOrder, PollKeepsOrder,
       PopKeepsOrder, SendKeepsOrder, ReceiveKeepsOrder
<1> QED
  BY <1>1, <1>2, ControlCorrect, PTL DEF Spec

\* Every variable keeps to its kind of values: no part of the chain but the four exists or
\* is due to be destroyed, and neither ring nor channel outgrows its capacity.
THEOREM TypeTheorem == Spec => []TypeOK
<1>1. ASSUME ControlInv, SamplesInv PROVE TypeOK
  <2>1. Range(Chain) = {"tap", "aggregate", "ioproc", "device"}
    BY DEF Chain, Range
  <2>2. live \subseteq Range(Chain)
    BY <1>1, <2>1 DEF ControlInv, ControlOK, ChainInv
  <2>3. todo \in Seq(Range(Chain))
    <3>1. \/ todo = <<>> \/ todo = <<"tap">> \/ todo = <<"aggregate", "tap">>
          \/ todo = <<"ioproc", "aggregate", "tap">>
          \/ todo = <<"device", "ioproc", "aggregate", "tap">>
      BY <1>1 DEF ControlInv, ChainInv
    <3> DEFINE S == Range(Chain)
    <3>2. "tap" \in S /\ "aggregate" \in S /\ "ioproc" \in S /\ "device" \in S
      BY <2>1
    <3> HIDE DEF S
    <3>3. <<>> \in Seq(S)
      OBVIOUS
    <3>4. <<"tap">> \in Seq(S)
      BY <3>2
    <3>5. <<"aggregate", "tap">> \in Seq(S)
      BY <3>2
    <3>6. <<"ioproc", "aggregate", "tap">> \in Seq(S)
      BY <3>2
    <3>7. <<"device", "ioproc", "aggregate", "tap">> \in Seq(S)
      BY <3>2
    <3> QED
      BY <3>1, <3>3, <3>4, <3>5, <3>6, <3>7 DEF S
  <2>4. Len(frames) <= ChannelCapacity * PacketSamples
    <3>1. PacketSamples \in Nat \ {0} /\ ChannelCapacity \in Nat
      BY SizesAssumption
    <3>2. \E k \in 0 .. ChannelCapacity : Len(frames) = k * PacketSamples
      BY <1>1 DEF SamplesInv, FramesWhole
    <3> QED
      BY <3>1, <3>2, WholeFrames
  <2> QED
    BY <1>1, <2>2, <2>3, <2>4 DEF TypeOK, ControlInv, ControlOK, SamplesInv, SamplesOK
<1> QED
  BY <1>1, ControlCorrect, SamplesCorrect, PTL

-----------------------------------------------------------------------------
(* The contract *)

\* What the caller of a session sees of a step: nothing.
LEMMA Unseen ==
    ASSUME UNCHANGED <<session, frames, received, failure, reported, health>>
    PROVE  UNCHANGED Contract!vars
  BY DEF Contract!vars, Phase

\* A frame that the drain sends is one that the contract delivers.
LEMMA SendDelivers ==
    ASSUME ControlInv, SamplesInv, SamplesInv', DrainSends, frames' = frames \o popped
    PROVE  Contract!Deliver
<1>1. UNCHANGED <<session, received, failure, reported, health>> /\ drain = "send"
  BY DEF DrainSends, DrainMoves, DrainOnly, callbackVars, callerVars
<1>2. Len(popped) = PacketSamples
  BY <1>1 DEF SamplesInv, FramesWhole
<1>3. session \in {"running", "flagging", "joinCapture", "joinDrain"}
  BY <1>1 DEF ControlInv, ControlOK, SessionInv
<1>4. Phase \in {"running", "stopping"} /\ Phase' = Phase
  BY <1>1, <1>3 DEF Phase
<1>5. /\ frames \in Seq(Samples) /\ popped \in Seq(Samples) /\ frames' \in Seq(Samples)
      /\ received' \in Seq(Samples) /\ popped' \in Seq(Samples) /\ ring' \in Seq(Samples)
      /\ Samples \in SUBSET Int
  BY DEF SamplesInv, SamplesOK, Samples
<1>6. Len(frames) \in Nat /\ Len(frames') = Len(frames) + Len(popped)
  BY <1>5, LenProperties, ConcatProperties
<1>7. Contract!IsPrefix(frames, frames')
  <2>1. \A i \in 1 .. Len(frames) : frames'[i] = frames[i]
    BY <1>5, <1>6, ConcatProperties
  <2>2. Len(frames) <= Len(frames')
    BY <1>5, <1>6, LenProperties
  <2>3. SubSeq(frames', 1, Len(frames)) = frames
    BY <1>5, <2>1, <2>2, SamplesStart
  <2> QED
    BY <1>5, <2>1, <2>2, <2>3, SubSeqFull DEF Contract!IsPrefix
<1>8. Contract!Increasing(received' \o frames')
  <2>1. Ascending(((received' \o frames') \o popped') \o ring')
    BY DEF SamplesInv, PlaceInv, Pipeline
  <2>2. Ascending(received' \o frames')
    BY <1>5, <2>1, FrontAscends
  <2> QED
    BY <2>2 DEF Contract!Increasing, Ascending
<1>9. Contract!InPlace(received' \o frames')
  <2>1. WholeTurn(received') /\ WholeTurn(frames')
    BY DEF SamplesInv, PlaceInv
  <2>2. WholeTurn(received' \o frames')
    <3>1. Len(received') % Channels = 0
      BY <2>1 DEF WholeTurn
    <3> QED
      BY <1>5, <2>1, <3>1, TurnsJoin
  <2> QED
    BY <2>2 DEF WholeTurn
<1> QED
  BY <1>1, <1>2, <1>4, <1>6, <1>7, <1>8, <1>9 DEF Contract!Deliver

\* Every step of the session is a step of the contract, or nothing the caller sees.
LEMMA ContractStep ==
    ASSUME ControlInv, SamplesInv, SamplesInv', [Next]_vars
    PROVE  [Contract!Next]_(Contract!vars)
<1>1. CASE ThreadNext
  BY <1>1, Unseen, ThreadAlone
<1>2. CASE CallbackStarts \/ CallbackPushes \/ CallbackReports
  BY <1>2, Unseen DEF CallbackStarts, CallbackPushes, CallbackReports, CallbackOnly, callerVars
<1>3. CASE CallbackPanics
  <2>1. UNCHANGED <<session, frames, received, reported, health>> /\ failure' # "none"
    BY <1>3 DEF CallbackPanics, CallbackOnly, callerVars
  <2>2. Contract!Breaks
    BY <2>1 DEF Contract!Breaks, Phase
  <2> QED
    BY <2>2 DEF Contract!Next
<1>4. CASE DrainTest \/ DrainPoll \/ DrainPops
  BY <1>4, Unseen DEF DrainTest, DrainPoll, DrainPops, DrainOnly, callbackVars, callerVars
<1>5. CASE DrainSends
  <2>1. CASE frames' = frames
    <3>1. UNCHANGED <<session, received, failure, reported, health>>
      BY <1>5 DEF DrainSends, DrainOnly, callbackVars, callerVars
    <3> QED
      BY <2>1, <3>1, Unseen
  <2>2. CASE frames' = frames \o popped
    BY <1>5, <2>2, SendDelivers DEF Contract!Next
  <2> QED
    BY <1>5, <2>1, <2>2 DEF DrainSends
<1>6. CASE Refused \/ Abandoned \/ SpawnDrain
  <2>1. Contract!Starts
    BY <1>6 DEF Refused, Abandoned, SpawnDrain, CallerMoves, callbackVars, Contract!Starts,
       Phase
  <2> QED
    BY <2>1 DEF Contract!Next
<1>7. CASE \/ SpawnThread \/ StartReturns \/ SpawnDrainFails \/ FlagStop \/ JoinCapture
  <2>1. Phase' = Phase
    BY <1>7 DEF SpawnThread, StartReturns, SpawnDrainFails, FlagStop, JoinCapture,
       CallerMoves, Phase
  <2>2. UNCHANGED <<frames, received, failure, reported, health>>
    BY <1>7 DEF SpawnThread, StartReturns, SpawnDrainFails, FlagStop, JoinCapture,
       CallerMoves, callbackVars
  <2> QED
    BY <2>1, <2>2 DEF Contract!vars
<1>8. CASE JoinDrain
  <2>1. Contract!Stopped
    BY <1>8 DEF JoinDrain, CallerMoves, callbackVars, Contract!Stopped, Phase
  <2> QED
    BY <2>1 DEF Contract!Next
<1>9. CASE DropSession
  <2>1. Contract!Stops
    BY <1>9 DEF DropSession, CallerMoves, callbackVars, Contract!Stops, Phase
  <2> QED
    BY <2>1 DEF Contract!Next
<1>10. CASE Receive
  <2>1. Contract!Receive
    BY <1>10 DEF Receive, CallerOnly, callbackVars, Contract!Receive, Phase
  <2> QED
    BY <2>1 DEF Contract!Next
<1>11. CASE CheckHealth
  <2>1. /\ session = "running" /\ reported' = (reported \/ Unhealthy)
        /\ UNCHANGED <<session, frames, received, failure, health>>
    BY <1>11 DEF CheckHealth, CallerOnly, callbackVars
  <2>2. CASE Unhealthy
    <3>1. failure # "none"
      BY <2>1, <2>2 DEF Unhealthy, SenderGone, ControlInv, SessionInv, AlarmInv
    <3>2. Contract!Alarms
      BY <2>1, <2>2, <3>1 DEF Contract!Alarms, Phase
    <3> QED
      BY <3>2 DEF Contract!Next
  <2>3. CASE ~Unhealthy
    <3>1. reported' = reported
      BY <2>1, <2>3 DEF ControlInv, ControlOK
    <3> QED
      BY <2>1, <3>1, Unseen
  <2> QED
    BY <2>2, <2>3
<1>12. CASE CallStop
  <2>1. /\ session = "running" /\ session' = "flagging"
        /\ health' = IF Unhealthy THEN "err" ELSE "ok"
        /\ UNCHANGED <<frames, received, failure, reported>>
    BY <1>12 DEF CallStop, CallerOnly, callbackVars
  <2>2. health = "none"
    BY <2>1 DEF ControlInv, SessionInv
  <2>3. Unhealthy => failure # "none"
    BY <2>1 DEF Unhealthy, SenderGone, ControlInv, SessionInv, AlarmInv
  <2>4. Contract!Stops
    BY <2>1, <2>2, <2>3 DEF Contract!Stops, Phase
  <2> QED
    BY <2>4 DEF Contract!Next
<1>13. CASE UNCHANGED vars
  BY <1>13, Unseen DEF vars, callbackVars, callerVars
<1> QED
  BY <1>1, <1>2, <1>3, <1>4, <1>5, <1>6, <1>7, <1>8, <1>9, <1>10, <1>11, <1>12, <1>13
     DEF Next, CallbackNext, DrainNext, CallerNext, CallerProceeds

\* The session keeps the contract: its thread, callback, drain, ring and flag look to the
\* caller like one CaptureContract, every sample in the place of its channel, for every
\* number of channels and whatever lists of buffers the device hands over.
THEOREM ContractTheorem == Spec => ImplementsContract
<1>1. Init => Contract!Init
  BY DEF Init, Contract!Init, Phase
<1> QED
  BY <1>1, ContractStep, ControlCorrect, SamplesCorrect, PTL
     DEF Spec, ImplementsContract, Contract!Spec
=============================================================================
