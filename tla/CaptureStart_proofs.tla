-------------------------- MODULE CaptureStart_proofs --------------------------
(***************************************************************************)
(* Theorems about CaptureStart for every listing, selector and list of     *)
(* endpoints.                                                              *)
(***************************************************************************)
EXTENDS CaptureStart, SampleLemmas, FiniteSetTheorems

-----------------------------------------------------------------------------
(* The setup, place by place *)

\* What the thread holds besides COM before the k-th step of its setup.
SystemHeld(k) ==
         (IF k \in 6 .. 10 THEN {"mixFormat"} ELSE {})
    \cup (IF k \in 9 .. 11 THEN {"event"} ELSE {})

ProcessHeld(k) ==
         (IF k \in 3 .. 4 THEN {"done"} ELSE {})
    \cup (IF k \in 8 .. 10 THEN {"event"} ELSE {})

\* The rest of a sequence is a suffix of it.
LEMMA RestIsSuffix ==
    ASSUME NEW S, NEW s \in Seq(S), NEW k \in 1 .. Len(s) + 1
    PROVE  IsSuffix(SubSeq(s, k, Len(s)), s)
<1> DEFINE n == Len(s)  t == SubSeq(s, k, n)
<1>1. n \in Nat /\ k \in Nat \ {0} /\ k <= n + 1 /\ \A i \in 1 .. n : s[i] \in S
  BY LenProperties, ElementOfSeq
<1>2. /\ t \in Seq(S) /\ Len(t) = (n - k) + 1
      /\ \A i \in 1 .. (n - k) + 1 : t[i] = s[(k + i) - 1]
  <2>1. \A i \in k .. n : s[i] \in S
    BY <1>1
  <2> HIDE DEF n
  <2> QED
    BY <1>1, <2>1, SubSeqProperties
<1> DEFINE m == (n - k) + 1
<1>3. m \in Nat /\ m <= n
  BY <1>1
<1> HIDE DEF n, t
<1>4. Reverse(t) = [i \in 1 .. m |-> t[(m - i) + 1]]
  BY <1>2 DEF Reverse
<1>5. Reverse(s) = [i \in 1 .. n |-> s[(n - i) + 1]]
  BY DEF Reverse, n
<1>6. ASSUME NEW i \in 1 .. m
      PROVE  t[(m - i) + 1] = s[(n - i) + 1]
  <2> DEFINE j == (m - i) + 1
  <2>1. j \in 1 .. m /\ (k + j) - 1 = (n - i) + 1
    BY <1>1, <1>3
  <2> HIDE DEF j
  <2>2. t[j] = s[(k + j) - 1]
    BY <1>2, <2>1
  <2> QED
    BY <2>1, <2>2 DEF j
<1>7. /\ Reverse(t) \in Seq(S) /\ Len(Reverse(t)) = m
      /\ Reverse(s) \in Seq(S) /\ Len(Reverse(s)) = n
  <2>1. \A i \in 1 .. m : t[(m - i) + 1] \in S
    <3>1. \A i \in 1 .. m : (n - i) + 1 \in 1 .. n
      BY <1>1, <1>3
    <3> QED
      BY <1>1, <1>6, <3>1
  <2>2. \A i \in 1 .. n : s[(n - i) + 1] \in S
    BY <1>1
  <2> HIDE DEF m
  <2> QED
    BY <1>1, <1>3, <1>4, <1>5, <2>1, <2>2
<1> HIDE DEF m
<1>8. \A i \in 1 .. m : Reverse(s)[i] = Reverse(t)[i]
  BY <1>1, <1>3, <1>4, <1>5, <1>6
<1>9. SubSeq(Reverse(s), 1, m) = Reverse(t)
  <2> DEFINE u == Reverse(s)  v == Reverse(t)
  <2>1. /\ u \in Seq(S) /\ v \in Seq(S) /\ Len(v) = m /\ Len(u) = n
        /\ \A i \in 1 .. m : u[i] = v[i]
    BY <1>7, <1>8
  <2> HIDE DEF u, v
  <2>2. \A i \in 1 .. m : u[i] \in S
    BY <1>3, <2>1, ElementOfSeq
  <2>3. /\ SubSeq(u, 1, m) \in Seq(S) /\ Len(SubSeq(u, 1, m)) = m
        /\ \A i \in 1 .. m : SubSeq(u, 1, m)[i] = u[i]
    BY <1>3, <2>2, SubSeqProperties
  <2>4. SubSeq(u, 1, m) = v
    BY <2>1, <2>3, SeqEqual
  <2> QED
    BY <2>4 DEF u, v
<1>10. IsPrefix(Reverse(t), Reverse(s))
  <2>1. SubSeq(Reverse(t), 1, m) = Reverse(t)
    BY <1>7, SubSeqFull
  <2> QED
    BY <1>3, <1>7, <1>9, <2>1 DEF IsPrefix
<1> QED
  BY <1>10 DEF IsSuffix, t, n

\* The steps of both setups.
Steps == {"com", "enumerator", "endpoint", "client", "mixFormat", "float", "done",
          "activation", "completion", "result", "initialize", "event", "handler", "service"}

\* The k-th step of a setup is due while what is left begins with it.
LEMMA StepDue ==
    ASSUME NEW s \in Seq(Steps), NEW k \in 1 .. Len(s), setup = SubSeq(s, k, Len(s))
    PROVE  setup # <<>> /\ Head(setup) = s[k] /\ Tail(setup) = SubSeq(s, k + 1, Len(s))
<1>1. Len(s) \in Nat /\ k \in Nat /\ k <= Len(s) /\ \A i \in 1 .. Len(s) : s[i] \in Steps
  BY LenProperties, ElementOfSeq
<1>2. Head(setup) = s[k] /\ Tail(setup) = SubSeq(s, k + 1, Len(s))
  BY <1>1, HeadTailOfSubSeq
<1>3. Len(setup) # 0
  <2>1. \A i \in k .. Len(s) : s[i] \in Steps
    BY <1>1
  <2>2. Len(setup) = (Len(s) - k) + 1
    BY <1>1, <2>1, SubSeqProperties
  <2> QED
    BY <1>1, <2>2
<1> QED
  BY <1>2, <1>3, EmptySeq

\* Nothing is due at the end of it.
LEMMA SetupOver ==
    ASSUME NEW s \in Seq(Steps)
    PROVE  SubSeq(s, Len(s) + 1, Len(s)) = <<>> /\ SubSeq(s, 1, Len(s)) = s
  BY LenProperties, SubSeqEmpty, SubSeqFull

\* The two setups as sequences.
LEMMA Setups ==
    /\ SystemSetup \in Seq(Steps) /\ Len(SystemSetup) = 10
    /\ ProcessSetup \in Seq(Steps) /\ Len(ProcessSetup) = 9
<1>1. Len(SystemSetup) = 10 /\ Len(ProcessSetup) = 9
  BY DEF SystemSetup, ProcessSetup
<1>2. SystemSetup \in [1 .. 10 -> Steps]
  BY DEF SystemSetup, Steps
<1>3. ProcessSetup \in [1 .. 9 -> Steps]
  BY DEF ProcessSetup, Steps
<1>4. \A n \in Nat : [1 .. n -> Steps] \subseteq Seq(Steps)
  BY SeqDef
<1>5. SystemSetup \in Seq(Steps)
  BY <1>2, <1>4
<1>6. ProcessSetup \in Seq(Steps)
  BY <1>3, <1>4
<1> QED
  BY <1>1, <1>5, <1>6

\* A step of the setup of an endpoint leads from what is held before it to what is held
\* before the next one.
LEMMA SystemAcquires ==
    ASSUME NEW k \in 1 .. 10, NEW step, step = SystemSetup[k]
    PROVE  /\ ((SystemHeld(k) \cup Acquires(step)) \ Spends(step)) \ {"com"}
                 = SystemHeld(k + 1)
           /\ Acquires(step) \subseteq Handles
           /\ step = "com" <=> k = 1
           /\ step = "endpoint" <=> k = 3
           /\ step \notin {"activation", "completion"}
           /\ k = 1 => SystemHeld(k) = SystemHeld(k + 1)
<1> USE DEF SystemSetup, SystemHeld, Acquires, Spends, Handles
<1>1. CASE k = 1
  BY <1>1
<1>2. CASE k = 2
  BY <1>2
<1>3. CASE k = 3
  BY <1>3
<1>4. CASE k = 4
  BY <1>4
<1>5. CASE k = 5
  BY <1>5
<1>6. CASE k = 6
  BY <1>6
<1>7. CASE k = 7
  BY <1>7
<1>8. CASE k = 8
  BY <1>8
<1>9. CASE k = 9
  BY <1>9
<1>10. CASE k = 10
  BY <1>10
<1> QED
  BY <1>1, <1>2, <1>3, <1>4, <1>5, <1>6, <1>7, <1>8, <1>9, <1>10

\* So does a step of the setup of a process.
LEMMA ProcessAcquires ==
    ASSUME NEW k \in 1 .. 9, NEW step, step = ProcessSetup[k]
    PROVE  /\ ((ProcessHeld(k) \cup Acquires(step)) \ Spends(step)) \ {"com"}
                 = ProcessHeld(k + 1)
           /\ Acquires(step) \subseteq Handles
           /\ step = "com" <=> k = 1
           /\ step \notin {"endpoint", "float"}
           /\ k = 1 => ProcessHeld(k) = ProcessHeld(k + 1)
<1> USE DEF ProcessSetup, ProcessHeld, Acquires, Spends, Handles
<1>1. CASE k = 1
  BY <1>1
<1>2. CASE k = 2
  BY <1>2
<1>3. CASE k = 3
  BY <1>3
<1>4. CASE k = 4
  BY <1>4
<1>5. CASE k = 5
  BY <1>5
<1>6. CASE k = 6
  BY <1>6
<1>7. CASE k = 7
  BY <1>7
<1>8. CASE k = 8
  BY <1>8
<1>9. CASE k = 9
  BY <1>9
<1> QED
  BY <1>1, <1>2, <1>3, <1>4, <1>5, <1>6, <1>7, <1>8, <1>9

\* The lists of handles that the thread closes one after the other.
ClosingLists == {<<>>, <<"done">>, <<"mixFormat">>, <<"event">>, <<"event", "mixFormat">>}

\* A list of them names no handle twice, and the rest of it all but the first one.
LEMMA ClosingOrder ==
    ASSUME NEW c \in ClosingLists
    PROVE  /\ c \in Seq(Handles) /\ IsInjective(c) /\ Range(c) \subseteq Handles \ {"com"}
           /\ c # <<>> => /\ Tail(c) \in ClosingLists
                          /\ Range(Tail(c)) = Range(c) \ {Head(c)}
<1> USE DEF ClosingLists, Handles, IsInjective, Range
<1>1. CASE c = <<>>
  BY <1>1
<1>2. CASE c = <<"done">>
  BY <1>2
<1>3. CASE c = <<"mixFormat">>
  BY <1>3
<1>4. CASE c = <<"event">>
  BY <1>4
<1>5. CASE c = <<"event", "mixFormat">>
  BY <1>5
<1> QED
  BY <1>1, <1>2, <1>3, <1>4, <1>5

\* Two lists of one handle each make up a list of two.
LEMMA PairJoins ==
    ASSUME NEW a, NEW b
    PROVE  <<a>> \o <<b>> = <<a, b>>
<1> DEFINE S == {a, b}  s == <<a>>  t == <<b>>  u == <<a, b>>
<1>1. a \in S /\ b \in S
  OBVIOUS
<1> HIDE DEF S
<1>2. s \in Seq(S) /\ t \in Seq(S) /\ u \in Seq(S)
  BY <1>1
<1>3. Len(s) = 1 /\ Len(t) = 1 /\ Len(u) = 2 /\ s[1] = u[1] /\ t[1] = u[2]
  OBVIOUS
<1> HIDE DEF s, t, u
<1>4. s \o t \in Seq(S) /\ Len(s \o t) = 2 /\ (s \o t)[1] = s[1] /\ (s \o t)[2] = t[1]
  <2>1. /\ s \o t \in Seq(S) /\ Len(s \o t) = Len(s) + Len(t)
        /\ \A i \in 1 .. Len(s) + Len(t) :
              (s \o t)[i] = IF i <= Len(s) THEN s[i] ELSE t[i - Len(s)]
    BY <1>2, ConcatProperties
  <2>2. 1 \in 1 .. Len(s) + Len(t) /\ 2 \in 1 .. Len(s) + Len(t)
    BY <1>3
  <2> QED
    BY <1>3, <2>1, <2>2
<1>5. s \o t = u
  BY <1>2, <1>3, <1>4, SeqEqual
<1> QED
  BY <1>5 DEF s, t, u

\* Where a step of the setup of an endpoint fails, the code names what is held before it ...
LEMMA SystemReleases ==
    ASSUME NEW k \in 2 .. 10, backend = "system"
    PROVE  /\ ReleasedAfter(SystemSetup[k]) \in ClosingLists
           /\ Range(ReleasedAfter(SystemSetup[k])) = SystemHeld(k)
<1>1. CASE k \in 2 .. 5
  <2>1. ReleasedAfter(SystemSetup[k]) = <<>>
    BY <1>1 DEF ReleasedAfter, SystemSetup
  <2> QED
    BY <1>1, <2>1 DEF ClosingLists, SystemHeld, Range
<1>2. CASE k \in 6 .. 8
  <2>1. ReleasedAfter(SystemSetup[k]) = <<"mixFormat">>
    BY <1>2 DEF ReleasedAfter, SystemSetup, MixFormat
  <2> QED
    BY <1>2, <2>1 DEF ClosingLists, SystemHeld, Range
<1>3. CASE k \in 9 .. 10
  <2>1. ReleasedAfter(SystemSetup[k]) = <<"event", "mixFormat">>
    <3>1. MixFormat = <<"mixFormat">>
      BY DEF MixFormat
    <3>2. SystemSetup[k] \in {"handler", "service"}
      BY <1>3 DEF SystemSetup
    <3>3. ReleasedAfter(SystemSetup[k]) = <<"event">> \o MixFormat
      BY <3>2 DEF ReleasedAfter
    <3>4. <<"event">> \o <<"mixFormat">> = <<"event", "mixFormat">>
      BY PairJoins
    <3> QED
      BY <3>1, <3>3, <3>4
  <2>2. Range(<<"event", "mixFormat">>) = {"event", "mixFormat"}
    BY DEF Range
  <2> QED
    BY <1>3, <2>1, <2>2 DEF ClosingLists, SystemHeld
<1> QED
  BY <1>1, <1>2, <1>3

\* ... and so it does in the setup of a process.
LEMMA ProcessReleases ==
    ASSUME NEW k \in 2 .. 9, backend = "process"
    PROVE  /\ ReleasedAfter(ProcessSetup[k]) \in ClosingLists
           /\ Range(ReleasedAfter(ProcessSetup[k])) = ProcessHeld(k)
<1>1. CASE k \in {2, 5, 6, 7}
  <2>1. ReleasedAfter(ProcessSetup[k]) = <<>>
    BY <1>1 DEF ReleasedAfter, ProcessSetup, MixFormat
  <2> QED
    BY <1>1, <2>1 DEF ClosingLists, ProcessHeld, Range
<1>2. CASE k \in 3 .. 4
  <2>1. ReleasedAfter(ProcessSetup[k]) = <<"done">>
    BY <1>2 DEF ReleasedAfter, ProcessSetup
  <2> QED
    BY <1>2, <2>1 DEF ClosingLists, ProcessHeld, Range
<1>3. CASE k \in 8 .. 9
  <2>1. ReleasedAfter(ProcessSetup[k]) = <<"event">>
    BY <1>3 DEF ReleasedAfter, ProcessSetup, MixFormat
  <2> QED
    BY <1>3, <2>1 DEF ClosingLists, ProcessHeld, Range
<1> QED
  BY <1>1, <1>2, <1>3

-----------------------------------------------------------------------------
(* Where the start is, and what it holds there *)

\* The stages in which no setup has begun.
Early == {"request", "selected", "unresolved", "backend", "ready", "failed"}

\* Which backend and system a stage is left to, and the source that leads there.
StageInv ==
    /\ stage \in Early => open = {} /\ setup = <<>> /\ endpoint = 0
    /\ stage \in {"request", "selected", "unresolved", "ready", "failed"} => backend = "none"
    /\ stage \in {"backend", "setup", "closing", "over"} => backend # "none"
    /\ stage \in {"ready", "running"} /\ backend = "none" => system = "macOS"
    /\ stage \in {"request", "selected"} => streams \in Listings
    /\ backend = "none" => setup = <<>> /\ endpoint = 0 /\ open = {}
    /\ backend = "process" => source.kind = "process" /\ system = "Windows 11"
    /\ backend = "system" =>
          /\ system # "macOS"
          /\ source.kind = "process" => system # "Windows 11"
    /\ source.kind = "process" => source.name = <<>>
    /\ stage \notin Early /\ backend # "none" => label # "none"

\* The setup is at its k-th step, or was when it failed.
SystemAt(k) ==
    /\ setup = SubSeq(SystemSetup, k, 10)
    /\ stage = "setup" => open \ {"com"} = SystemHeld(k)
    /\ stage = "running" => k = 11 /\ open \ {"com"} = SystemHeld(k)
    /\ endpoint = 0 <=> k <= 3

ProcessAt(k) ==
    /\ setup = SubSeq(ProcessSetup, k, 9)
    /\ stage = "setup" => open \ {"com"} = ProcessHeld(k)
    /\ stage = "running" => k = 10 /\ open \ {"com"} = ProcessHeld(k)
    /\ endpoint = 0

\* What is open is what the place of the setup says, then what is about to be closed.
HandlesInv ==
    /\ stage \notin Early /\ backend = "system" => \E k \in 1 .. 11 : SystemAt(k)
    /\ stage \notin Early /\ backend = "process" => \E k \in 1 .. 10 : ProcessAt(k)
    /\ stage = "closing" => closing \in ClosingLists /\ Range(closing) = open \ {"com"}
    /\ stage # "closing" => closing = <<>>
    /\ stage = "over" => open = {}

\* The parts of TypeOK that do not follow from the places of the setup.
ChoiceOK ==
    /\ system \in {"Windows 11", "Windows 10", "older Windows", "macOS"}
    /\ source.kind \in {"none", "process", "device"} /\ source.pid \in Nat
    /\ request \in Requests
    /\ stage \in {"request", "selected", "unresolved", "backend", "setup", "ready", "running",
                  "closing", "over", "failed"}
    /\ backend \in {"none", "process", "system"}

SetupOK ==
    /\ label \in Formats \cup {"none"}
    /\ endpoint \in {0} \cup DOMAIN Endpoints
    /\ open \subseteq Handles
    /\ activation \in {"none", "pending", "complete"} /\ signalled \in BOOLEAN
    /\ warned \in BOOLEAN

WorldOK ==
    /\ active \subseteq DOMAIN Endpoints /\ default \in {0} \cup active
    /\ changes \in 0 .. MaxChanges /\ doubts \subseteq {"unanswered", "moved"}

KindsOK == ChoiceOK /\ SetupOK /\ WorldOK

StartInv == KindsOK /\ StageInv /\ HandlesInv

\* An endpoint that is looked up is one of the list: the default one, or one of the name.
LEMMA LookupFinds ==
    ASSUME KindsOK
    PROVE  /\ Lookup \in {0} \cup DOMAIN Endpoints /\ 0 \notin DOMAIN Endpoints
           /\ Lookup # 0 /\ source.name # <<>> => Endpoints[Lookup].name = source.name
           /\ NativeFormats \subseteq Formats /\ "none" \notin Formats
<1> DEFINE named == {i \in active : Endpoints[i].name = source.name}
<1>1. DOMAIN Endpoints = 1 .. Len(Endpoints) /\ Len(Endpoints) \in Nat
  BY EndpointsAssumption, LenProperties
<1>2. 0 \notin DOMAIN Endpoints /\ active \subseteq DOMAIN Endpoints
      /\ default \in {0} \cup DOMAIN Endpoints
  <2>1. 0 \notin DOMAIN Endpoints
    BY <1>1
  <2> QED
    BY <2>1 DEF KindsOK, WorldOK
<1>3. named # {} => Min(named) \in named
  <2>1. ASSUME named # {} PROVE \E n \in named : \A m \in named : n <= m
    <3>1. named \in SUBSET Nat
      BY <1>1, <1>2
    <3> HIDE DEF named
    <3> QED
      BY <2>1, <3>1, LeastNatural
  <2> QED
    BY <2>1 DEF Min
<1>4. /\ source.name = <<>> => Lookup = default
      /\ source.name # <<>> /\ named = {} => Lookup = 0
      /\ source.name # <<>> /\ named # {} => Lookup \in named
  BY <1>3 DEF Lookup
<1>5. Lookup \in {0} \cup DOMAIN Endpoints
  BY <1>2, <1>4
<1>6. Lookup # 0 /\ source.name # <<>> => Endpoints[Lookup].name = source.name
  BY <1>4
<1>7. NativeFormats \subseteq Formats
  BY <1>5 DEF NativeFormats, Formats
<1>8. "none" \notin Formats
  BY EndpointsAssumption DEF Formats
<1> QED
  BY <1>2, <1>5, <1>6, <1>7, <1>8

\* Applications are processes of the listing, and not the capturing one.
LEMMA ListedPlay ==
    ASSUME streams \in Listings, NEW a \in Listed
    PROVE  /\ a.pid \in Nat /\ a.pid \notin {0, Self}
           /\ a.pid \in {streams[i].pid : i \in {j \in DOMAIN streams : streams[j].active}}
<1>1. \E i \in Audible(streams, Self) : a.pid = streams[i].pid
  <2> DEFINE names == [i \in DOMAIN streams |->
                          IF system = "macOS" THEN MacName(streams[i])
                          ELSE WindowsName(streams[i])]
             First(pid) == Min({i \in Audible(streams, Self) : streams[i].pid = pid})
  <2>1. a \in Applications(streams, Self, names)
    BY DEF Listed
  <2> HIDE DEF names
  <2>2. \E pid \in {streams[i].pid : i \in Audible(streams, Self)} :
           a = [pid |-> pid, name |-> names[First(pid)],
                identifier |-> streams[First(pid)].identifier]
    BY <2>1 DEF Applications
  <2> HIDE DEF First
  <2> QED
    BY <2>2
<1>2. \A i \in DOMAIN streams : streams[i].pid \in Nat
  BY PidsAssumption
<1> QED
  BY <1>1, <1>2 DEF Audible

\* Only listed applications are resolved.
LEMMA ResolvedAreListed ==
    ASSUME NEW selector, NEW applications
    PROVE  Resolve(selector, applications) \subseteq applications
  BY DEF Resolve

\* The choice of a source and of a backend acquires nothing.
LEMMA ChoiceStep ==
    ASSUME StartInv,
           \/ ResolvesApp \/ TakesRequest \/ TakesDevice \/ ListingFails \/ ChoosesBackend
           \/ MacFails
    PROVE  StartInv'
<1> USE DEF StartInv
<1>1. UNCHANGED <<system, request, warned, label, setup, endpoint, open, closing, activation,
                  signalled, active, default, changes, doubts>>
  BY DEF ResolvesApp, TakesRequest, TakesDevice, ListingFails, ChoosesBackend, MacFails,
     choiceVars, threadVars, worldVars
<1>2. stage \in Early /\ stage' \in Early
  BY DEF ResolvesApp, TakesRequest, TakesDevice, ListingFails, ChoosesBackend, MacFails, Early
<1>3. HandlesInv'
  BY <1>1, <1>2 DEF HandlesInv, Early
<1>4. SetupOK' /\ WorldOK'
  BY <1>1 DEF KindsOK, SetupOK, WorldOK
<1>5. CASE ResolvesApp
  <2>1. /\ stage = "request" /\ stage' \in {"selected", "unresolved"}
        /\ UNCHANGED <<streams, backend>>
    BY <1>5 DEF ResolvesApp
  <2>2. streams \in Listings /\ backend = "none"
    BY <2>1 DEF StageInv
  <2>3. source' = source \/ \E a \in Listed : source' = Process(a.pid)
    BY <1>5, ResolvedAreListed DEF ResolvesApp
  <2>4. \/ source' = source
        \/ source'.kind = "process" /\ source'.pid \in Nat /\ source'.name = <<>>
    BY <2>2, <2>3, ListedPlay DEF Process
  <2>5. KindsOK'
    BY <1>1, <2>1, <2>4, <1>4 DEF KindsOK, ChoiceOK
  <2>6. StageInv'
    BY <1>1, <2>1, <2>2, <2>4 DEF StageInv, Early
  <2> QED
    BY <1>3, <2>5, <2>6
<1>6. CASE TakesRequest
  <2>1. /\ stage = "request" /\ stage' = "selected" /\ UNCHANGED <<streams, backend>>
    BY <1>6 DEF TakesRequest
  <2>2. \/ source'.kind = "process" /\ source'.pid \in Nat /\ source'.name = <<>>
        \/ source'.kind = "device" /\ source'.pid \in Nat
    <3>1. request.kind = "pid" => request.pid \in Nat
      BY PidsAssumption DEF KindsOK, ChoiceOK, Requests
    <3> QED
      BY <1>6, <3>1 DEF TakesRequest, Process, OutputDevice
  <2>3. KindsOK'
    BY <1>1, <2>1, <2>2, <1>4 DEF KindsOK, ChoiceOK
  <2>4. StageInv'
    BY <1>1, <2>1, <2>2 DEF StageInv, Early
  <2> QED
    BY <1>3, <2>3, <2>4
<1>7. CASE TakesDevice
  <2>1. /\ stage = "request" /\ stage' = "selected" /\ UNCHANGED <<streams, backend>>
    BY <1>7 DEF TakesDevice
  <2>2. source'.kind = "device" /\ source'.pid \in Nat
    BY <1>7 DEF TakesDevice, OutputDevice
  <2>3. KindsOK'
    BY <1>1, <2>1, <2>2, <1>4 DEF KindsOK, ChoiceOK
  <2>4. StageInv'
    BY <1>1, <2>1, <2>2 DEF StageInv, Early
  <2> QED
    BY <1>3, <2>3, <2>4
<1>8. CASE ListingFails \/ MacFails
  <2>1. stage \in {"request", "ready"} /\ stage' = "failed" /\ UNCHANGED <<source, backend>>
    BY <1>8 DEF ListingFails, MacFails, choiceVars
  <2>2. KindsOK'
    BY <1>1, <2>1, <1>4 DEF KindsOK, ChoiceOK
  <2>3. StageInv'
    BY <1>1, <2>1 DEF StageInv, Early
  <2> QED
    BY <1>3, <2>2, <2>3
<1>9. CASE ChoosesBackend
  <2>1. /\ stage = "selected" /\ UNCHANGED source
        /\ \/ stage' = "failed" /\ backend' = backend
           \/ stage' = "ready" /\ backend' = backend /\ system = "macOS"
           \/ /\ stage' = "backend" /\ system # "macOS"
              /\ backend' = IF source.kind = "process" /\ system = "Windows 11" THEN "process"
                            ELSE "system"
    BY <1>9 DEF ChoosesBackend
  <2>2. KindsOK'
    BY <1>1, <2>1, <1>4 DEF KindsOK, ChoiceOK
  <2>3. StageInv'
    BY <1>1, <2>1 DEF StageInv, Early
  <2> QED
    BY <1>3, <2>2, <2>3
<1> QED
  BY <1>5, <1>6, <1>7, <1>8, <1>9

\* The setup begins with the first of its steps and nothing open.
LEMMA CachesStep ==
    ASSUME StartInv, CachesFormat
    PROVE  StartInv'
<1> USE DEF StartInv
<1>1. /\ stage = "backend" /\ stage' = "setup"
      /\ \/ backend = "process" /\ label' = "fixed" /\ setup' = ProcessSetup
         \/ backend = "system" /\ label' \in NativeFormats /\ setup' = SystemSetup
      /\ UNCHANGED <<system, streams, request, source, warned, backend, endpoint, open, closing,
                     activation, signalled, active, default, changes>>
      /\ doubts' \subseteq {"unanswered", "moved"}
  BY DEF CachesFormat, Caches, choiceVars
<1>2. open = {} /\ endpoint = 0 /\ closing = <<>>
  BY <1>1 DEF StageInv, HandlesInv, Early
<1>3. label' \in Formats /\ label' # "none"
  <2>1. "fixed" \in Formats
    BY DEF Formats
  <2> QED
    BY <1>1, <2>1, LookupFinds
<1>4. KindsOK'
  <2>1. ChoiceOK' /\ WorldOK'
    BY <1>1 DEF KindsOK, ChoiceOK, WorldOK
  <2>2. SetupOK'
    BY <1>1, <1>3 DEF KindsOK, SetupOK
  <2> QED
    BY <2>1, <2>2 DEF KindsOK
<1>5. StageInv'
  BY <1>1, <1>2, <1>3 DEF StageInv, Early
<1>6. HandlesInv'
  <2>1. CASE backend = "process"
    <3>1. setup' = SubSeq(ProcessSetup, 1, 9)
      BY <1>1, <2>1, Setups, SetupOver
    <3>2. ProcessAt(1)'
      BY <1>1, <1>2, <3>1 DEF ProcessAt, ProcessHeld
    <3>3. \E k \in 1 .. 10 : ProcessAt(k)'
      BY <3>2
    <3> QED
      BY <1>1, <1>2, <2>1, <3>3 DEF HandlesInv
  <2>2. CASE backend = "system"
    <3>1. setup' = SubSeq(SystemSetup, 1, 10)
      BY <1>1, <2>2, Setups, SetupOver
    <3>2. SystemAt(1)'
      BY <1>1, <1>2, <3>1 DEF SystemAt, SystemHeld
    <3>3. \E k \in 1 .. 11 : SystemAt(k)'
      BY <3>2
    <3> QED
      BY <1>1, <1>2, <2>2, <3>3 DEF HandlesInv
  <2> QED
    BY <1>1, <2>1, <2>2
<1> QED
  BY <1>4, <1>5, <1>6

\* A step of the setup leads to the next place, with what is held there.
LEMMA SucceedsStep ==
    ASSUME StartInv, StepSucceeds
    PROVE  StartInv'
<1> USE DEF StartInv
<1> DEFINE step == Head(setup)
<1>1. /\ stage = "setup" /\ setup # <<>>
      /\ step = "endpoint" => Lookup # 0
      /\ endpoint' = IF step = "endpoint" THEN Lookup ELSE endpoint
      /\ activation' = IF step = "activation" THEN "pending" ELSE activation
      /\ \/ open' = (open \cup Acquires(step)) \ Spends(step)
         \/ step = "com" /\ open' = open
      /\ setup' = Tail(setup)
      /\ UNCHANGED <<system, streams, request, source, warned, stage, backend, label, closing,
                     signalled, active, default, changes, doubts>>
  BY DEF StepSucceeds, choiceVars, worldVars
<1>2. backend \in {"system", "process"} /\ closing = <<>>
  BY <1>1 DEF StageInv, HandlesInv, KindsOK, ChoiceOK
<1>3. Lookup \in {0} \cup DOMAIN Endpoints
  BY LookupFinds
<1> HIDE DEF step
<1>4. ChoiceOK' /\ WorldOK' /\ StageInv'
  BY <1>1, <1>2 DEF KindsOK, ChoiceOK, WorldOK, StageInv, Early
<1>5. ASSUME Acquires(step) \subseteq Handles
      PROVE  SetupOK'
  <2>1. open' \subseteq Handles
    BY <1>1, <1>5 DEF KindsOK, SetupOK
  <2>2. endpoint' \in {0} \cup DOMAIN Endpoints
    BY <1>1, <1>3 DEF KindsOK, SetupOK
  <2>3. activation' \in {"none", "pending", "complete"}
    BY <1>1 DEF KindsOK, SetupOK
  <2>4. signalled' \in BOOLEAN /\ warned' \in BOOLEAN /\ label' \in Formats \cup {"none"}
    BY <1>1 DEF KindsOK, SetupOK
  <2> QED
    BY <2>1, <2>2, <2>3, <2>4 DEF SetupOK
<1>6. CASE backend = "system"
  <2>1. PICK k \in 1 .. 11 : SystemAt(k)
    BY <1>1, <1>6 DEF HandlesInv, Early
  <2>2. k \in 1 .. 10
    <3>1. k # 11
      BY <1>1, <2>1, Setups, SetupOver DEF SystemAt
    <3> QED
      BY <3>1
  <2>3. step = SystemSetup[k] /\ setup' = SubSeq(SystemSetup, k + 1, 10)
    BY <1>1, <2>1, <2>2, Setups, StepDue DEF SystemAt, step
  <2>4. /\ ((SystemHeld(k) \cup Acquires(step)) \ Spends(step)) \ {"com"} = SystemHeld(k + 1)
        /\ Acquires(step) \subseteq Handles
        /\ step = "com" <=> k = 1
        /\ step = "endpoint" <=> k = 3
        /\ k = 1 => SystemHeld(k) = SystemHeld(k + 1)
    BY <2>2, <2>3, SystemAcquires
  <2>5. open \ {"com"} = SystemHeld(k)
    BY <1>1, <2>1 DEF SystemAt
  <2>6. open' \ {"com"} = SystemHeld(k + 1)
    BY <1>1, <2>4, <2>5
  <2>7. endpoint' = 0 <=> k + 1 <= 3
    BY <1>1, <2>1, <2>2, <2>4 DEF SystemAt
  <2>8. SystemAt(k + 1)'
    BY <1>1, <2>3, <2>6, <2>7 DEF SystemAt
  <2>9. \E j \in 1 .. 11 : SystemAt(j)'
    BY <2>2, <2>8
  <2>10. HandlesInv'
    BY <1>1, <1>2, <1>6, <2>9 DEF HandlesInv
  <2> QED
    BY <1>4, <1>5, <2>4, <2>10 DEF KindsOK
<1>7. CASE backend = "process"
  <2>1. PICK k \in 1 .. 10 : ProcessAt(k)
    BY <1>1, <1>7 DEF HandlesInv, Early
  <2>2. k \in 1 .. 9
    <3>1. k # 10
      BY <1>1, <2>1, Setups, SetupOver DEF ProcessAt
    <3> QED
      BY <3>1
  <2>3. step = ProcessSetup[k] /\ setup' = SubSeq(ProcessSetup, k + 1, 9)
    BY <1>1, <2>1, <2>2, Setups, StepDue DEF ProcessAt, step
  <2>4. /\ ((ProcessHeld(k) \cup Acquires(step)) \ Spends(step)) \ {"com"} = ProcessHeld(k + 1)
        /\ Acquires(step) \subseteq Handles
        /\ step = "com" <=> k = 1
        /\ step # "endpoint"
        /\ k = 1 => ProcessHeld(k) = ProcessHeld(k + 1)
    BY <2>2, <2>3, ProcessAcquires
  <2>5. open \ {"com"} = ProcessHeld(k)
    BY <1>1, <2>1 DEF ProcessAt
  <2>6. open' \ {"com"} = ProcessHeld(k + 1)
    BY <1>1, <2>4, <2>5
  <2>7. endpoint' = 0
    BY <1>1, <2>1, <2>4 DEF ProcessAt
  <2>8. ProcessAt(k + 1)'
    BY <1>1, <2>3, <2>6, <2>7 DEF ProcessAt
  <2>9. \E j \in 1 .. 10 : ProcessAt(j)'
    BY <2>2, <2>8
  <2>10. HandlesInv'
    BY <1>1, <1>2, <1>7, <2>9 DEF HandlesInv
  <2> QED
    BY <1>4, <1>5, <2>4, <2>10 DEF KindsOK
<1> QED
  BY <1>2, <1>6, <1>7

\* A place of the setup stays one when the stage is neither "setup" nor "running".
LEMMA PlaceKept ==
    ASSUME HandlesInv, stage \notin Early, stage' \notin Early \cup {"setup", "running"},
           UNCHANGED <<setup, endpoint, backend>>
    PROVE  /\ backend' = "system" => \E k \in 1 .. 11 : SystemAt(k)'
           /\ backend' = "process" => \E k \in 1 .. 10 : ProcessAt(k)'
<1>1. ASSUME NEW k, SystemAt(k) PROVE SystemAt(k)'
  BY <1>1 DEF SystemAt
<1>2. ASSUME NEW k, ProcessAt(k) PROVE ProcessAt(k)'
  BY <1>2 DEF ProcessAt
<1> QED
  BY <1>1, <1>2 DEF HandlesInv

\* Where a step fails, exactly what is open is to be closed.
LEMMA FailsStep ==
    ASSUME StartInv, StepFails
    PROVE  StartInv'
<1> USE DEF StartInv
<1>1. /\ stage = "setup" /\ stage' = "closing" /\ setup # <<>> /\ Head(setup) # "com"
      /\ closing' = ReleasedAfter(Head(setup))
      /\ UNCHANGED <<system, streams, request, source, warned, backend, label, setup, endpoint,
                     open, activation, signalled, active, default, changes, doubts>>
  BY DEF StepFails, choiceVars, worldVars
<1>2. backend \in {"system", "process"}
  BY <1>1 DEF StageInv, KindsOK, ChoiceOK
<1>3. KindsOK' /\ StageInv'
  <2>1. ChoiceOK'
    BY <1>1 DEF KindsOK, ChoiceOK
  <2>2. SetupOK' /\ WorldOK'
    BY <1>1 DEF KindsOK, SetupOK, WorldOK
  <2>3. StageInv'
    BY <1>1 DEF StageInv, Early
  <2> QED
    BY <2>1, <2>2, <2>3 DEF KindsOK
<1>4. closing' \in ClosingLists /\ Range(closing') = open' \ {"com"}
  <2>1. CASE backend = "system"
    <3>1. PICK k \in 1 .. 11 : SystemAt(k)
      BY <1>1, <2>1 DEF HandlesInv, Early
    <3>2. k \in 1 .. 10
      <4>1. k # 11
        BY <1>1, <3>1, Setups, SetupOver DEF SystemAt
      <4> QED
        BY <4>1
    <3>3. Head(setup) = SystemSetup[k]
      BY <3>1, <3>2, Setups, StepDue DEF SystemAt
    <3>4. k \in 2 .. 10
      BY <1>1, <3>2, <3>3, SystemAcquires
    <3>5. open \ {"com"} = SystemHeld(k)
      BY <1>1, <3>1 DEF SystemAt
    <3> QED
      BY <1>1, <2>1, <3>3, <3>4, <3>5, SystemReleases
  <2>2. CASE backend = "process"
    <3>1. PICK k \in 1 .. 10 : ProcessAt(k)
      BY <1>1, <2>2 DEF HandlesInv, Early
    <3>2. k \in 1 .. 9
      <4>1. k # 10
        BY <1>1, <3>1, Setups, SetupOver DEF ProcessAt
      <4> QED
        BY <4>1
    <3>3. Head(setup) = ProcessSetup[k]
      BY <3>1, <3>2, Setups, StepDue DEF ProcessAt
    <3>4. k \in 2 .. 9
      BY <1>1, <3>2, <3>3, ProcessAcquires
    <3>5. open \ {"com"} = ProcessHeld(k)
      BY <1>1, <3>1 DEF ProcessAt
    <3> QED
      BY <1>1, <2>2, <3>3, <3>4, <3>5, ProcessReleases
  <2> QED
    BY <1>2, <2>1, <2>2
<1>5. HandlesInv'
  BY <1>1, <1>4, PlaceKept DEF HandlesInv, Early
<1> QED
  BY <1>3, <1>5

\* Once nothing of the setup is left, what is held is the event, and the frames flow.
LEMMA StartsStep ==
    ASSUME StartInv, Starts
    PROVE  StartInv'
<1> USE DEF StartInv
<1>1. /\ setup = <<>> /\ stage \in {"setup", "ready"} /\ stage' = "running"
      /\ warned' \in BOOLEAN
      /\ UNCHANGED <<system, streams, request, source, backend, label, setup, endpoint, open,
                     closing, activation, signalled, active, default, changes, doubts>>
  BY DEF Starts, threadVars, worldVars
<1>2. stage # "setup" => backend = "none"
  BY <1>1 DEF StageInv
<1>3. KindsOK' /\ StageInv'
  <2>1. ChoiceOK'
    BY <1>1 DEF KindsOK, ChoiceOK
  <2>2. SetupOK' /\ WorldOK'
    BY <1>1 DEF KindsOK, SetupOK, WorldOK
  <2>3. StageInv'
    BY <1>1 DEF StageInv, Early
  <2> QED
    BY <2>1, <2>2, <2>3 DEF KindsOK
<1>4. ASSUME backend = "system"
      PROVE  \E k \in 1 .. 11 : SystemAt(k)'
  <2>1. PICK k \in 1 .. 11 : SystemAt(k)
    BY <1>1, <1>2, <1>4 DEF HandlesInv, Early
  <2>2. k = 11
    <3>1. k \notin 1 .. 10
      BY <1>1, <2>1, Setups, StepDue DEF SystemAt
    <3> QED
      BY <3>1
  <2>3. SystemAt(k)'
    BY <1>1, <1>2, <1>4, <2>1, <2>2 DEF SystemAt
  <2> QED
    BY <2>3
<1>5. ASSUME backend = "process"
      PROVE  \E k \in 1 .. 10 : ProcessAt(k)'
  <2>1. PICK k \in 1 .. 10 : ProcessAt(k)
    BY <1>1, <1>2, <1>5 DEF HandlesInv, Early
  <2>2. k = 10
    <3>1. k \notin 1 .. 9
      BY <1>1, <2>1, Setups, StepDue DEF ProcessAt
    <3> QED
      BY <3>1
  <2>3. ProcessAt(k)'
    BY <1>1, <1>2, <1>5, <2>1, <2>2 DEF ProcessAt
  <2> QED
    BY <2>3
<1>6. HandlesInv'
  BY <1>1, <1>4, <1>5 DEF HandlesInv
<1> QED
  BY <1>3, <1>6

\* While it captures, the thread holds its event beside COM, and on macOS nothing.
LEMMA RunningHolds ==
    ASSUME StartInv, stage = "running"
    PROVE  open \ {"com"} = IF backend = "none" THEN {} ELSE {"event"}
<1> USE DEF StartInv
<1>1. CASE backend = "system"
  <2>1. PICK k \in 1 .. 11 : SystemAt(k)
    BY <1>1 DEF HandlesInv, Early
  <2> QED
    BY <1>1, <2>1 DEF SystemAt, SystemHeld
<1>2. CASE backend = "process"
  <2>1. PICK k \in 1 .. 10 : ProcessAt(k)
    BY <1>2 DEF HandlesInv, Early
  <2> QED
    BY <1>2, <2>1 DEF ProcessAt, ProcessHeld
<1>3. CASE backend = "none"
  BY <1>3 DEF StageInv
<1> QED
  BY <1>1, <1>2, <1>3 DEF KindsOK, ChoiceOK

\* What the end of the loop closes is the event, and COM is left when the list is empty.
LEMMA EndStep ==
    ASSUME StartInv, LoopEnds \/ Closes \/ ThreadEnds
    PROVE  StartInv'
<1> USE DEF StartInv
<1>1. /\ \/ stage = "running" /\ backend # "none" /\ stage' = "closing"
            /\ closing' = <<"event">> /\ open' = open
         \/ stage = "closing" /\ closing # <<>> /\ stage' = "closing"
            /\ open' = open \ {Head(closing)} /\ closing' = Tail(closing)
         \/ stage = "closing" /\ closing = <<>> /\ stage' = "over"
            /\ open' = open \ {"com"} /\ closing' = closing
      /\ UNCHANGED <<system, streams, request, source, warned, backend, label, setup, endpoint,
                     activation, signalled, active, default, changes, doubts>>
  BY DEF LoopEnds, Closes, ThreadEnds, choiceVars, worldVars
<1>2. label # "none"
  BY <1>1 DEF StageInv, Early
<1>3. KindsOK' /\ StageInv'
  <2>1. ChoiceOK'
    BY <1>1 DEF KindsOK, ChoiceOK
  <2>2. SetupOK' /\ WorldOK'
    BY <1>1 DEF KindsOK, SetupOK, WorldOK
  <2>3. StageInv'
    BY <1>1, <1>2 DEF StageInv, Early
  <2> QED
    BY <2>1, <2>2, <2>3 DEF KindsOK
<1>4. CASE stage = "running"
  <2>1. closing' \in ClosingLists /\ Range(closing') = {"event"}
    BY <1>1, <1>4 DEF ClosingLists, Range
  <2>2. Range(closing') = open' \ {"com"}
    BY <1>1, <1>4, <2>1, RunningHolds
  <2> QED
    BY <1>1, <1>3, <1>4, <2>1, <2>2, PlaceKept DEF HandlesInv, Early
<1>5. CASE stage = "closing" /\ closing # <<>>
  <2>1. closing \in ClosingLists /\ Range(closing) = open \ {"com"}
    BY <1>5 DEF HandlesInv
  <2>2. closing' \in ClosingLists /\ Range(closing') = open' \ {"com"}
    BY <1>1, <1>5, <2>1, ClosingOrder
  <2> QED
    BY <1>1, <1>3, <1>5, <2>2, PlaceKept DEF HandlesInv, Early
<1>6. CASE stage = "closing" /\ closing = <<>>
  <2>1. open' = {}
    <3>1. Range(closing) = open \ {"com"}
      BY <1>6 DEF HandlesInv
    <3>2. Range(closing) = {}
      BY <1>6 DEF Range
    <3> QED
      BY <1>1, <1>6, <3>1, <3>2
  <2> QED
    BY <1>1, <1>3, <1>6, <2>1, PlaceKept DEF HandlesInv, Early
<1> QED
  BY <1>1, <1>4, <1>5, <1>6

\* The world moves on its own; what the start holds does not.
LEMMA WorldStep ==
    ASSUME StartInv, ActivateCompleted \/ EndpointsChange \/ UNCHANGED vars
    PROVE  StartInv'
<1> USE DEF StartInv
<1>1. /\ UNCHANGED <<system, streams, request, source, warned, stage, backend, label, setup,
                     endpoint, open, closing>>
      /\ \/ /\ activation' = "complete" /\ signalled' = ("done" \in open)
            /\ UNCHANGED <<active, default, changes, doubts>>
         \/ /\ changes < MaxChanges /\ changes' = changes + 1
            /\ active' \in SUBSET DOMAIN Endpoints
            /\ default' \in IF active' = {} THEN {0} ELSE active'
            /\ doubts' \in {doubts, doubts \cup {"moved"}}
            /\ UNCHANGED <<activation, signalled>>
         \/ UNCHANGED <<active, default, changes, doubts, activation, signalled>>
  BY DEF ActivateCompleted, EndpointsChange, choiceVars, threadVars, worldVars, vars
<1>2. ChoiceOK'
  BY <1>1 DEF KindsOK, ChoiceOK
<1>3. SetupOK'
  <2>1. signalled' \in BOOLEAN
    <3>1. signalled \in BOOLEAN
      BY DEF KindsOK, SetupOK
    <3>2. signalled' = signalled \/ signalled' = ("done" \in open)
      BY <1>1
    <3>3. ("done" \in open) \in BOOLEAN
      OBVIOUS
    <3> QED
      BY ONLY <3>1, <3>2, <3>3, Zenon
  <2>2. activation' \in {"none", "pending", "complete"}
    BY <1>1 DEF KindsOK, SetupOK
  <2>3. warned' \in BOOLEAN
    BY <1>1 DEF KindsOK, SetupOK
  <2> QED
    BY <1>1, <2>1, <2>2, <2>3 DEF KindsOK, SetupOK
<1>4. WorldOK'
  <2>1. active' \subseteq DOMAIN Endpoints /\ default' \in {0} \cup active'
    BY <1>1 DEF KindsOK, WorldOK
  <2>2. changes' \in 0 .. MaxChanges
    BY <1>1, EndpointsAssumption DEF KindsOK, WorldOK
  <2>3. doubts' \subseteq {"unanswered", "moved"}
    <3>1. doubts' = doubts \/ doubts' = doubts \cup {"moved"}
      BY <1>1
    <3> QED
      BY <3>1 DEF KindsOK, WorldOK
  <2> QED
    BY <2>1, <2>2, <2>3 DEF WorldOK
<1>5. StageInv'
  BY <1>1 DEF StageInv
<1>6. HandlesInv'
  <2>1. \A k : SystemAt(k) => SystemAt(k)'
    BY <1>1 DEF SystemAt
  <2>2. \A k : ProcessAt(k) => ProcessAt(k)'
    BY <1>1 DEF ProcessAt
  <2> QED
    BY <1>1, <2>1, <2>2 DEF HandlesInv
<1> QED
  BY <1>2, <1>3, <1>4, <1>5, <1>6 DEF KindsOK

\* At every moment the place of the setup says what the thread holds.
LEMMA StartCorrect == Spec => []StartInv
<1>1. Init => StartInv
  <2> SUFFICES ASSUME Init PROVE StartInv
    OBVIOUS
  <2>1. ChoiceOK
    BY DEF Init, ChoiceOK, NoSource
  <2>2. SetupOK
    BY DEF Init, SetupOK
  <2>3. WorldOK
    <3>1. 0 \in 0 .. MaxChanges
      BY EndpointsAssumption
    <3> QED
      BY <3>1 DEF Init, WorldOK
  <2>4. StageInv
    BY DEF Init, StageInv, Early, NoSource
  <2>5. HandlesInv
    BY DEF Init, HandlesInv, Early
  <2> QED
    BY <2>1, <2>2, <2>3, <2>4, <2>5 DEF StartInv, KindsOK
<1>2. StartInv /\ [Next]_vars => StartInv'
  BY ChoiceStep, CachesStep, SucceedsStep, FailsStep, StartsStep, EndStep, WorldStep DEF Next
<1> QED
  BY <1>1, <1>2, PTL DEF Spec

-----------------------------------------------------------------------------
(* What the start promises of its handles *)

\* What is left of the setup is always a tail of one of the two setups, and every variable
\* keeps its type.
THEOREM TypeTheorem == Spec => []TypeOK
<1>1. StartInv => TypeOK
  <2> SUFFICES ASSUME StartInv PROVE TypeOK
    OBVIOUS
  <2>1. \A k \in 1 .. 11 : IsSuffix(SubSeq(SystemSetup, k, 10), SystemSetup)
    <3>1. SystemSetup \in Seq(Steps) /\ Len(SystemSetup) = 10 /\ 1 .. 10 + 1 = 1 .. 11
      BY Setups
    <3> QED
      BY ONLY <3>1, RestIsSuffix
  <2>2. \A k \in 1 .. 10 : IsSuffix(SubSeq(ProcessSetup, k, 9), ProcessSetup)
    <3>1. ProcessSetup \in Seq(Steps) /\ Len(ProcessSetup) = 9 /\ 1 .. 9 + 1 = 1 .. 10
      BY Setups
    <3> QED
      BY ONLY <3>1, RestIsSuffix
  <2>3. setup = <<>> => IsSuffix(setup, SystemSetup)
    <3>1. SubSeq(SystemSetup, 11, 10) = <<>>
      BY Setups, SetupOver
    <3>2. IsSuffix(SubSeq(SystemSetup, 11, 10), SystemSetup)
      <4>1. 11 \in 1 .. 11
        OBVIOUS
      <4> QED
        BY ONLY <2>1, <4>1
    <3> QED
      BY ONLY <3>1, <3>2
  <2>4. IsSuffix(setup, SystemSetup) \/ IsSuffix(setup, ProcessSetup)
    BY <2>1, <2>2, <2>3
       DEF StartInv, KindsOK, ChoiceOK, StageInv, HandlesInv, SystemAt, ProcessAt
  <2>5. closing \in Seq(Handles)
    <3>1. closing = <<>> \/ closing \in ClosingLists
      BY DEF StartInv, HandlesInv
    <3>2. <<>> \in ClosingLists
      BY DEF ClosingLists
    <3> QED
      BY <3>1, <3>2, ClosingOrder
  <2>6. stage \in {"setup", "closing", "over"} => label # "none"
    BY DEF StartInv, StageInv, Early
  <2>7. ChoiceOK /\ SetupOK /\ WorldOK
    BY DEF StartInv, KindsOK
  <2> QED
    BY <2>4, <2>5, <2>6, <2>7 DEF TypeOK, ChoiceOK, SetupOK, WorldOK
<1> QED
  BY <1>1, StartCorrect, PTL

\* Whatever step of either setup fails, and however the capture ends, the thread closes what
\* it has opened, nothing twice, and leaves nothing.
THEOREM HandlesTheorem == Spec => []HandlesClosed
<1>1. StartInv => HandlesClosed
  <2> SUFFICES ASSUME StartInv PROVE HandlesClosed
    OBVIOUS
  <2>1. stage = "over" => open = {}
    BY DEF StartInv, HandlesInv
  <2>2. Range(closing) \subseteq open
    <3>1. stage # "closing" => Range(closing) = {}
      BY DEF StartInv, HandlesInv, Range
    <3>2. stage = "closing" => Range(closing) = open \ {"com"}
      BY DEF StartInv, HandlesInv
    <3> QED
      BY <3>1, <3>2
  <2>3. IsInjective(closing)
    <3>1. closing = <<>> \/ closing \in ClosingLists
      BY DEF StartInv, HandlesInv
    <3>2. <<>> \in ClosingLists
      BY DEF ClosingLists
    <3> QED
      BY <3>1, <3>2, ClosingOrder
  <2>4. stage = "running" => open \subseteq {"com", "event"}
    BY RunningHolds
  <2> QED
    BY <2>1, <2>2, <2>3, <2>4 DEF HandlesClosed
<1> QED
  BY <1>1, StartCorrect, PTL

-----------------------------------------------------------------------------
(* What it promises of the format of the frames *)

\* The label holds for the frames of an endpoint, unless it was not answered for, or it is
\* that of another one which the source meant before the endpoints moved.
Labelled(e) ==
    \/ label = Endpoints[e].format
    \/ "unanswered" \in doubts /\ label = "fixed"
    \/ /\ "moved" \in doubts
       /\ \E other \in DOMAIN Endpoints \ {e} :
             /\ label = Endpoints[other].format
             /\ source.name # <<>> => Endpoints[other].name = source.name

\* Between the two lookups the label is that of an endpoint which the source may mean, the
\* one that a lookup still finds if none has moved.
Foreseen ==
    \/ "unanswered" \in doubts /\ label = "fixed"
    \/ \E e \in DOMAIN Endpoints :
          /\ label = Endpoints[e].format
          /\ source.name # <<>> => Endpoints[e].name = source.name
          /\ "moved" \in doubts \/ e = Lookup

LabelInv ==
    /\ stage \notin Early /\ backend = "process" => label = "fixed"
    /\ BetweenLookups => Foreseen
    /\ stage \notin Early /\ backend = "system" /\ endpoint # 0 =>
          /\ endpoint \in DOMAIN Endpoints
          /\ source.name # <<>> => Endpoints[endpoint].name = source.name
          /\ Labelled(endpoint)

\* The label that new() caches is that of the endpoint which it finds.
LEMMA LabelCached ==
    ASSUME StartInv, CachesFormat
    PROVE  LabelInv'
<1>1. /\ stage = "backend"
      /\ \/ backend = "process" /\ label' = "fixed"
         \/ backend = "system" /\ label' \in NativeFormats
      /\ doubts' = IF backend = "system" /\ label' = "fixed" THEN {"unanswered"} ELSE {}
      /\ UNCHANGED <<source, backend, endpoint, active, default>>
  BY DEF CachesFormat, Caches, choiceVars
<1>2. endpoint = 0
  BY <1>1 DEF StartInv, StageInv, Early
<1>3. Lookup' = Lookup
  BY <1>1 DEF Lookup
<1>4. ASSUME backend = "system"
      PROVE  Foreseen'
  <2>1. CASE label' = "fixed"
    BY <1>1, <1>4, <2>1 DEF Foreseen
  <2>2. CASE label' # "fixed"
    <3>1. Lookup # 0 /\ label' = Endpoints[Lookup].format
      BY <1>1, <1>4, <2>2 DEF NativeFormats
    <3>2. /\ Lookup \in DOMAIN Endpoints
          /\ source.name # <<>> => Endpoints[Lookup].name = source.name
      BY <3>1, LookupFinds DEF StartInv
    <3> QED
      BY <1>1, <1>3, <3>1, <3>2 DEF Foreseen
  <2> QED
    BY <2>1, <2>2
<1> QED
  BY <1>1, <1>2, <1>4 DEF LabelInv, BetweenLookups

\* Opening an endpoint takes the one that the label was read from, or another one because
\* the endpoints have moved.
LEMMA LabelOpened ==
    ASSUME StartInv, LabelInv, StepSucceeds
    PROVE  LabelInv'
<1>1. /\ stage = "setup" /\ setup # <<>>
      /\ Head(setup) = "endpoint" => Lookup # 0
      /\ endpoint' = IF Head(setup) = "endpoint" THEN Lookup ELSE endpoint
      /\ UNCHANGED <<source, stage, backend, label, active, default, changes, doubts>>
  BY DEF StepSucceeds, choiceVars, worldVars
<1>2. Lookup' = Lookup
  BY <1>1 DEF Lookup
<1>3. CASE Head(setup) # "endpoint"
  <2>1. Foreseen => Foreseen'
    BY <1>1, <1>2 DEF Foreseen
  <2>2. Labelled(endpoint) => Labelled(endpoint)'
    BY <1>1, <1>3 DEF Labelled
  <2> QED
    BY <1>1, <1>3, <2>1, <2>2 DEF LabelInv, BetweenLookups
<1>4. CASE Head(setup) = "endpoint" /\ backend = "system"
  <2>1. endpoint = 0
    <3>1. PICK k \in 1 .. 11 : SystemAt(k)
      BY <1>1, <1>4 DEF StartInv, HandlesInv, Early
    <3>2. k # 11
      BY <1>1, <3>1, Setups, SetupOver DEF SystemAt
    <3>3. k \in 1 .. 10
      BY <3>2
    <3>4. Head(setup) = SystemSetup[k]
      BY <3>1, <3>3, Setups, StepDue DEF SystemAt
    <3>5. k = 3
      BY <1>4, <3>3, <3>4, SystemAcquires
    <3> QED
      BY <3>1, <3>5 DEF SystemAt
  <2>2. /\ endpoint' = Lookup /\ Lookup # 0 /\ Lookup \in DOMAIN Endpoints
        /\ source.name # <<>> => Endpoints[Lookup].name = source.name
    BY <1>1, <1>4, LookupFinds DEF StartInv
  <2>3. Foreseen
    BY <1>1, <1>4, <2>1 DEF LabelInv, BetweenLookups
  <2>4. Labelled(Lookup)
    <3>1. CASE "unanswered" \in doubts /\ label = "fixed"
      BY <3>1 DEF Labelled
    <3>2. ASSUME NEW e \in DOMAIN Endpoints, label = Endpoints[e].format,
                 source.name # <<>> => Endpoints[e].name = source.name,
                 "moved" \in doubts \/ e = Lookup
          PROVE  Labelled(Lookup)
      <4>1. CASE e = Lookup
        BY <3>2, <4>1 DEF Labelled
      <4>2. CASE e # Lookup
        <5>1. e \in DOMAIN Endpoints \ {Lookup}
          BY <4>2
        <5> QED
          BY <3>2, <4>2, <5>1 DEF Labelled
      <4> QED
        BY <4>1, <4>2
    <3> QED
      BY <2>3, <3>1, <3>2 DEF Foreseen
  <2>5. Labelled(endpoint)'
    BY <1>1, <2>2, <2>4 DEF Labelled
  <2> QED
    BY <1>1, <1>4, <2>2, <2>5 DEF LabelInv, BetweenLookups
<1>5. CASE backend = "process"
  BY <1>1, <1>5 DEF LabelInv, BetweenLookups
<1> QED
  BY <1>1, <1>3, <1>4, <1>5 DEF StartInv, StageInv, KindsOK, ChoiceOK

\* No other step touches the label, the source or the endpoint; the endpoints only change.
LEMMA LabelKept ==
    ASSUME StartInv, LabelInv,
           \/ ResolvesApp \/ TakesRequest \/ TakesDevice \/ ListingFails \/ ChoosesBackend
           \/ StepFails \/ MacFails \/ Starts \/ LoopEnds \/ Closes \/ ThreadEnds
           \/ ActivateCompleted \/ EndpointsChange \/ UNCHANGED vars
    PROVE  LabelInv'
<1>1. CASE ResolvesApp \/ TakesRequest \/ TakesDevice \/ ListingFails \/ ChoosesBackend \/ MacFails
  <2>1. stage' \in Early
    BY <1>1 DEF ResolvesApp, TakesRequest, TakesDevice, ListingFails, ChoosesBackend, MacFails,
       Early
  <2>2. ~BetweenLookups'
    BY <2>1 DEF Early, BetweenLookups
  <2> QED
    BY <2>1, <2>2 DEF LabelInv
<1>2. CASE Starts /\ stage = "ready"
  <2>1. backend = "none" /\ backend' = backend
    BY <1>2 DEF Starts, StartInv, StageInv
  <2> QED
    BY <2>1 DEF LabelInv, BetweenLookups
<1>3. CASE \/ Starts /\ stage # "ready"
           \/ StepFails \/ LoopEnds \/ Closes \/ ThreadEnds
           \/ ActivateCompleted \/ UNCHANGED vars
  <2>1. /\ UNCHANGED <<source, backend, label, endpoint, active, default, changes, doubts>>
        /\ stage' \notin Early => stage \notin Early
        /\ stage' = "setup" => stage = "setup"
    BY <1>3 DEF Starts, StepFails, LoopEnds, Closes, ThreadEnds, ActivateCompleted, vars,
       choiceVars, threadVars, worldVars, Early
  <2>2. Lookup' = Lookup
    BY <2>1 DEF Lookup
  <2>3. (Foreseen => Foreseen') /\ (Labelled(endpoint) => Labelled(endpoint)')
    BY <2>1, <2>2 DEF Foreseen, Labelled
  <2> QED
    BY <2>1, <2>3 DEF LabelInv, BetweenLookups
<1>4. CASE EndpointsChange
  <2>1. /\ UNCHANGED <<source, stage, backend, label, endpoint>>
        /\ doubts \subseteq doubts'
        /\ BetweenLookups /\ Lookup' # Lookup => "moved" \in doubts'
    BY <1>4 DEF EndpointsChange, choiceVars, threadVars
  <2>2. Labelled(endpoint) => Labelled(endpoint)'
    BY <2>1 DEF Labelled
  <2>3. BetweenLookups' <=> BetweenLookups
    BY <2>1 DEF BetweenLookups
  <2>4. BetweenLookups /\ Foreseen => Foreseen'
    BY <2>1 DEF Foreseen
  <2> QED
    BY <2>1, <2>2, <2>3, <2>4 DEF LabelInv
<1> QED
  BY <1>1, <1>2, <1>3, <1>4

\* Frames are labelled with the format of the endpoint that they come from, although it is
\* looked up twice, unless it did not answer, or a lookup between the two would have found
\* another one; for all lists of endpoints and any number of changes.
THEOREM FormatTheorem == Spec => []FormatTrue
<1>1. Init => LabelInv
  BY DEF Init, LabelInv, Early, BetweenLookups
<1>2. StartInv /\ LabelInv /\ [Next]_vars => LabelInv'
  BY LabelCached, LabelOpened, LabelKept DEF Next
<1>3. StartInv /\ LabelInv => FormatTrue
  <2> SUFFICES ASSUME StartInv, LabelInv PROVE FormatTrue
    OBVIOUS
  <2>1. stage = "running" /\ backend = "process" => label = "fixed"
    BY DEF LabelInv, Early
  <2>2. ASSUME stage = "running", backend = "system"
        PROVE  endpoint # 0
    <3>1. PICK k \in 1 .. 11 : SystemAt(k)
      BY <2>2 DEF StartInv, HandlesInv, Early
    <3> QED
      BY <2>2, <3>1 DEF SystemAt
  <2>3. ASSUME stage = "running", backend = "system"
        PROVE  /\ source.name # <<>> => Endpoints[endpoint].name = source.name
               /\ Labelled(endpoint)
    BY <2>2, <2>3 DEF LabelInv, Early
  <2> QED
    BY <2>1, <2>3 DEF FormatTrue, Labelled
<1> QED
  BY <1>1, <1>2, <1>3, StartCorrect, PTL DEF Spec

-----------------------------------------------------------------------------
(* What it promises of the choice *)

\* The values of a function on a finite set are finitely many.
LEMMA FiniteImage ==
    ASSUME NEW S, IsFiniteSet(S), NEW f, NEW T, T = {f[x] : x \in S}
    PROVE  IsFiniteSet(T)
<1> DEFINE g == [x \in S |-> f[x]]
<1>1. g \in Surjection(S, T)
  BY DEF Surjection
<1> HIDE DEF g
<1> QED
  BY <1>1, FS_Surjection

\* A listing has finitely many applications.
LEMMA ListedFinite ==
    ASSUME streams \in Listings
    PROVE  IsFiniteSet(Listed)
<1> DEFINE names == [i \in DOMAIN streams |->
                        IF system = "macOS" THEN MacName(streams[i]) ELSE WindowsName(streams[i])]
           audible == Audible(streams, Self)
           pids == {streams[i].pid : i \in audible}
           First(pid) == Min({i \in audible : streams[i].pid = pid})
           pidOf == [i \in audible |-> streams[i].pid]
           made == [pid \in pids |-> [pid |-> pid, name |-> names[First(pid)],
                                      identifier |-> streams[First(pid)].identifier]]
<1>1. IsFiniteSet(audible)
  <2>1. DOMAIN streams = 1 .. Len(streams) /\ Len(streams) \in Nat
    BY PidsAssumption, LenProperties
  <2>2. IsFiniteSet(1 .. Len(streams))
    BY <2>1, FS_Interval
  <2>3. audible \in SUBSET (1 .. Len(streams))
    BY <2>1 DEF Audible
  <2> HIDE DEF audible
  <2> QED
    BY <2>2, <2>3, FS_Subset
<1>2. IsFiniteSet(pids)
  <2>1. pids = {pidOf[i] : i \in audible}
    OBVIOUS
  <2> HIDE DEF pids, pidOf, audible
  <2> QED
    BY <1>1, <2>1, FiniteImage
<1>3. Listed = {made[pid] : pid \in pids}
  <2> HIDE DEF names
  <2>1. Listed = {[pid |-> pid, name |-> names[First(pid)],
                   identifier |-> streams[First(pid)].identifier] : pid \in pids}
    BY DEF Listed, Applications, names
  <2> HIDE DEF First, audible
  <2> QED
    BY <2>1
<1> HIDE DEF made, pids
<1> QED
  BY <1>2, <1>3, FiniteImage

\* Resolving looks for the best rank that any application has.
LEMMA ResolvesTheBest ==
    ASSUME NEW a \in Listed
    PROVE  Resolve(request.query, Listed) = {a} <=> Best(a)
<1> DEFINE query == Trim(request.query)
           R(x) == Rank(x, request.query)
           P(x) == IsNumber(query) /\ Number(query) = x.pid
           process == {x \in Listed : IsNumber(query) /\ x.pid = Number(query)}
           exact == {x \in Listed : Exactly(x, query)}
           partly == {x \in Listed : Partly(x, query)}
           matches == Resolve(request.query, Listed)
<1>1. matches = IF query = <<>> THEN {}
                ELSE IF process # {} THEN process ELSE IF exact # {} THEN exact ELSE partly
  BY DEF Resolve
<1>2. \A x : R(x) = IF query = <<>> THEN 0
                    ELSE IF P(x) THEN 3
                    ELSE IF Exactly(x, query) THEN 2
                    ELSE IF Partly(x, query) THEN 1 ELSE 0
  BY DEF Rank
<1>3. Best(a) <=> R(a) > 0 /\ \A x \in Listed \ {a} : R(x) < R(a)
  BY DEF Best
<1>4. \A x : R(x) \in 0 .. 3
  BY <1>2
<1>5. process = {x \in Listed : P(x)}
  OBVIOUS
<1> HIDE DEF query, R, P, matches
<1>6. ASSUME NEW m \in 1 .. 3,
             matches = {x \in Listed : R(x) = m},
             \A x \in Listed : R(x) <= m,
             m = 1 \/ matches # {}
      PROVE  matches = {a} <=> Best(a)
  <2>1. ASSUME matches = {a} PROVE Best(a)
    <3>1. R(a) = m /\ \A x \in Listed \ {a} : R(x) # m
      BY <1>6, <2>1
    <3> QED
      BY <1>3, <1>4, <1>6, <3>1
  <2>2. ASSUME Best(a) PROVE matches = {a}
    <3>1. R(a) = m
      <4>1. CASE m = 1
        BY <1>3, <1>4, <1>6, <2>2, <4>1
      <4>2. CASE matches # {}
        <5>1. PICK x \in Listed : R(x) = m
          BY <1>6, <4>2
        <5>2. x # a => FALSE
          BY <1>3, <1>4, <1>6, <2>2, <5>1
        <5> QED
          BY <5>1, <5>2
      <4> QED
        BY <1>6, <4>1, <4>2
    <3>2. \A x \in Listed \ {a} : R(x) # m
      BY <1>3, <1>4, <2>2, <3>1
    <3> QED
      BY <1>6, <3>1, <3>2
  <2> QED
    BY <2>1, <2>2
<1>7. CASE query = <<>>
  <2>1. matches = {} /\ R(a) = 0
    BY <1>1, <1>2, <1>7
  <2> QED
    BY <1>3, <2>1 DEF matches
<1>8. CASE query # <<>> /\ process # {}
  <2>1. \A x \in Listed : R(x) = 3 <=> P(x)
    BY <1>2, <1>8
  <2>2. matches = {x \in Listed : R(x) = 3} /\ matches # {}
    BY <1>1, <1>5, <1>8, <2>1
  <2>3. \A x \in Listed : R(x) <= 3
    BY <1>4
  <2> QED
    BY <1>6, <2>2, <2>3 DEF matches
<1>9. CASE query # <<>> /\ process = {} /\ exact # {}
  <2>1. \A x \in Listed : ~P(x)
    BY <1>5, <1>9
  <2>2. \A x \in Listed : R(x) <= 2 /\ (R(x) = 2 <=> Exactly(x, query))
    BY <1>2, <1>9, <2>1
  <2>3. matches = {x \in Listed : R(x) = 2} /\ matches # {}
    BY <1>1, <1>9, <2>2
  <2> QED
    BY <1>6, <2>2, <2>3 DEF matches
<1>10. CASE query # <<>> /\ process = {} /\ exact = {}
  <2>1. \A x \in Listed : ~P(x) /\ ~Exactly(x, query)
    BY <1>5, <1>10
  <2>2. \A x \in Listed : R(x) <= 1 /\ (R(x) = 1 <=> Partly(x, query))
    BY <1>2, <1>10, <2>1
  <2>3. matches = {x \in Listed : R(x) = 1}
    BY <1>1, <1>10, <2>2
  <2> QED
    BY <1>6, <2>2, <2>3 DEF matches
<1> QED
  BY <1>7, <1>8, <1>9, <1>10

\* A selector is resolved to the application that it fits best, or to nothing.
LEMMA AppResolved ==
    ASSUME StartInv, ResolvesApp
    PROVE  SelectionIsSound'
<1> DEFINE matches == Resolve(request.query, Listed)
<1>1. /\ stage = "request"
      /\ UNCHANGED <<system, streams, request>>
      /\ IF Cardinality(matches) = 1
         THEN \E a \in matches : source' = Process(a.pid) /\ stage' = "selected"
         ELSE UNCHANGED source /\ stage' = "unresolved"
  BY DEF ResolvesApp
<1>2. streams \in Listings
  BY <1>1 DEF StartInv, StageInv
<1>3. Listed' = Listed
  BY <1>1 DEF Listed
<1>4. \A a : Best(a)' <=> Best(a)
  BY <1>1, <1>3 DEF Best
<1>5. matches \subseteq Listed /\ IsFiniteSet(matches)
  <2>1. matches \subseteq Listed
    BY ResolvedAreListed
  <2> HIDE DEF matches
  <2> QED
    BY <1>2, <2>1, ListedFinite, FS_Subset
<1>6. \A a \in Listed : matches = {a} <=> Best(a)
  BY ResolvesTheBest
<1> HIDE DEF matches
<1>7. CASE Cardinality(matches) = 1
  <2>1. PICK a \in matches : source' = Process(a.pid) /\ stage' = "selected"
    BY <1>1, <1>7
  <2>2. matches = {a}
    BY <1>5, <1>7, FS_Singleton
  <2>3. a \in Listed /\ Best(a)
    BY <1>5, <1>6, <2>2
  <2>4. source'.pid = a.pid
    BY <2>1 DEF Process
  <2>5. /\ a.pid \notin {0, Self}
        /\ a.pid \in {streams[i].pid : i \in {j \in DOMAIN streams : streams[j].active}}
    BY <1>2, <2>3, ListedPlay
  <2>6. \E b \in Listed' : b.pid = source'.pid /\ Best(b)'
    BY <1>3, <1>4, <2>3, <2>4
  <2>7. /\ source'.pid \in {streams'[i].pid : i \in {j \in DOMAIN streams' : streams'[j].active}}
        /\ source'.pid \notin {0, Self}
    BY <1>1, <2>4, <2>5
  <2> QED
    BY <2>1, <2>6, <2>7 DEF SelectionIsSound
<1>8. CASE Cardinality(matches) # 1
  <2>1. stage' = "unresolved"
    BY <1>1, <1>8
  <2>2. \A a \in Listed : ~Best(a)
    BY <1>6, <1>8, FS_Singleton
  <2>3. ~\E a \in Listed' : Best(a)'
    BY <1>3, <1>4, <2>2
  <2> QED
    BY <2>1, <2>3 DEF SelectionIsSound
<1> QED
  BY <1>7, <1>8

\* The user of a process is warned exactly where the backend captures an output.
LEMMA UserWarned ==
    ASSUME StartInv, Starts
    PROVE  SelectionIsSound'
<1>1. /\ setup = <<>> /\ stage \in {"setup", "ready"} /\ stage' = "running"
      /\ warned' = (source.kind = "process" /\ Mode = "OutputLoopback")
      /\ UNCHANGED <<system, source, backend, endpoint>>
  BY DEF Starts, threadVars
<1>2. SUFFICES ASSUME source.kind = "process"
               PROVE  \/ warned' /\ endpoint # 0
                      \/ ~warned' /\ endpoint = 0 /\ system \in {"Windows 11", "macOS"}
  BY <1>1 DEF SelectionIsSound
<1>3. CASE backend = "system"
  <2>1. stage = "setup"
    BY <1>1, <1>3 DEF StartInv, StageInv
  <2>2. PICK k \in 1 .. 11 : SystemAt(k)
    BY <1>3, <2>1 DEF StartInv, HandlesInv, Early
  <2>3. k \notin 1 .. 10
    BY <1>1, <2>2, Setups, StepDue DEF SystemAt
  <2>4. endpoint # 0
    BY <2>2, <2>3 DEF SystemAt
  <2>5. system # "macOS"
    BY <1>3 DEF StartInv, StageInv
  <2>6. Mode = "OutputLoopback"
    BY <1>3, <2>5 DEF Mode
  <2> QED
    BY <1>1, <1>2, <2>4, <2>6
<1>4. CASE backend = "process"
  <2>1. stage = "setup"
    BY <1>1, <1>4 DEF StartInv, StageInv
  <2>2. endpoint = 0
    BY <1>4, <2>1 DEF StartInv, HandlesInv, ProcessAt, Early
  <2>3. system = "Windows 11"
    BY <1>4 DEF StartInv, StageInv
  <2>4. Mode = "ProcessLoopback"
    BY <1>2, <1>4 DEF Mode
  <2> QED
    BY <1>1, <2>2, <2>3, <2>4
<1>5. CASE backend = "none"
  <2>1. stage = "ready"
    BY <1>1, <1>5 DEF StartInv, StageInv
  <2>2. endpoint = 0 /\ system = "macOS"
    BY <1>5, <2>1 DEF StartInv, StageInv
  <2>3. Mode = "ProcessLoopback"
    BY <1>2, <2>2 DEF Mode
  <2> QED
    BY <1>1, <2>2, <2>3
<1> QED
  BY <1>3, <1>4, <1>5 DEF StartInv, KindsOK, ChoiceOK

\* A selector leads to the one application that it fits best, which plays and is not Vapor
\* Tap, or to an error where there is no best one; and who asked for one process and gets
\* the complete output is told so.  For every listing, selector and system.
THEOREM SelectionTheorem == Spec => []SelectionIsSound
<1>1. Init => SelectionIsSound
  BY DEF Init, SelectionIsSound
<1>2. ASSUME StartInv, SelectionIsSound, [Next]_vars
      PROVE  SelectionIsSound'
  <2>1. CASE ResolvesApp
    BY <1>2, <2>1, AppResolved
  <2>2. CASE Starts
    BY <1>2, <2>2, UserWarned
  <2>3. CASE TakesRequest \/ TakesDevice
    <3>1. stage' = "selected" /\ request.kind # "app" /\ request' = request
      BY <2>3 DEF TakesRequest, TakesDevice
    <3> QED
      BY <3>1 DEF SelectionIsSound
  <2>4. CASE \/ ListingFails \/ ChoosesBackend \/ CachesFormat \/ StepFails \/ MacFails
             \/ LoopEnds \/ Closes \/ ThreadEnds
    <3>1. stage' \notin {"selected", "unresolved", "running"}
      BY <2>4 DEF ListingFails, ChoosesBackend, CachesFormat, Caches, StepFails, MacFails,
         LoopEnds, Closes, ThreadEnds
    <3> QED
      BY <3>1 DEF SelectionIsSound
  <2>5. CASE StepSucceeds
    <3>1. stage' \notin {"selected", "unresolved", "running"}
      BY <2>5 DEF StepSucceeds
    <3> QED
      BY <3>1 DEF SelectionIsSound
  <2>6. CASE ActivateCompleted \/ EndpointsChange \/ UNCHANGED vars
    <3>1. UNCHANGED <<stage, system, streams, request, source, warned, endpoint>>
      BY <2>6 DEF ActivateCompleted, EndpointsChange, vars, choiceVars, threadVars
    <3>2. Listed' = Listed
      BY <3>1 DEF Listed
    <3>3. \A a : Best(a)' <=> Best(a)
      BY <3>1, <3>2 DEF Best
    <3> QED
      BY <1>2, <3>1, <3>2, <3>3 DEF SelectionIsSound
  <2> QED
    BY <1>2, <2>1, <2>2, <2>3, <2>4, <2>5, <2>6 DEF Next
<1> QED
  BY <1>1, <1>2, StartCorrect, PTL DEF Spec
=============================================================================
