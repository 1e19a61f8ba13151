---------------------------- MODULE CaptureStart ----------------------------
(***************************************************************************)
(* From --app, --pid or an output device to a running capture:             *)
(* SourceArgs::capture_config, CaptureSession::start, the choice of the    *)
(* backend, and the setup of the two WASAPI backends, step by step with    *)
(* what each step acquires and what each failure releases.                 *)
(*                                                                         *)
(* Meanwhile the output endpoints come, go and change places as default,   *)
(* and an activation completes when it likes, late or never.  Handles that *)
(* the code closes itself are in `open`; COM interfaces, which Rust        *)
(* releases wherever a scope is left, are not.  On macOS the module ends   *)
(* where MacCapture begins.                                                *)
(***************************************************************************)
EXTENDS Applications

CONSTANTS
    Self,        \* the pid of the capturing process
    Listings,    \* what the system may report: sequences of streams
    Queries,     \* texts for --app
    Pids,        \* numbers for --pid
    Endpoints,   \* the output endpoints in their order: records of a name, a format and
                 \* whether its samples are floats
    MaxChanges   \* bound: changes of the endpoints

ASSUME EndpointsAssumption ==
    /\ Endpoints \in Seq(Range(Endpoints))
    /\ \A i \in DOMAIN Endpoints :
          Endpoints[i].float \in BOOLEAN /\ Endpoints[i].format # "none"
    /\ MaxChanges \in Nat

ASSUME PidsAssumption ==
    /\ Pids \subseteq Nat
    /\ \A list \in Listings :
          list \in Seq(Range(list)) /\ \A i \in DOMAIN list : list[i].pid \in Nat

VARIABLES
    system,      \* "Windows 11", "Windows 10" (before build 20348), "older Windows"
                 \* or "macOS"
    streams,     \* what the system reports of running audio
    request,     \* what the user asks for
    source,      \* config.source
    stage,       \* where the start is
    backend,     \* "none", "process" or "system"
    label,       \* the native format that the backend has cached
    setup,       \* the setup steps that are left
    endpoint,    \* the endpoint that is opened, 0 for none
    open,        \* handles to close: "com", "mixFormat", "done", "event"
    closing,     \* the ones the thread closes next, in the code's order
    activation,  \* "none", "pending" or "complete"
    signalled,   \* the done event is set
    warned,      \* the user knows that the process is not isolated
    active,      \* the endpoints that are plugged in and answer
    default,     \* the default one, 0 for none
    changes,     \* how often the endpoints have changed
    doubts       \* history, which guards nothing: why the label may be wrong, "unanswered" for
                 \* a fixed format in the place of one, "moved" for a lookup that would have
                 \* found another endpoint after the first and before the second

choiceVars == <<system, streams, request, source, warned>>
worldVars  == <<active, default, changes, doubts>>
threadVars == <<setup, endpoint, open, closing, activation, signalled>>
vars == <<choiceVars, stage, backend, label, threadVars, worldVars>>

\* Sources and requests.  A device of no name is the default one.
Process(pid)       == [kind |-> "process", pid |-> pid, name |-> <<>>]
OutputDevice(name) == [kind |-> "device", pid |-> 0, name |-> name]
NoSource           == [kind |-> "none", pid |-> 0, name |-> <<>>]

Requests ==
         [kind : {"app"}, query : Queries] \cup [kind : {"pid"}, pid : Pids]
    \cup [kind : {"system", "device"}]

Formats == {Endpoints[i].format : i \in DOMAIN Endpoints} \cup {"fixed"}

\* setup_system_loopback and setup_process_loopback.
SystemSetup == <<"com", "enumerator", "endpoint", "client", "mixFormat", "float",
                 "initialize", "event", "handler", "service">>
ProcessSetup == <<"com", "done", "activation", "completion", "result",
                  "initialize", "event", "handler", "service">>

Handles == {"com", "mixFormat", "done", "event"}

TypeOK ==
    /\ system \in {"Windows 11", "Windows 10", "older Windows", "macOS"}
    /\ source.kind \in {"none", "process", "device"} /\ source.pid \in Nat
    /\ request \in Requests
    /\ stage \in {"request", "selected", "unresolved", "backend", "setup", "ready", "running",
                  "closing", "over", "failed"}
    /\ backend \in {"none", "process", "system"}
    /\ label \in Formats \cup {"none"}
    /\ stage \in {"setup", "closing", "over"} => label # "none"
    /\ IsSuffix(setup, SystemSetup) \/ IsSuffix(setup, ProcessSetup)
    /\ endpoint \in {0} \cup DOMAIN Endpoints
    /\ open \subseteq Handles /\ closing \in Seq(Handles)
    /\ activation \in {"none", "pending", "complete"} /\ signalled \in BOOLEAN
    /\ warned \in BOOLEAN
    /\ active \subseteq DOMAIN Endpoints /\ default \in {0} \cup active
    /\ changes \in 0 .. MaxChanges /\ doubts \subseteq {"unanswered", "moved"}

Init ==
    /\ system \in {"Windows 11", "Windows 10", "older Windows", "macOS"}
    /\ streams \in Listings /\ request \in Requests
    /\ request.kind # "app" => streams = <<>>
    \* Core Audio keeps one object per process, a Windows process has any number of streams.
    /\ system = "macOS" => IsInjective([i \in DOMAIN streams |-> streams[i].pid])
    /\ source = NoSource /\ stage = "request" /\ backend = "none" /\ label = "none"
    /\ setup = <<>> /\ endpoint = 0 /\ open = {} /\ closing = <<>>
    /\ activation = "none" /\ signalled = FALSE /\ warned = FALSE
    /\ active = DOMAIN Endpoints /\ default \in active /\ changes = 0 /\ doubts = {}

-----------------------------------------------------------------------------
(* The choice of a source *)

Listed ==
    Applications(streams, Self,
        [i \in DOMAIN streams |->
            IF system = "macOS" THEN MacName(streams[i]) ELSE WindowsName(streams[i])])

\* SourceArgs::capture_config for --app.
ResolvesApp ==
    /\ stage = "request" /\ request.kind = "app"
    /\ LET matches == Resolve(request.query, Listed)
       IN IF Cardinality(matches) = 1
          THEN \E a \in matches : source' = Process(a.pid) /\ stage' = "selected"
          ELSE UNCHANGED source /\ stage' = "unresolved"
    /\ UNCHANGED <<system, streams, request, warned, backend, label, threadVars, worldVars>>

\* For --pid, which is not looked up, and for system audio.
TakesRequest ==
    /\ stage = "request" /\ stage' = "selected"
    /\ \/ request.kind = "pid" /\ source' = Process(request.pid)
       \/ request.kind = "system" /\ source' = OutputDevice(<<>>)
    /\ UNCHANGED <<system, streams, request, warned, backend, label, threadVars, worldVars>>

\* The listing of output devices, for programs that use the library: active endpoints
\* with a name, marked where it is the name of the default one.
OutputDevices ==
    {[name |-> Endpoints[i].name,
      is_default |-> default # 0 /\ Endpoints[default].name = Endpoints[i].name] :
        i \in {e \in active : Endpoints[e].name # <<>>}}

\* A device of the listing, which macOS has none of, or the name of anything.
TakesDevice ==
    /\ stage = "request" /\ request.kind = "device" /\ stage' = "selected"
    /\ \/ system # "macOS" /\ \E device \in OutputDevices : source' = OutputDevice(device.name)
       \/ \E name \in Queries \ {<<>>} : source' = OutputDevice(name)
    /\ UNCHANGED <<system, streams, request, warned, backend, label, threadVars, worldVars>>

\* The listing itself fails, or is not offered by the system.
ListingFails ==
    /\ stage = "request" /\ request.kind \in {"app", "device"} /\ stage' = "failed"
    /\ UNCHANGED <<choiceVars, backend, label, threadVars, worldVars>>

\* CaptureSession::start rejects a pid of zero and a blank name; the platform an old version,
\* which Windows asks for a process only; and macOS a named device.
Rejected ==
    \/ source = Process(0)
    \/ source.name # <<>> /\ Trim(source.name) = <<>>
    \/ source.kind = "process" /\ system = "older Windows"
    \/ source.name # <<>> /\ system = "macOS"

\* start() of the platform: only a build of 20348 or later isolates a process; an earlier
\* one captures the default output instead.  Whatever the source, the start fails for a
\* channel of no capacity, or a version that cannot be read.
ChoosesBackend ==
    /\ stage = "selected"
    /\ \/ stage' = "failed" /\ UNCHANGED backend
       \/ ~Rejected /\ system = "macOS" /\ stage' = "ready" /\ UNCHANGED backend
       \/ /\ ~Rejected /\ system # "macOS" /\ stage' = "backend"
          /\ backend' = IF source.kind = "process" /\ system = "Windows 11" THEN "process"
                        ELSE "system"
    /\ streams' = <<>>
    /\ UNCHANGED <<system, request, source, warned, label, threadVars, worldVars>>

\* CaptureSession::mode().
Mode ==
    IF source.kind = "process" /\ (system = "macOS" \/ backend = "process")
    THEN "ProcessLoopback" ELSE "OutputLoopback"

\* resolve_render_endpoint: the default endpoint or the first active one of the name, which
\* a process that is not isolated has none of.
Lookup ==
    LET named == {i \in active : Endpoints[i].name = source.name}
    IN IF source.name = <<>> THEN default ELSE IF named = {} THEN 0 ELSE Min(named)

\* The formats that new() may cache: that of the endpoint, or a fixed one where it cannot
\* be asked.
NativeFormats == IF Lookup = 0 THEN {"fixed"} ELSE {"fixed", Endpoints[Lookup].format}

Caches(formats) ==
    /\ stage = "backend" /\ stage' = "setup"
    /\ \/ backend = "process" /\ label' = "fixed" /\ setup' = ProcessSetup
       \/ backend = "system" /\ label' \in formats /\ setup' = SystemSetup
    /\ doubts' = IF backend = "system" /\ label' = "fixed" THEN {"unanswered"} ELSE {}
    /\ UNCHANGED <<choiceVars, backend, endpoint, open, closing, activation, signalled, active,
                   default, changes>>

\* Faults: nothing is put in the place of a format that cannot be read; the format is that
\* of the default endpoint, whatever the device.
CachesOrNot == Caches((NativeFormats \ {"fixed"}) \cup {"none"})
CachesDefault ==
    Caches({"fixed"} \cup {Endpoints[i].format : i \in {default} \ {0}})

\* new() caches the format that the frames will be labelled with, a fixed one for a
\* process, and the capture thread is spawned.
CachesFormat == Caches(NativeFormats)

-----------------------------------------------------------------------------
(* The setup of the capture thread *)

\* What a step acquires, and what the thread closes by itself once it has succeeded.
Acquires(step) == IF step \in Handles THEN {step} ELSE {}
Spends(step) ==
    IF step = "completion" THEN {"done"} ELSE IF step = "service" THEN {"mixFormat"} ELSE {}

\* A process has no mix format to free.
MixFormat == IF backend = "system" THEN <<"mixFormat">> ELSE <<>>

\* Fault: the event is not closed where its handler or service fails.
ForgetsTheEvent(step) ==
    CASE step \in {"activation", "completion"} -> <<"done">>
      [] step \in {"float", "initialize", "event", "handler", "service"} -> MixFormat
      [] OTHER -> <<>>

\* What the code names where a step fails.
ReleasedAfter(step) ==
    CASE step \in {"activation", "completion"} -> <<"done">>
      [] step \in {"float", "initialize", "event"} -> MixFormat
      [] step \in {"handler", "service"} -> <<"event">> \o MixFormat
      [] OTHER -> <<>>

\* COM may have been initialised by somebody else, in another mode, and is then theirs.
StepSucceeds ==
    /\ stage = "setup" /\ setup # <<>>
    /\ LET step == Head(setup) IN
       /\ step = "endpoint" => Lookup # 0
       /\ step = "float" => Endpoints[endpoint].float
       /\ step = "completion" => signalled
       /\ endpoint' = IF step = "endpoint" THEN Lookup ELSE endpoint
       /\ activation' = IF step = "activation" THEN "pending" ELSE activation
       /\ \/ open' = (open \cup Acquires(step)) \ Spends(step)
          \/ step = "com" /\ open' = open
    /\ setup' = Tail(setup)
    /\ UNCHANGED <<choiceVars, stage, backend, label, closing, signalled, worldVars>>

\* The wait for the activation fails after five seconds; COM's initialisation is not a
\* failure, and a format is refused for its samples only.
StepFails ==
    /\ stage = "setup" /\ setup # <<>> /\ Head(setup) # "com"
    /\ Head(setup) = "float" => ~Endpoints[endpoint].float
    /\ Head(setup) = "completion" => ~signalled
    /\ closing' = ReleasedAfter(Head(setup))
    /\ stage' = "closing"
    /\ UNCHANGED <<choiceVars, backend, label, setup, endpoint, open, activation, signalled,
                   worldVars>>

\* On macOS the chain may not come up (MacCapture).
MacFails ==
    /\ stage = "ready" /\ stage' = "failed"
    /\ UNCHANGED <<choiceVars, backend, label, threadVars, worldVars>>

\* The thread reports, start() returns, and the command tells a user whose process is not
\* isolated before it asks for the first frame.
Starts ==
    /\ setup = <<>> /\ stage \in {"setup", "ready"}
    /\ stage' = "running"
    /\ warned' = (source.kind = "process" /\ Mode = "OutputLoopback")
    /\ UNCHANGED <<system, streams, request, source, backend, label, threadVars, worldVars>>

\* capture_loop returns, for a stop or a failure, and closes its event.
LoopEnds ==
    /\ stage = "running" /\ backend # "none"
    /\ stage' = "closing" /\ closing' = <<"event">>
    /\ UNCHANGED <<choiceVars, backend, label, setup, endpoint, open, activation, signalled,
                   worldVars>>

Closes ==
    /\ stage = "closing" /\ closing # <<>>
    /\ open' = open \ {Head(closing)} /\ closing' = Tail(closing)
    /\ UNCHANGED <<choiceVars, stage, backend, label, setup, endpoint, activation, signalled,
                   worldVars>>

\* The thread ends; its first variable, the COM guard, is dropped last.
ThreadEnds ==
    /\ stage = "closing" /\ closing = <<>> /\ stage' = "over"
    /\ open' = open \ {"com"}
    /\ UNCHANGED <<choiceVars, backend, label, setup, endpoint, closing, activation, signalled,
                   worldVars>>

-----------------------------------------------------------------------------
(* The world *)

\* ActivationHandler: the event is set if it still exists.
ActivateCompleted ==
    /\ activation = "pending" /\ activation' = "complete"
    /\ signalled' = ("done" \in open)
    /\ UNCHANGED <<choiceVars, stage, backend, label, setup, endpoint, open, closing, worldVars>>

\* The label has been read, and its endpoint is still to be opened.
BetweenLookups == stage = "setup" /\ backend = "system" /\ endpoint = 0

EndpointsChange ==
    /\ changes < MaxChanges /\ changes' = changes + 1
    /\ active' \in SUBSET DOMAIN Endpoints
    /\ default' \in IF active' = {} THEN {0} ELSE active'
    /\ UNCHANGED <<choiceVars, stage, backend, label, threadVars>>
    /\ doubts' = IF BetweenLookups /\ Lookup' # Lookup THEN doubts \cup {"moved"} ELSE doubts

Next ==
    \/ ResolvesApp \/ TakesRequest \/ TakesDevice \/ ListingFails
    \/ ChoosesBackend \/ CachesFormat
    \/ StepSucceeds \/ StepFails \/ MacFails \/ Starts \/ LoopEnds \/ Closes \/ ThreadEnds
    \/ ActivateCompleted \/ EndpointsChange

Spec == Init /\ [][Next]_vars

-----------------------------------------------------------------------------
(* What the start promises *)

\* How well a selector fits an application: by its process, by all of a name, by a part.
Rank(application, selector) ==
    LET query == Trim(selector)
    IN IF query = <<>> THEN 0
       ELSE IF IsNumber(query) /\ Number(query) = application.pid THEN 3
       ELSE IF Exactly(application, query) THEN 2
       ELSE IF Partly(application, query) THEN 1 ELSE 0

\* It fits this one better than all others.
Best(application) ==
    /\ Rank(application, request.query) > 0
    /\ \A other \in Listed \ {application} :
          Rank(other, request.query) < Rank(application, request.query)

\* A selector leads to the application it fits best, which plays audio and is not Vapor
\* Tap itself, or to an error if there is no best one; and the user who asked for one
\* process and gets the complete output, on the systems that cannot isolate it, is told so.
SelectionIsSound ==
    /\ stage = "selected" /\ request.kind = "app" =>
          /\ \E a \in Listed : a.pid = source.pid /\ Best(a)
          /\ source.pid \in {streams[i].pid : i \in {j \in DOMAIN streams : streams[j].active}}
          /\ source.pid \notin {0, Self}
    /\ stage = "unresolved" => ~\E a \in Listed : Best(a)
    /\ stage = "running" /\ source.kind = "process" =>
          \/ warned /\ endpoint # 0
          \/ ~warned /\ endpoint = 0 /\ system \in {"Windows 11", "macOS"}

\* However far the setup got, and however it ended, the thread leaves nothing open and
\* closes nothing twice; while it captures, nothing but its event and COM is held.
HandlesClosed ==
    /\ stage = "over" => open = {}
    /\ Range(closing) \subseteq open /\ IsInjective(closing)
    /\ stage = "running" => open \subseteq {"com", "event"}

\* Frames carry the format of the endpoint they come from, which is looked up once for its
\* format and again to be opened, and which bears the name that was asked for.  Changes of
\* the endpoints before the first lookup and after the second do no harm; a format is wrong
\* only if the endpoint was not asked or did not answer, and is the fixed one then, or if
\* between the two lookups the default moved or the name went over to another endpoint, and
\* is that of an endpoint which the source may have meant.
FormatTrue ==
    /\ stage = "running" /\ backend = "process" => label = "fixed"
    /\ stage = "running" /\ backend = "system" =>
          /\ source.name # <<>> => Endpoints[endpoint].name = source.name
          /\ \/ label = Endpoints[endpoint].format
             \/ "unanswered" \in doubts /\ label = "fixed"
             \/ /\ "moved" \in doubts
                /\ \E other \in DOMAIN Endpoints \ {endpoint} :
                      /\ label = Endpoints[other].format
                      /\ source.name # <<>> => Endpoints[other].name = source.name
=============================================================================
