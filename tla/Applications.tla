---------------------------- MODULE Applications ----------------------------
(***************************************************************************)
(* Which applications can be captured and which one a selector means: the  *)
(* listings of windows.rs and macos.rs and the resolver of lib.rs, as      *)
(* operators on what the operating system reports.                         *)
(*                                                                         *)
(* A text is a sequence of characters, and no text is <<>>.  The operating *)
(* system reports a sequence of streams: records of a pid, whether it is   *)
(* active, the identifier of its process (the path of its program or its   *)
(* bundle) and a display name.                                             *)
(***************************************************************************)
EXTENDS Integers, Sequences, SequencesExt, FiniteSets

CONSTANT LowerCase  \* the capital letters, each with its small letter

Digits == <<"0", "1", "2", "3", "4", "5", "6", "7", "8", "9">>

-----------------------------------------------------------------------------
(* Texts *)

Lower(text) ==
    [i \in DOMAIN text |->
        IF text[i] \in DOMAIN LowerCase THEN LowerCase[text[i]] ELSE text[i]]

Trim(text) ==
    LET kept == {i \in DOMAIN text : text[i] # " "}
    IN IF kept = {} THEN <<>> ELSE SubSeq(text, Min(kept), Max(kept))

Occurs(part, text) ==
    \E i \in 0 .. Len(text) - Len(part) : SubSeq(text, i + 1, i + Len(part)) = part

\* What follows the last separator.
LastPart(text, separator) ==
    LET cuts == {i \in DOMAIN text : text[i] = separator}
    IN IF cuts = {} THEN text ELSE SubSeq(text, Max(cuts) + 1, Len(text))

\* A text that parses as a number, and the number.
IsNumber(text) == text # <<>> /\ Range(text) \subseteq Range(Digits)

Number(text) ==
    FoldLeft(LAMBDA n, digit : 10 * n + IndexFirstSubSeq(<<digit>>, Digits) - 1, 0, text)

\* "PID {pid}", the name of a process without one.
PidText(pid) ==
    LET Decimal[n \in Nat] ==
            (IF n < 10 THEN <<>> ELSE Decimal[n \div 10]) \o <<Digits[(n % 10) + 1]>>
    IN <<"P", "I", "D", " ">> \o Decimal[pid]

-----------------------------------------------------------------------------
(* The listings *)

\* The file name of the program, else the stream's display name.
WindowsName(stream) ==
    IF stream.identifier # <<>>
    THEN LET file == LastPart(stream.identifier, "\\")
         IN IF file # <<>> THEN file ELSE stream.identifier
    ELSE IF stream.display # <<>> THEN stream.display ELSE PidText(stream.pid)

\* The last component of the bundle identifier.
MacName(stream) ==
    LET last == LastPart(stream.identifier, ".")
    IN IF last # <<>> THEN last ELSE PidText(stream.pid)

\* The streams that count: active, of a process, and not of the capturing one.
Audible(streams, self) ==
    {i \in DOMAIN streams : streams[i].active /\ streams[i].pid \notin {0, self}}

\* One application per process, named as its first stream is.  The devices it is on, which
\* nothing depends on, are left out.
Applications(streams, self, names) ==
    LET First(pid) == Min({i \in Audible(streams, self) : streams[i].pid = pid})
    IN {[pid |-> pid, name |-> names[First(pid)], identifier |-> streams[First(pid)].identifier] :
            pid \in {streams[i].pid : i \in Audible(streams, self)}}

-----------------------------------------------------------------------------
(* The resolver *)

Exactly(application, query) ==
    Lower(query) \in {Lower(application.name), Lower(application.identifier)}

Partly(application, query) ==
    \/ Occurs(Lower(query), Lower(application.name))
    \/ Occurs(Lower(query), Lower(application.identifier))

\* Fault: a part of a name is as good as all of it.
ResolvePartly(selector, applications) ==
    LET query == Trim(selector)
    IN IF query = <<>> THEN {} ELSE {a \in applications : Partly(a, query)}

\* resolve_audio_application_from: the applications that the selector may mean.  One is
\* the answer; none and several are errors, and so is a selector of blanks.
Resolve(selector, applications) ==
    LET query   == Trim(selector)
        process == {a \in applications : IsNumber(query) /\ a.pid = Number(query)}
        exact   == {a \in applications : Exactly(a, query)}
    IN IF query = <<>> THEN {}
       ELSE IF process # {} THEN process
       ELSE IF exact # {} THEN exact
       ELSE {a \in applications : Partly(a, query)}
=============================================================================
