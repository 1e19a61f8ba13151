--------------------------- MODULE MCCaptureStart ---------------------------
(***************************************************************************)
(* Finite instances of CaptureStart.                                       *)
(***************************************************************************)
EXTENDS CaptureStart

SmallLetters == [letter \in {"A", "P", "I", "D"} |->
    CASE letter = "A" -> "a" [] letter = "P" -> "p" [] letter = "I" -> "i" [] letter = "D" -> "d"]

Stream(pid, active_, identifier, display) ==
    [pid |-> pid, active |-> active_, identifier |-> identifier, display |-> display]

\* Two streams of a process, a process whose name holds another's, one that is named by its
\* display or by its pid, a silent one, the capturing process and the system's sounds.
SomeStreams ==
    { Stream(7, TRUE, <<"c", "\\", "A", "b">>, <<>>),
      Stream(7, TRUE, <<>>, <<"b">>),
      Stream(17, TRUE, <<"x", ".", "a">>, <<>>),
      Stream(9, TRUE, <<>>, <<"7">>),
      Stream(8, FALSE, <<"a">>, <<>>),
      Stream(5, TRUE, <<"a">>, <<>>),
      Stream(0, TRUE, <<>>, <<"a">>) }

ShortListings == BoundedSeq(SomeStreams, 3)

SomeQueries ==
    { <<"a">>, <<"A", "B">>, <<" ", "x", ".", "a", " ">>, <<"7">>, <<"1", "7">>,
      <<"p", "i", "d">>, <<"a", "b", "c">>, <<" ">> }

SomePids == {0, 7}

\* Two endpoints share a name, one has no name and no floating-point samples.
SomeEndpoints ==
    << [name |-> <<"s">>, format |-> "stereo", float |-> TRUE],
       [name |-> <<"s">>, format |-> "surround", float |-> TRUE],
       [name |-> <<>>, format |-> "mono", float |-> FALSE] >>
=============================================================================
