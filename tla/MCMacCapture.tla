---------------------------- MODULE MCMacCapture ----------------------------
(***************************************************************************)
(* Finite instances of MacCapture.                                         *)
(***************************************************************************)
EXTENDS MacCapture

\* Nothing; an interleaved buffer; a buffer per channel, of one or different lengths.
StereoLists == {<<>>, <<2>>, <<2, 2>>, <<1, 2>>}
=============================================================================
