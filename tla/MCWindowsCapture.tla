-------------------------- MODULE MCWindowsCapture --------------------------
(***************************************************************************)
(* Finite instances of WindowsCapture.                                     *)
(***************************************************************************)
EXTENDS WindowsCapture

\* Packets smaller and larger than a frame, so that frames straddle packets.
MixedBursts == {1, 3}
=============================================================================
