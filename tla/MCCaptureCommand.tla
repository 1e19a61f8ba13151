-------------------------- MODULE MCCaptureCommand --------------------------
(***************************************************************************)
(* Finite instances of CaptureCommand: sizes of 16 in place of 2^32, a     *)
(* header that adds 3 in place of 36.                                      *)
(***************************************************************************)
EXTENDS CaptureCommand

\* Frames that fill the size up to its last byte, and past it.
MixedFrames == {4, 5}
=============================================================================
