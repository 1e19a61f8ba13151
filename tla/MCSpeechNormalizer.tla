------------------------- MODULE MCSpeechNormalizer -------------------------
(***************************************************************************)
(* Finite instances of SpeechNormalizer.                                   *)
(***************************************************************************)
EXTENDS SpeechNormalizer

\* Frames smaller than a block, of several blocks, and none of a block's size.
MixedPackets == {1, 3, 9}
=============================================================================
