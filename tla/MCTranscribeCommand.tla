------------------------ MODULE MCTranscribeCommand ------------------------
(***************************************************************************)
(* Finite instances of TranscribeCommand.                                  *)
(***************************************************************************)
EXTENDS TranscribeCommand

\* A frame completes more chunks than a queue of one holds.  A frame that
\* completes none is, for the queue, no frame.
ChunkPairs == {2}
=============================================================================
